---------------------------- MODULE MCOutputRelay ----------------------------
(* Outputs for TLC: none, a line that fills the buffer, and one with a line    *)
(* that is longer than the buffer and comes in two writes, an empty line, and  *)
(* a rest without its newline.                                                 *)
EXTENDS OutputRelay

CONSTANT NL

Texts == {<<>>, <<<<"f", NL>>>>, <<<<"a", "b">>, <<"c", NL, NL, "d", NL, "e">>>>}
=============================================================================
