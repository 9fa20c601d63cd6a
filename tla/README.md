# TLA+ models of buildfarm

`buildfarm` builds one container image on several machines at once, one build
per target platform, and assembles the images into a manifest list. The modules
here model its own logic: the farm, its schedules and builds, the image builders,
the two list builders, the relay of the builds' output, the detection of
emulators, and the life of a command. The libraries it drives (podman, buildah,
containers/image, containers/storage) are outside: they appear as the effects
that the code relies on and as the failures that it has to survive.

Paths are relative to the repository's root; `PROJECT.json` maps every
definition to its lines.

## 1. The system

| Part | State | Operations | Module |
|---|---|---|---|
| Image builders `podmanLocal` (`local.go`), `podmanRemote` (`remote.go`), `dockerEngine` (`docker.go`, which nothing constructs) | a connection; the host's platforms and the error of fetching them, behind one `sync.Once` | `Info`, `NativePlatforms`, `EmulatedPlatforms`, `Status`, `Build`, `PullToFile`, `PullToLocal`, `RemoveImage`, `PruneImages`, `Done` | `ImageBuilder`, abstractly `InfoCache`; as their callers see them, in the modules below |
| Farm queries (`buildfarm.go`) | the map of builders; per call, a map filled by goroutines under a mutex | `NativePlatforms`, `EmulatedPlatforms`, `Status`, `Schedule` | `Farm`, abstractly `Scheduler` |
| `Farm.Build` (`buildfarm.go`) | jobs, build results, the chosen list builder | `Build` | `FarmBuild` |
| List in local storage (`local.go`, `listLocal`) | the manifest list and the images in local storage, which outlive a call | `Build` | `ListLocal` |
| List in a directory (`files.go`, `listFiles`) | a temporary directory; the output directory, which outlives a call | `Build` | `ListFiles` |
| Commands, construction and teardown (`cmd/buildfarm`, `buildfarm.go`) | the open connections, the store | `build`, `status`, `platforms`, `prune`, help; `storeBefore`, `getFarm`, `newFarmWithBuilders`, `forEach`, `PruneImages`, `Done`, `storeAfter` | `FarmLifecycle` |
| Output relay (`buildfarm.go:442-475`) | two pipes per build, each with a buffered reader | copy lines to the terminal | `OutputRelay` |
| Emulation detection (`emulation/`) | a table of ELF headers | walk and parse `binfmt_misc`, compare magic numbers | `ELFHeaders`, `BinfmtMisc` |

**How they interact.** A command makes a farm (one goroutine per connection),
calls one or two methods of it, and closes it. Every query and `Build` start a
`multierror.Group` of goroutines, one per builder or per platform, and wait for
all of them. `Build` gives the images it has built, each with its builder, to a
list builder, which starts two more groups: pulls and then removals, on the
builders. Goroutines share the caller's maps under a mutex, and the builders'
cached platforms through a `sync.Once`.

**What is hard.** Which goroutine reaches a map first; one goroutine of a group
failing while others have already done their part; work that is done in several
saved steps (clear the list, fill it) and can stop between any two; removal of
the only copy of an image; deferred calls that meet running goroutines; fields
that are read without the `sync.Once` that sets them; a writer that waits for a
reader which nobody waits for; a walk whose order decides which errors are seen;
maps whose keys are not what the caller thinks they are. `PROJECT.json` lists these
hazards line by line, with the properties that look for each.

**What makes each part correct.**

* Queries: a result is complete and right for what the builders know, or it is
  an error that has a cause; native builders come before emulation.
* Build: nothing that exists is touched before all builds have succeeded;
  success means one image for each target.
* List builders: no image is lost, the old list or directory stays until its
  replacement is ready, success means exactly the images given.
* Image builders: the platform is found out once and is the same for everybody;
  a pull delivers a whole image or fails, and leaves no file behind.
* Output: what is printed is what was written, line by line; no build waits for
  the terminal's reader for ever.
* Emulation: a platform is reported only if the kernel runs its programs, and
  an error never makes the list a partial one.
* Lifecycle: a farm is complete or there is none; every builder is visited;
  what was opened is closed, and not before the work is done.
* All: every call returns.

## 2. The modules

`Schedules` holds what the others share: platforms, builders, `BuilderMap`
(a Go map from platform to builder; `NoBuilder` where there is no key) and
`Acceptable`, what it means for a schedule to be right. `Images` does the same
for the list builders: images, hosts, and the map from images to builders.

### Farm, Scheduler, FarmProofs

`once`, `nativePlatforms` and `emulatedPlatforms` are the fields of the builders;
`platformsDo` is the `platforms.Do(...)` with which their methods begin. It keeps
a failure like a success, for the life of the farm. `fetchInfo` chooses the
platforms anew on each call, so that only the `sync.Once` makes two passes
agree. A goroutine is two steps, `AskBuilder` (the call, outside the mutex) and
one of `MergeNative`, `MergeEmulated`, `MergeStatus` and `MergeInfo` (the critical
section); `task` says where it is. The wait after each group is an action of the
method's own goroutine (`NativeWait`, ..., `InfoWait`), and `Assign` is the loop
over the targets. A farm is used by one caller at a time, as the commands do.

`Scheduler` is what `Schedule` promises: each builder's platforms are learned at
most once, and an answer is given in one step, from what the builders know.
`Farm!S` maps a farm to it; `ImplementsScheduler` is the refinement.

### ListLocal and ListFiles

`storage` is the set of images of every host, `Here` the machine on which
buildfarm runs. `phase` is the place in `Build`; `pull` and `rm` are the goroutines
of the two groups; `todo` is what is left of a sequential loop over a map, whose
order is arbitrary. Every step may fail where the code has an error path, and
`Return` is the end of the function, deferred calls included. A removal may have taken
effect although its call fails. In `ListLocal` the
process may also end between any two steps (`Kill`): the list and local storage
are persistent and a later call meets what is left. In `ListFiles` goroutines
start while the loop still creates files, and `Unwind` is the deferred
`pullGroup.Wait()` of `files.go:79`.

Images and their IDs are model values. The contents of `dir:` and of the list are
the sets of images that can be read from them. Hosts are distinct
(`StorageAssumption`): a connection to a podman service on the very machine that
runs buildfarm would share its storage under another name, and is left out.

### FarmBuild

`Farm.Build`, composed with the steps of both list builders (`L == INSTANCE
ListLocal`, `F == INSTANCE ListFiles`) over one set of hosts. Its input is any
schedule that is `Acceptable`, which is what `Farm` is proved to return. `jobs`
keeps one platform per builder because the code stores jobs under the builder's
name; `podmanBuildPlatform` is the platform which `podman.go:43` passes to the
engine; `perArchBuilds` is keyed by build report, so equal images collapse. An
image has the platform for which it was built, and a platform may have one image
(reproducible builds) or several.

### ImageBuilder and InfoCache

One builder, used by any number of goroutines, whose methods interleave step by
step. `driver` is its kind; the three share their structure and differ in which
methods begin with `platforms.Do` (`usesOnce`), in `PullToFile` (docker creates the
file, podman leaves that to the engine), and in `PullToLocal` (the local builder
looks whether the image is there). `platformsDo` and `fetchInfo` are the two ends of
the `sync.Once`: others wait between them. `buildPlatforms` is what a build may read
of `os` and `arch` if it reads them without the `Once`, as `podmanRemote.Build` and
`dockerEngine.Build` do; the race with a fetch in progress is a choice.
There is one image without a name, as `Farm.Build` leaves it; `storage` says where it
is. `destination` is where `PullToLocal` brings it: for the local builder that is the
engine's own storage, both with no destination and with the engine that `listLocal`
passes (`local.go:104`: "we actually get the same runtime every time"), for the others
another one. So a removal or prune, which may come between any two steps of a pull and
take effect although it reports an error, takes the image from the local builder's
destination, too; `removed` records for each call that this happened since it began,
and `PullExact` is stated with it. `deferred` is the deferred call of
`dockerEngine.PullToFile`, applied to the result that is returned. `dockerEngine.Build`
dereferences a nil report on success, which ends the process (`crashed`). Removing
a temporary file is assumed to work; the code warns at most if it does not.

`InfoCache` is what the rest of the program relies on: an answer is learned at most
once and told to all. `Farm` uses it in one step (`AskBuilder`), and
`ImplementsInfoCache` is why it may.

### OutputRelay

Per build two `io.Pipe`s and two goroutines with a `bufio.Reader`. `pending` is what
the reader has not taken of a write: `Write` returns, and the next can begin, when
it is empty. `Fill`, `Full`, `PrintLine` and `ReadEOF` are what `ReadString` does with
its buffer. `Close` is the end of the build's goroutine; it may come before
everything is written, because builds fail. `BuildWait` does not wait for the readers,
and `Exit` comes at any time after it, so that what a reader still holds is lost.
Characters are letters and a newline.

### ELFHeaders and BinfmtMisc

`ELFHeaders` is `elf.go`: the table of platforms and, byte by byte, the headers made
of it; later writes come first in the `@@` chain. `BinfmtMisc` takes them as a
constant. `Directories` are listings in lexical order and `Entry` what the files
hold; `lines` is the kernel's text of an entry, as fields. `invalid`, `ignored` and
`verdict` are the switch of the scanning loop: what a line does to it, of which the
first line that ends it decides; `field` is the last value of a name, and
`parseBinfmtMisc` puts them together. `magicMatch` is the function of that name; the
walk is one action per file, because any file can fail, and because the order of an
error and of the file `status` decides what is returned. `EntryAssumption` is what
the kernel accepts. `HeaderAssumption` is what makes masking the magic number instead
of the header right; TLC evaluates it for the table of `elf.go` and the entries of
`MCBinfmtMisc`. That the headers tell the platforms apart, so that none answers to
another platform's emulator or misses its own, is not assumed: `DetectionExact` checks
it on these data. `Runs` is the kernel's rule, the
reference against which the detection is checked. `unread` records the entries
whose read error the scanner swallowed: the code takes them for empty.

### FarmLifecycle

One run of any command: `storeBefore`, the options, connections in parallel, the
farm's methods (`Methods` says which, in which order; `calls` what is left), and on
success `Done` and the store. A method is its visits to the builders, each an
answer or an error; what it computes is in `Farm` and `FarmBuild`. `Build` visits the
builders of its schedule, the others all. An error of a method is the command's,
and cobra then skips the post-run hook. The local builder is asked for as `(local)`
and kept under the key `""`.

## 3. The runs

Passing runs:

| Run | Bounds | Shows |
|---|---|---|
| `farm` | 1 local, 2 remote builders, 3 platforms, any number of queries | schedules are sound, errors have causes, lists and status are complete, `Farm` implements `Scheduler`, queries return |
| `list_local` | 1 local, 2 remote builders, 2 images, any number of calls, kills | no image lost, list replaced last, exact on success, `Build` returns |
| `list_files` | as `list_local`, no kills | no clean-up under a pull, no image lost while running, directory replaced last, exact on success, `Build` returns |
| `farm_build` | 1 local and 1 remote builder, 2 platforms, one image each | all or nothing, native builds exact (right job, one image per target, no leftovers), `Farm.Build` returns |
| `farm_build_remote` | 2 remote builders, with and without storage, 2 platforms, 3 images | native builds exact when a rebuild makes a new image, and without local storage |
| `lifecycle` | 2 destinations and the local builder, any names, all 5 commands | farms complete, all visited, all closed on success and not earlier, commands end |
| `image_builder` | 2 goroutines, each kind of builder, any number of calls | `ImageBuilder` implements `InfoCache`; builds are for the host, pulls deliver or fail and clean up, calls return |
| `relay` | 2 builds with 2 streams each, silent, with a line that fills the buffer, or with a line longer than the buffer (2) in two writes, an empty line, and a rest without newline | lines whole and in order, lost only in a reader's hands at exit, readers outlive writers, `Build` returns |
| `binfmt` | all 16 platforms of `elf.go`; listings of up to 3 of 14 entries (`MaxEntries`), three values of `status`, any file unreadable | detection is sound, never partial after a noticed error, exact without errors |

**Why the bounds are enough.** The races are between two goroutines of one group,
or between one that fails and one that succeeds, so two or three of them show
every order. Streams are independent but for `Close` and the exit, so two builds
with two each show all that matters, and a buffer of two is smaller, equal to and
larger than parts of the text. The entries of `MCBinfmtMisc` are those of the
repository's test, variants that differ in one respect (disabled, without `F`,
another offset, no mask, no flags, an extension), and an offset beyond 8 bits; entries
only add to a set or end the walk, so three of them show each before, after and
around a failing one. Three builders let two agree on a platform and the third be needed
for another; the number of calls is not bounded anywhere, so leftovers of
earlier calls are always there. `BuildImage` and `Kill` put storage in every state
that earlier calls can leave. Symmetry is used between the remote builders of
`farm_build_remote`, which the modules treat alike, and in no liveness run.

**Fairness.** `WF` on the goroutines and on the method's own continuation: the Go
scheduler runs whatever can run. It includes the assumption that each call on a
builder ends, successfully or not, and in `OutputRelay` that a build ends when its
writes are taken (`WF` on `Close`); a write is never assumed to happen. In
`ImageBuilder` it is `WF` on the steps of each goroutine: a waiter of the `sync.Once`
goes on only after `fetchInfo`. The code sets no timeout, so a host that
accepts a connection and never answers blocks its group for ever; that is a
hazard without a property. No fairness is assumed of callers or of `Kill`.

**Deadlock** is checked except where the system really ends: a command
(`FarmLifecycle`), its output (`OutputRelay`), the walk (`BinfmtMisc`), and the process
that `dockerEngine.Build` has crashed (`ImageBuilder`).

### Disagreements between the code and what is said of it

Each of these runs ends in a violation, and shows the behaviour of the code:

* `farm_status`: `Status` promises "an error if any are down or otherwise
  unreachable", but `podmanRemote.Status` drops `platformsErr` and returns the error
  of `engine.Config`, which for a remote engine asks nobody.
* `list_files_removed`: `--rm-images` is to "remove images from builders on
  success", but both list builders remove them before the steps that can still
  fail. With `listFiles`, which the run shows, the deferred `RemoveAll` then
  deletes the only other copy; with `listLocal` the copy in local storage stays.
  (What a removal that itself failed has done is left aside.)
* `farm_build_emulated`: a target scheduled on an emulating builder is built for
  the builder's own platform (`podman.go:43` ignores `options.Platforms`).

Other places where the code is not what is said of it, read from the source and kept as
notes:

* `buildfarm.go:404`: jobs are stored under the builder's name, so two targets on one
  builder share one job and both goroutines ask for the same platform. Native targets
  never share a builder, and for them `NativeBuildExact` shows the right job.
* `buildfarm.go:423`: without `--local` a named reference becomes a directory of that
  name, while `buildfarm.go:366-368` promises a list in local storage and the
  README goes on to push it.
* `buildfarm.go:94`: `""` in the list of destinations does not include the local
  builder, although `buildfarm.go:135-138` says so; `(local)` does.
* `binfmtmisc_linux.go:79`: an error met before `status` is read, in lexical order, is
  dropped, although `:19-22` promises "an error if something unexpected happened";
  the usual emulators, `qemu-*`, come before it. Without `binfmt_misc` in
  `/proc` the callback gets a nil `DirEntry` and line 33 panics (`Root`). An entry
  without flags shows `flags:` alone, which line 146 takes for an error. `scanner.Err`
  is not looked at.
* `binfmtmisc_linux.go:94-98` masks the magic number, `:86-87` says the header.
  `DetectionExact` shows that it comes to the same for the emulators of the test.
* `elf.go:193` writes the flags at bytes 30 or 36; in an ELF header they are at 36 or
  48. Every mask of the test's emulators ends before them.
* `docker.go:229` dereferences a report that is never set, although `:123-124` says the
  image's ID is returned.

Smaller observations: `files.go:91` compares `SaveFormat` with a
media type, which it never is, so the list is always an OCI index; the ID file
(`files.go:162`) gets the text `sha256:` and no digest; `PruneImagesOnSuccess` is
set from `--prune` and never read; `status` and `prune` print nothing about the
nodes that are well when one of them fails; `remote.go:52` sets an error that the
next assignment overwrites.

## 4. The proofs

Every component has a module of proofs, and each safety property that a passing
run checks, but for `DetectionExact`, is a theorem for all values of the constants that
meet the assumptions.
A property speaks mostly of calls that have returned; the inductive invariant,
`IInv` in each module, says what holds on the way there. TLC checks the
properties on the small instances of section 3 and evaluates there every assumption
that a proof uses.

### FarmProofs

`FarmProofs` proves, for any sets of builders and platforms, all safety properties
of `Farm` that hold, and the refinement. The assumptions are that there is a builder
and `NoBuilder` is none (`BuilderAssumption`) and that the local builders are builders
(`LocalAssumption`).

None of the properties is inductive: each speaks of a call that has returned and
compares its result with the builders' caches, and says nothing of the call
before. The inductive invariant `IInv` says, beside the types,

* `PhaseOK`: which fan-outs a method can be in;
* `TaskOK`: a goroutine that has been answered, or is done, has asked a builder
  whose `once` is no longer fresh, and it failed exactly if `once` did;
* `FoundOK`, `NotesOK`: the map of a fan-out in progress holds exactly what the
  goroutines that are done have merged, so `found` is the union over them, and
  `native[p]` names one of them that is native for `p`, if there is any;
* `StatusOK`: a status is set exactly for the goroutines that are done;
* `TargetsOK`: the targets are the request, or all native platforms if that is
  empty; it holds from the first fan-out to the end because no cache changes
  once every builder has been asked;
* `Results`: the conjunction of the properties themselves.

When all goroutines are done, "those that are done" is all builders, and each
result follows in the step that returns it. The refinement uses the same
invariant: `AskBuilder` is the abstract `Learn` or a stutter, the step that
returns from `Schedule` is the abstract answer, everything else stutters.

### ListLocalProofs and ListFilesProofs

`ListLocalProofs` proves, for any sets of images and builders, the safety
properties of `ListLocal`, from `StorageAssumption`: hosts are distinct. Again
`IInv` is needed because the properties do not say why they stay true. Its core is
that nothing takes an image out of local storage, because only images of remote
builders are removed (`RmOK`); so an image whose pull succeeded stays (`PullOK`),
all of them have when the pulls are over (`Pulled`), and the list is what is left
to clear, and then what is no longer left to add (`ListOK`). `Kill` keeps it all,
which is why a later call can repair what a killed one left.

`ListFilesProofs` does the same for `ListFiles`, from the same assumption. Nothing is
persistent here, so the argument is another one: on every way out of `Build` the wait
for the pulls comes before the removal of the temporary directory. `TempOK` says that
while `Build` works the directory exists and holds exactly the images with a reference,
`PullOK` that these are those whose pull succeeded and that pulls run before the wait
only; hence `NoPullAfterCleanup`. Up to the wait every image is on its builder
(`Stored`), after it every image has been pulled (`Pulled`), so it is lost in neither.
`Unwinding` is needed because a loop that failed is followed by a wait, and must
not be taken for one that succeeded. `DirectoryReplacedLast` is an action property and
follows from `TempOK` and `Pulled` step by step.

### FarmBuildProofs

`FarmBuild` runs the steps of a list builder, so its invariant contains that of the
list builder it has chosen: `ListOK` is `IInv` of `ListLocalProofs` or of
`ListFilesProofs`, instantiated, and their lemmas are used again for every step of the
list. What is added relates the builds to it: a goroutine for each target
(`BuildOK`), what one that succeeded has left (`ResultOK`), and that the list builder
is given the images of all targets (`Built`). `NativeBuildExact` then needs that with
native builders the schedule is one-to-one: a builder has one native platform, so
two targets never share a job, and no job is overwritten. The assumptions are
`ImageAssumption` (an image has a platform; the model values differ; the local builder
is a builder) and those of the list builders.

### FarmLifecycleProofs

For any destinations, from `NamesAssumption` (the name and the key of the local builder
are no destination). `ConnectOK` and `ConnOK` follow a builder: it is in the farm exactly
if its goroutine succeeded, and connected until `Done`; `VisitOK` says that visited,
failed and still to visit are all builders. The properties look at a command that
has ended and say nothing of the methods and goroutines in between, so neither is
inductive.

### ImageBuilderProofs

For any number of goroutines and each kind of builder, from `ValuesAssumption` (the
values of a result differ). `OnceOK` is mutual exclusion and publication of the
`sync.Once`: at most one goroutine fetches, the platform is unset until it is done and
never changes after, and whoever is past `platforms.Do` comes after it. `ToldOK` adds
that whoever was told the platform can rely on it, which is all that the methods
without `platforms.Do` have; `FilesOK` follows the files of a pull. `PullExact` of a
call that has returned is kept because every step keeps `Kept`: the image stays at the
destination, or else the step is a removal and every call remembers it. The refinement of
`InfoCache` maps `fetchInfo` to the abstract learning and an answer to the abstract
telling; all other steps stutter.

### OutputRelayProofs

For any outputs, any number of builds and any size of the buffer but 0, from
`BufferAssumption` and `TextAssumption` (outputs are sequences of texts). The invariant
`TextOK` says that what was written is a text of whole lines, whose lines are the
printed ones, and then `line`, `buffer` and `pending` in a row; every step only moves
the borders. `ReaderOK` (no newline in `line`) makes `PrintLine` print one line, and
`ClosedOK` that nothing is on its way when `Build` returns. `LinesOf`, the reference,
would invite induction over the text. It is defined without recursion instead: the
k-th line ends at the newline with k newlines up to it. Counting numbers the
newlines one-to-one, and as many numbers as newlines leave none out, so each
number has its newline; from this follow the lines of a concatenation (`LinesConcat`).

### BinfmtMiscProofs

For any headers, entries and listings that satisfy the assumptions of the module:
`EntryAssumption`, `NamesAssumption`, `BitAndAssumption` (masking twice is masking once)
and, for `DetectionSound` only, `HeaderAssumption`. These are
statements about bytes, computed with `Bitwise`, which the prover cannot use; TLC
evaluates them for the real table. The lemmas say what the functions compute. The loop of
`magicMatch` finds a match exactly if all bytes agree (`MagicMatchIsAgreement`). A
masked entry is compared exactly if it is enabled and has the flag `F`, or else is
ignored or an error, never ignored if it has both (`ParseWithMask`); one without a mask
adds nothing. `Detectable` is this rule in one formula, without the loops, and an entry
adds exactly its detectable platforms (`AddedIsDetectable`). The invariant has the
position of the walk (`WalkOK`): as long as there is no error, all files before it are
covered, the status included. The properties cannot do without, because they must exclude
a list that is returned from a walk that stopped half-way, or before it came to the status.

`DetectionIsComplete` is what follows of the code alone: without errors the list is the
union of the detectable platforms of all entries, whatever the table of headers.
`DetectionIsSound` compares it with the kernel's rule: what is detectable the kernel
runs (`DetectableIsEmulable`), and with `HeaderAssumption` nothing that it runs with a
masked entry is missed (`EmulableIsDetectable`).

**Only model-checked:**

* everything under fairness: the prover has no rule for `ENABLED`;
* what depends on the bytes of `elf.go`'s table and of the emulators' magic numbers:
  `HeaderAssumption`, and `DetectionExact`, that the platforms found are those an
  emulator is meant for, for the entries of `MCBinfmtMisc`;
* the three runs that end in a violation.

## 5. What is not modelled

* What the parsing of options computes, printing, logging; build options that are
  only passed on. Where parsing can fail, the failure is modelled.
* Hosts that share storage (a connection to the machine that runs buildfarm): the
  list builders and their proofs assume that there are none.
* Hosts that never answer: nothing in the code ends such a call.
* `CreateFarm`, `UpdateFarm` and a farm with a name return "not implemented".
* Concurrent use of one farm by two callers: no code does so.
* The contents of images, manifests and archives.
* The end of the process in `ListFiles` and `FarmBuild`: what it leaves on disk is
  a temporary directory that no later call reads, and an output directory like
  that of a failed copy.

## 6. Plan

1. Done: all components have a module and a run; every module has proofs of
   its safety properties; `Farm` implements `Scheduler` and `ImageBuilder` implements
   `InfoCache`.
2. Next: an abstract replacement of a list that both list builders implement, and an
   abstract all-or-nothing build that `FarmBuild` implements.
