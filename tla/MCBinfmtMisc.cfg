SPECIFICATION Spec
CONSTANTS
  Platform <- Platforms
  Headers <- getKnownELFPlatformHeaders
  BitAnd <- ByteAnd
  Entry <- Entries
  Directories <- Listings
  MaxEntries = 3
CHECK_DEADLOCK FALSE
INVARIANTS
  TypeOK
  DetectionSound
  DetectionExact
