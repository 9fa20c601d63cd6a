SPECIFICATION FairSpec
CONSTANTS
  Builder = {loc, r1, r2}
  Local = {loc}
  Platform = {amd64, arm64, s390x}
  NoBuilder = NoBuilder
INVARIANTS
  TypeOK
  ScheduleSound
  ErrorHasCause
  DefaultAlwaysSchedulable
  ListsComplete
  StatusComplete
PROPERTIES
  ImplementsScheduler
  QueryReturns
