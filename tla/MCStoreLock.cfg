SPECIFICATION LockLiveSpec

CONSTANTS
  h1 = h1
  h2 = h2
  cli = cli
  Actor <- MCActor
  NoActor = NoActor
  Process <- MCProcess
  ProcOf <- MCProcOf
  MaxCalls <- MCMaxCalls

INVARIANTS
  CopyIsCurrent
  AckedSurvive

PROPERTIES
  MutateIsAtomic
  CallsReturn
