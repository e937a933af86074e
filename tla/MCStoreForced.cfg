SPECIFICATION ForcedSpec

CONSTANTS
  h1 = h1
  Actor <- MCActor
  NoActor = NoActor
  Process <- MCProcess
  ProcOf <- MCProcOf
  MaxCalls <- MCMaxCalls

INVARIANT
  WipedStaysWiped
