SPECIFICATION NodeSpec

\* A machine whose config was removed, and that does not join again, stops.
CHECK_DEADLOCK FALSE

CONSTANTS
  Hub <- MCHub
  Peer <- MCPeer
  Name <- MCName
  Host <- MCHost
  LocalHost <- MCLocalHost
  HubEndpoint <- MCHubEndpoint
  Pin <- MCPin
  PinKey <- MCPinKey
  JoinPins <- MCJoinPins
  NoHost <- MCNoHost
  Port <- MCPort
  DefaultPort <- MCDefaultPort
  Daemon = daemon
  Command = {command}
  MeshOffered = TRUE
  Addr = {1}
  MaxKey = 1
  MaxEdits = 1
  MaxCommands = 1

INVARIANT
  OverridesSurvive
