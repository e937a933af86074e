SPECIFICATION MeshSpec

CONSTANTS
  FreshStamps = TRUE
  ClockSteps = FALSE
  Lossy = TRUE
  JoinHost = {NoHost}
  Wanted = {}
  MaxOps = 1
  MaxStray = 0
  ID = {c1, c2}
  HubID = HubID
  Name = {n1, n2}
  HubName = {HubID}
  Route = {r1}
  Host = {}
  NoHost = NoHost
  Port <- MCPort
  ClientWGPort <- MCClientWGPort
  PoolSize = 4
  HubAddr = {1}
  MaxKey = 1
  MaxToken = 2
  MaxHubKey = 1
  MaxTime = 3

SYMMETRY Symmetry

CHECK_DEADLOCK FALSE

INVARIANT
  NextBeatRefreshes
