SPECIFICATION MeshSpec

CONSTANTS
  FreshStamps = TRUE
  ClockSteps = FALSE
  Lossy = TRUE
  JoinHost = {NoHost}
  Wanted = {}
  MaxOps = 1
  MaxStray = 1
  ID = {c1, c2}
  HubID = HubID
  Name = {n1, n2}
  HubName = {HubID}
  Route = {}
  Host = {}
  NoHost = NoHost
  Port <- MCPort
  ClientWGPort <- MCClientWGPort
  PoolSize = 3
  HubAddr = {1}
  MaxKey = 2
  MaxToken = 1
  MaxHubKey = 1
  MaxTime = 2

SYMMETRY Symmetry

CHECK_DEADLOCK FALSE

PROPERTY
  AdvertChangesAreStamped
