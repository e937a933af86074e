SPECIFICATION MeshSpec

CONSTANTS
  FreshStamps = TRUE
  ClockSteps = TRUE
  Lossy = FALSE
  JoinHost = {NoHost}
  Wanted = {3}
  MaxOps = 2
  MaxStray = 0
  ID = {c1, c2, c3}
  HubID = HubID
  Name = {n1, n2}
  HubName = {HubID}
  Route = {r1}
  Host = {h1}
  NoHost = NoHost
  Port <- MCPort
  ClientWGPort <- MCClientWGPort
  PoolSize = 3
  HubAddr = {1}
  MaxKey = 2
  MaxToken = 1
  MaxHubKey = 1
  MaxTime = 2

SYMMETRY Symmetry

CHECK_DEADLOCK FALSE

INVARIANTS
  MeshTypeOK
  NextBeatRefreshes
  CachedAddressesUnique
  IdentityAgrees

PROPERTIES
  ExchangeIsAtomic
