SPECIFICATION MeshLiveSpec

CONSTANTS
  FreshStamps = FALSE
  ClockSteps = FALSE
  Lossy = TRUE
  JoinHost = {NoHost}
  Wanted = {3}
  MaxOps = 1
  MaxStray = 1
  ID = {c1, c2}
  HubID = HubID
  Name = {n1, n2}
  HubName = {HubID}
  Route = {}
  Host = {}
  NoHost = NoHost
  Port <- MCPort
  ClientWGPort <- MCClientWGPort
  PoolSize = 3
  HubAddr = {1}
  MaxKey = 2
  MaxToken = 2
  MaxHubKey = 2
  MaxTime = 1

CHECK_DEADLOCK FALSE

PROPERTIES
  AnswersFixMembership
  MembershipConverges
  IdentityConverges
