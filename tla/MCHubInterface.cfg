SPECIFICATION HubLiveSpec

CONSTANTS
  ID = {c1, c2}
  HubID = HubID
  Name = {n1, n2}
  HubName = {HubID}
  Route = {}
  Host = {}
  NoHost = NoHost
  Port <- MCPort
  ClientWGPort <- MCClientWGPort
  PoolSize = 3
  HubAddr = {1, 2}
  MaxKey = 1
  MaxToken = 1
  MaxHubKey = 2
  MaxTime = 1

INVARIANTS
  HubTypeOK
  LiveAddressesUnique
  HubAddressApart

PROPERTIES
  BansAreEnforced
  MembersAreServed
