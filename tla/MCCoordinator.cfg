SPECIFICATION Spec

CONSTANTS
  ID = {c1, c2}
  HubID = HubID
  Name <- MCName
  HubName <- MCHubName
  Route = {r1}
  Host = {h1}
  NoHost = NoHost
  Port <- MCPort
  ClientWGPort <- MCClientWGPort
  PoolSize = 3
  HubAddr = {1, 2}
  MaxKey = 1
  MaxToken = 2
  MaxHubKey = 2
  MaxTime = 2

SYMMETRY Symmetry

INVARIANTS
  TypeOK
  AddressesUnique
  NamesUnique
  DeltaReconciles

PROPERTY
  AddressesAreLeased
