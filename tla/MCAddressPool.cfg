SPECIFICATION PoolSpec

CONSTANTS
  Width = 3
  Family <- MCFamily
  Client = {c1, c2}
  HubMember = HubMember

SYMMETRY Symmetry

INVARIANTS
  PoolTypeOK
  OneHolder
  HubUsable

PROPERTIES
  AllocatesLowest
  PoolIsLeased
