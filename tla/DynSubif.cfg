\* Two interfaces, two VLANs of which one may be excluded, batches of two:
\* up to four pending changes, so work may exceed a batch, and a VLAN may
\* move between interfaces within one.
CONSTANTS
  i1 = i1
  i2 = i2
  Iface <- TwoIfaces
  Vlan <- TwoVlans
  BatchSize = 2
  Excludable <- LastVlan
SPECIFICATION FairSpec
INVARIANTS
  TypeOK
  ServiceIntegrity
  NoDrift
  CommitResolves
  SettledIsSynced
PROPERTIES
  MoveKeepsService
  ImplementsService
