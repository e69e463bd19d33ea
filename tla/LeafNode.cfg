\* Two access ports carry VLAN 1, one LAG carries VLANs 1 and 2.
CONSTANTS
  e1 = e1
  e2 = e2
  lag1 = lag1
  ShIface <- TwoPorts
  MhIface <- OneLag
  ShVlan <- First
  MhVlan <- Both
  BatchSize = 1
SPECIFICATION Spec
INVARIANTS
  NodeResolves
  NodeNoDrift
  NoInterference
