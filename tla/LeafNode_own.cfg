\* One access port and one LAG carry the same VLAN.
CONSTANTS
  e1 = e1
  e2 = e2
  lag1 = lag1
  ShIface <- OnePort
  MhIface <- OneLag
  ShVlan <- First
  MhVlan <- First
  BatchSize = 1
SPECIFICATION Spec
PROPERTIES
  DeletesOnlyOwn
