\* Two LAGs of one Ethernet Segment leaf, two VLANs, batches of one; with an
\* operator who keeps to the documented discipline and with any other.
CONSTANTS
  lag1 = lag1
  lag2 = lag2
  Iface <- TwoLags
  Vlan <- TwoVlans
  Excludable <- LastVlan
  BatchSize = 1
SPECIFICATION Spec
INVARIANTS
  TypeOK
  NoDrift
  SettledUnlessDown
  DisciplineSuffices
PROPERTIES
  ConvergesOrStaysDown
