\* Every spelling of the options, then every previous and desired state of
\* three interfaces with two VLANs.
CONSTANTS
  i1 = i1
  i2 = i2
  i3 = i3
  Blank = Blank
  Untagged = Untagged
  Junk = Junk
  Iface <- ThreeIfaces
  Vlan <- TwoVlans
  BatchSize = 2
  ExcludeOptions <- MCExcludeOptions
  RtOptions <- MCRtOptions
  RtAsnDefault = 3
  MaxId = 4
SPECIFICATION Spec
INVARIANTS
  OptionsAsWritten
  AnswersHandle
  EveryBatchReached
\* A behaviour is one invocation and ends with its answer.
CHECK_DEADLOCK FALSE
