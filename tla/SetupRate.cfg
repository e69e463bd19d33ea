\* Two leaves or two ports, two VLANs, any read or command failing.
CONSTANTS
  Order <- MCOrder
  Ranges <- MCRanges
  Ports <- MCPorts
  Gap = 5
  TriggerTime = 1
  ReadTime = 1
  Interval = 1
  Settle = 10
  MaxWait = 11
  Samples = 3
  MaxRtt = 1
  Skew = 1
SPECIFICATION RateSpec
INVARIANTS
  TypeOK
  ColdWhenTriggered
  CompleteIsTrue
  NoSelfPoisoning
  CleansUp
  NoPrematureStop
  EndsInTime
  TimesAreTrue
\* The last run of the tool ends.
CHECK_DEADLOCK FALSE
