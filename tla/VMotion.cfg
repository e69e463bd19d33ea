\* Three rounds of each loop, bursts of two; every option, any failed read.
CONSTANTS
  MaxRounds = 3
  BurstCount = 2
SPECIFICATION Spec
INVARIANTS
  TypeOK
  TargetReal
  DropsNotUnderstated
  VerdictIsTrue
  NothingStranded
PROPERTIES
  Ends
\* A run of the tool ends.
CHECK_DEADLOCK FALSE
