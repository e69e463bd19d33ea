\* A cleanup command that does not answer.
CONSTANTS
  MaxRounds = 3
  BurstCount = 2
SPECIFICATION Spec
INVARIANT
  NeverStrands
\* A run of the tool ends.
CHECK_DEADLOCK FALSE
