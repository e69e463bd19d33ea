\* A failed read of the source leaf is taken for a release.
CONSTANTS
  MaxRounds = 3
  BurstCount = 2
SPECIFICATION Spec
PROPERTY
  ReleaseSeen
\* A run of the tool ends.
CHECK_DEADLOCK FALSE
