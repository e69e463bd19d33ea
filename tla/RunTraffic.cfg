\* Three clients, two runs, anything failing, killed anywhere.
CONSTANTS
  Client <- MCClient
  Tests <- MCTests
SPECIFICATION Spec
INVARIANTS
  TypeOK
  CountsOnlyThisRun
  NoPhantomLoss
\* The last run of the tool ends.
CHECK_DEADLOCK FALSE
