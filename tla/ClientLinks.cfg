\* Three VLANs, three runs of any tool on them, one after the other.
CONSTANTS
  Vlan = {1, 2, 3}
  MaxRuns = 3
SPECIFICATION Spec
INVARIANTS
  SetupKeepsItsWord
  CleanupUndoesSetup
  TriggerReaches
\* The last run ends.
CHECK_DEADLOCK FALSE
