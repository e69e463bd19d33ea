\* One setup after another one is enough.
CONSTANTS
  Vlan = {1, 2, 3}
  MaxRuns = 2
SPECIFICATION Spec
INVARIANT SetupCompletes
CHECK_DEADLOCK FALSE
