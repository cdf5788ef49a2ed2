SPECIFICATION Spec
CONSTANTS
  Commands = {c1, c2}
  NoCommand = NoCommand
  MaxKills = 1
  MaxRemovals = 0
  MaxFaults = 0
SYMMETRY Symmetry
INVARIANT RetryRuns
CHECK_DEADLOCK FALSE
