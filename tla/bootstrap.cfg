SPECIFICATION Spec
CONSTANTS
  Commands = {c1, c2, c3}
  NoCommand = NoCommand
  MaxKills = 2
  MaxRemovals = 1
  MaxFaults = 2
SYMMETRY Symmetry
INVARIANTS BootstrapTypeOK OnlyVerifiedRuns LockIsTruthful
CHECK_DEADLOCK FALSE
