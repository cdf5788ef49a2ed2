SPECIFICATION FairSpec
CONSTANTS
  s1 = s1
  s2 = s2
  Procs <- MCProcs
  Servers <- MCProcs
  NFiles = 3
  Needs <- MCNeeds
  MaxFaults = 2
  Logins = {l1, l2}
  Callbacks = {c1, c2}
  NoProc = NoProc
  NoLogin = NoLogin
INVARIANTS LifecycleTypeOK SchemaIsWhole OneExchangePerState RefusedForCause
PROPERTY ServersComeUp
CHECK_DEADLOCK FALSE
