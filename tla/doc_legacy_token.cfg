SPECIFICATION Spec
CONSTANTS
  s1 = s1
  s2 = s2
  l1 = l1
  r1 = r1
  default = default
  work = work
  Setups <- MCSetups
  Readers <- MCReaders
  Removers <- MCRemovers
  AliasOf <- MCAliasOf
  Aliases = {default, work}
  Default = default
  NoFile = NoFile
  Empty = Empty
  Garbled = Garbled
  Legacy = Legacy
  MaxKills = 1
  MaxFaults = 1
INVARIANT LegacyTokenSurvives
CHECK_DEADLOCK FALSE
