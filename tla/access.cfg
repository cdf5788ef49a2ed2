SPECIFICATION Spec
CONSTANTS
  root = root
  dev = dev
  ann = ann
  bob = bob
  eng = eng
  b1 = b1
  b2 = b2
  n1 = n1
  o1 = o1
  o2 = o2
  o3 = o3
  Ids = {b1, b2}
  Names = {n1, n2}
  Emails <- MCEmails
  Groups = {eng}
  GroupsOf <- MCGroupsOf
  Null = Null
  NoRow = NoRow
  AdminEmails = {root}
  DevAdmin = dev
  Credentials <- MCCredentials
  Bodies <- MCBodies
  NoBuddy = NoBuddy
  NoConn = NoConn
  NoEmail = NoEmail
  Conns = {c1}
  Opens = {o1, o2, o3}
  Asker <- MCAsker
  Walks = {w1}
  Filters <- MCFilters
  PageSize = 1
  MaxKeys = 2
CONSTRAINT Instances
INVARIANTS TypeOK AskableIsListed WalkMissesNothing
PROPERTIES OldKeysAreDead RevocationIsFinal
CHECK_DEADLOCK FALSE
