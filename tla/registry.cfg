SPECIFICATION RegistrySpec
CONSTANTS
  c1 = c1
  c2 = c2
  c3 = c3
  b1 = b1
  b2 = b2
  Conns <- MCConns
  Buddies <- MCBuddies
  BuddyOf <- MCBuddyOf
  NoConn = NoConn
  Threads = {t1}
  WaiterCap = 2
  MaxRegistrations = 5
INVARIANTS RegistryTypeOK EntryIsNewest
PROPERTY OnlyOwnerUnregisters
CHECK_DEADLOCK FALSE
