SPECIFICATION Spec
CONSTANTS
  b1 = b1
  Buddies <- MCBuddies
  BuddyOf <- MCBuddyOf
  Target <- MCTarget
  NoConn = NoConn
  NoThread = NoThread
  Threads = {t1}
  Conns = {c1}
  Clarifications = {m1, m2}
  Closes = {k1}
  Polls = {}
  MaxTurns = 2
  WaiterCap = 2
  WriteCap = 16
  HookReplies = {"answer", "clarification_request", "other"}
  Impatient = {m1, k1}
  Flaky = {}
  MaxDBErrors = 0
  MaxRestarts = 1
INVARIANTS RepliesAreMatched TypeInv ClosedMeansClosed ClarificationsArePaid WaiterHasRoom
PROPERTY ConvSpec
CHECK_DEADLOCK FALSE
