SPECIFICATION FairSpec
CONSTANTS
  b1 = b1
  Buddies <- MCBuddies
  BuddyOf <- MCBuddyOf
  Target <- MCTarget
  NoConn = NoConn
  NoThread = NoThread
  Threads = {t1}
  Conns = {c1, c2}
  Clarifications = {}
  Closes = {}
  Polls = {p1}
  MaxTurns = 3
  WaiterCap = 4
  WriteCap = 1
  HookReplies = {"answer", "clarification_request", "close", "other"}
  Impatient = {t1, p1}
  Flaky = {c1}
  MaxDBErrors = 1
  MaxRestarts = 1
INVARIANTS EntryIsServed AnsweredPollShowsAnswer
PROPERTIES HistoriesAreKept ThreadsAreClosed QuestionIsAnswered
CHECK_DEADLOCK FALSE
