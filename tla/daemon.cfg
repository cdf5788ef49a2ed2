SPECIFICATION FairSpec
CONSTANTS
  q1 = q1
  q2 = q2
  Questions <- MCQuestions
  Lingering <- MCLingering
  NoQuestion = NoQuestion
  QueueCap = 1
  InitialWait = 1
  MaxWait = 3
  MaxSessions = 2
INVARIANTS DaemonTypeOK WaitsForAnswer ErrorIsFinal
PROPERTIES KeepsPromise QuestionsAreSettled StopsWhenCancelled
CHECK_DEADLOCK FALSE
