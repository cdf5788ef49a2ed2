SPECIFICATION FairSpec
CONSTANTS
  Threads = {t1}
  MaxTurns = 3
  NamesAgree = TRUE
INVARIANT OneReplyPerRequest
PROPERTY AnswerIsPrinted
CHECK_DEADLOCK FALSE
