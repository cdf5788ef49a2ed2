SPECIFICATION FairSpec
CONSTANTS
  Threads = {t1}
  MaxTurns = 3
  NamesAgree = FALSE
PROPERTY AnswerIsPrinted
CHECK_DEADLOCK FALSE
