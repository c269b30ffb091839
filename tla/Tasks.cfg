SPECIFICATION FairSpec
CONSTANTS
  Task = {t1, t2}
  MaxPieces = 2
  ListsLater = FALSE
PROPERTIES AnsweredOnce EachAnswered DelegatesReleased
CHECK_DEADLOCK FALSE
