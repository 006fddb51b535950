\* Two productions, so that one can wait behind another, and a flush.
\* The system stops when the session is freed or a join waits for good.
SPECIFICATION TeardownFairSpec
CONSTANTS
  MaxProductions = 2
  MaxFlushes = 1
INVARIANTS
  AnswersReachTheirPromise
  QuietWhenFreed
PROPERTIES
  RemovalEnds
CHECK_DEADLOCK FALSE
