\* Two requests told apart by identity, pushed up to four times in all.
\* The system stops when the processor is destroyed and no client pushes.
SPECIFICATION FairSpec
CONSTANTS
  Command = {c1, c2}
  MaxPushes = 4
INVARIANTS
  QuietAfterStop
PROPERTIES
  ImplementsExecutor
  StopReturns
  EveryCommandPerformed
CHECK_DEADLOCK FALSE
