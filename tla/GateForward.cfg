\* A queue of two frames, a pre-roll buffer of one, and three calls of OnData, so that
\* the queue overflows, the buffer wraps, and turns follow one another.
\* The system stops when the session is freed, or its removal waits for good.
SPECIFICATION FairSpec
CONSTANTS
  QueueCap = 2
  PreRollFrames = 1
  MaxCalls = 3
INVARIANTS
  OneStraggler
  Wired
  QuietWhenFreed
PROPERTIES
  LiveInOrder
  FramesAreTaken
  RemovalEnds
CHECK_DEADLOCK FALSE
