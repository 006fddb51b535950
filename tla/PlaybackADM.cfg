\* Chunks and fades that are no whole number of frames; a cap of two frames and
\* a half and a queue of two chunks, so that both overflow.
\* The system stops when its clients are silent and the session is cleaned up.
SPECIFICATION FairSpec
CONSTANTS
  FrameUnits = 2
  CapUnits = 5
  QueueCap = 2
  ChunkUnits = {1, 4}
  FadeUnits = {0, 1}
  MaxChunks = 3
  MaxFlushes = 1
  MaxCompletes = 2
INVARIANTS
  InOrder
  LatencyBound
  FlushEffective
  CompletionOverlooksQueueOnly
PROPERTIES
  ImplementsPlayer
  NothingVanishes
  CompletionAnnounced
CHECK_DEADLOCK FALSE
