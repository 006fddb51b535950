\* Two threads that queue messages, three messages, on either class of stream.
\* The system stops when the stream is destroyed.
SPECIFICATION FairSpec
CONSTANTS
  Producer = {p1, p2}
  MaxMessages = 3
INVARIANTS
  SentInOrder
PROPERTIES
  ImplementsChannel
  QueuedIsSent
  HangsOnlyAsleep
CHECK_DEADLOCK FALSE
