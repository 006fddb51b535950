\* Two ids and room for one session, so that the map overflows; three Session
\* objects, so that an id comes back after its session is removed.
\* The system stops when no call is open and the bound on sessions is reached.
SPECIFICATION FairSpec
CONSTANTS
  Id = {a, b}
  NoId = none
  Controller = {c1}
  Attacher = {e1}
  kMaxSessions = 1
  MaxSessions = 3
INVARIANTS
  NoOrphan
PROPERTIES
  RemovalCompletes
CHECK_DEADLOCK FALSE
