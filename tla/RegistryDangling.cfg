\* One id, whose session is removed and constructed again.
SPECIFICATION Spec
CONSTANTS
  Id = {a}
  NoId = none
  Controller = {c1, c2}
  Attacher = {e1}
  kMaxSessions = 1
  MaxSessions = 2
INVARIANTS
  NoDanglingSession
CHECK_DEADLOCK FALSE
