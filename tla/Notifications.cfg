SPECIFICATION Spec
CONSTANTS
  Contents = {c1, c2}
  Places = {m1, m2}
  Ids = {1, 2}
  Types = {3}
  Headers <- MCHeaders
  NULL = NULL
SYMMETRY Symmetry
VIEW View
\* After a broadcast to two clients nothing more is claimed.
CHECK_DEADLOCK FALSE
INVARIANTS TypeOK SoleOwner
PROPERTIES ImplementsPolicy NothingLost DispatchedDeleted
