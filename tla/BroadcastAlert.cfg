SPECIFICATION Spec
CONSTANTS
  Contents = {c1}
  Places = {m1}
  Ids = {1, 2}
  Types = {3}
  Headers <- MCHeaders
  NULL = NULL
CHECK_DEADLOCK FALSE
INVARIANTS ContentFreedOnce
