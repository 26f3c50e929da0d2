SPECIFICATION Spec
CONSTANTS
  Free = Free
  Conns = {c1, c2, c3}
INVARIANTS
  TypeOK
  ServedByOpen
  ClosedAtEnd
  NilOnlyWhenLazy
PROPERTIES
  StopCompletes
  DeadListenerStops
CHECK_DEADLOCK FALSE
