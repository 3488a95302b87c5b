CONSTANTS
  None = None
  Stored = {stored}
  Realtime = {realtime}
  Watch = {watch}
  Control = {control}
  MaxResets = 1
SPECIFICATION MCSpec
INVARIANTS ShownSessionHoldsLock SessionsAreClosed
PROPERTIES LockIsGivenBack
CHECK_DEADLOCK FALSE
