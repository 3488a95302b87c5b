CONSTANTS
  None = None
  Stored = {stored}
  Realtime = {realtime}
  Watch = {watch}
  Control = {}
  MaxResets = 1
SPECIFICATION Spec
INVARIANT AcceptedResetCancels
CHECK_DEADLOCK FALSE
