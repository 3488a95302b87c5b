CONSTANTS
  None = None
  Stored = {stored}
  Realtime = {realtime}
  Watch = {watch}
  Control = {}
  MaxResets = 1
SPECIFICATION Spec
PROPERTY HungServerFailsFast
CHECK_DEADLOCK FALSE
