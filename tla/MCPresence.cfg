SPECIFICATION Spec
CONSTANTS
  MaxSockets = 3
  Device = {d1, d2}
  NoDevice = NoDevice
  MaxRestarts = 1
CHECK_DEADLOCK FALSE
PROPERTY
  LeaverGoesOffline
