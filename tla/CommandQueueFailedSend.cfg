SPECIFICATION Spec
CONSTANTS
  NoDevice = NoDevice
  Device = {d1}
  Task = {t1, t2}
  MaxProperty = 2
  MaxAction = 1
  Retries = 1
INVARIANT FailedSendStaysQueued
