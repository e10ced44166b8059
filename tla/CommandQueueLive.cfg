SPECIFICATION FairSpec
CONSTANTS
  NoDevice = NoDevice
  Device = {d1}
  Task = {t1, t2}
  MaxProperty = 1
  MaxAction = 1
  Retries = 0
PROPERTIES QueueDrains HandlersFinish
