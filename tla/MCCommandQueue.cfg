SPECIFICATION Spec
CONSTANTS
  NoDevice = NoDevice
  Device = {d1}
  Task = {t1, t2}
  MaxProperty = 2
  MaxAction = 1
  Retries = 1
SYMMETRY Symmetry
INVARIANTS TypeOK ClaimExclusive CancelHolds CopiesBounded BatchInOrder SuccessHeard
PROPERTIES LifecycleSpec
