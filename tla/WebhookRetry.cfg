SPECIFICATION FairSpec
CONSTANTS
  NoAlarm = NoAlarm
  Alarm = {a1}
  Url = {u1, u2}
  Worker = {w1, w2}
  MaxRetries = 3
INVARIANTS TypeOK FinalAfterAllRetries SuccessIsDelivery
PROPERTIES SettledStays RetriesConclude
