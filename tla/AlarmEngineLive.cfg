SPECIFICATION FairSpec
CONSTANTS
  None = None
  Task = {t1, t2}
  Value <- AllReadings
  Triggers <- Hot
  Clears <- Cool
  Number <- Numbers
  Str <- Words
  Parse <- WordParse
  StrLess <- WordLess
  Substring <- WordPart
  Inf = Inf
  NegInf = NegInf
  NaN = NaN
  Missing = Missing
  Duration = 0
  Throttle = 0
  MaxAlarm = 1
INVARIANTS OperatorsPartition
PROPERTIES AutoClears
