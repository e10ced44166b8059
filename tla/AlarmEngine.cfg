SPECIFICATION Spec
CONSTANTS
  None = None
  Task = {t1, t2}
  Value <- Readings
  Triggers <- Hot
  Clears <- Cool
  Number <- Numbers
  Str <- Words
  Parse <- WordParse
  StrLess <- WordLess
  Substring <- WordPart
  Inf = Inf
  NegInf = NegInf
  NaN = NaN
  Missing = Missing
  Duration = 1
  Throttle = 1
  MaxAlarm = 2
SYMMETRY Symmetry
INVARIANTS TypeOK BurstBounded
PROPERTIES ClearedFinal SustainedOnly
