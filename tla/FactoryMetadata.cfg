SPECIFICATION FairSpec
CONSTANTS
  NoWriter = NoWriter
  Sn = {s1}
  Dev = s1
  Component = {c1, c2}
  Writer = {w1, w2}
  Reader = {r1}
  MaxTx = 3
INVARIANTS LogReplays ViewComplete
PROPERTIES WritesEnd
