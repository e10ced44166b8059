CONSTANTS
  x1 = x1
  x2 = x2
  y1 = y1
  Template = {x1, x2, y1}
  Event <- Events
  EventOf <- Events2
  Admin = {a1, a2}
  Report = {r1}
  None = None
  MaxEdit = 1
  MaxFill = 1
SPECIFICATION Spec
INVARIANTS OneActive CacheFollows
PROPERTIES ActiveFrozen SwitchIsAtomic
SYMMETRY Slots
