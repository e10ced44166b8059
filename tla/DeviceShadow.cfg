CONSTANTS
  Key = {k1, k2}
  Value = {v1, v2}
  Absent = Absent
  Admin = {a1, a2}
  None = None
  MaxReport = 2
SPECIFICATION Spec
INVARIANTS NoPatchLost WholeDocumentOffered SnapshotFollowsHistory
SYMMETRY Symmetry
