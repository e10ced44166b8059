CONSTANTS
  Admin = {a1, a2}
  Conn = {n1, n2}
  Tolerance = 1
  MaxCert = 2
SPECIFICATION Spec
SYMMETRY Slots
INVARIANTS AutoNeedsOptIn AllowedIsRegistered StoredUnderOwnNames
PROPERTIES DecisionStands
