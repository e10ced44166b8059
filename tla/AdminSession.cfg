CONSTANTS
  Tab = {t1}
  Call = {c1, c2}
  MaxFamily = 2
  MaxGen = 3
  MaxLogin = 2
SPECIFICATION FairSpec
INVARIANTS ReuseOnlyAfterLoss LoggedOutStays
PROPERTIES CallsEnd
