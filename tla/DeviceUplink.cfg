CONSTANTS
  Semver <- Versions
  Range <- Ranges
  Row = {1, 2}
  None = None
  Debounce = 1
  MaxCall = 3
SPECIFICATION UplinkFairSpec
INVARIANTS StatusFollowsNewest
PROPERTIES NewestUpgradePushed RecordedCatchesUp
