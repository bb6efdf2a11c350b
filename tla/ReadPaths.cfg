CONSTANTS
  k1 = k1
  k2 = k2
  Keys = {k1, k2}
  BadKey = BadKey
  Versions <- MCVersions
  IdLists <- MCIdLists
  Limits <- MCLimits
SPECIFICATION ReadSpec
CHECK_DEADLOCK FALSE
INVARIANTS
  PagesTile
  AllIdsFound
  ErrorsAreExact
