SPECIFICATION FairSpec
CONSTANTS
  Request = {r1, r2}
  Version = {v1, v2}
  v1 = v1
  v2 = v2
  s1 = s1
  s2 = s2
  None = None
  SignerOf <- MCSignerOf
  Compatible = {v1, v2}
  Policy <- MCPolicy
  MaxRevision = 2
  MaxCalls = 3
  MaxSupplied = 1
INVARIANTS RouteWasActive
PROPERTIES PolicyNeverRegresses ResolutionEnds
CHECK_DEADLOCK FALSE
