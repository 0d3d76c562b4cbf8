SPECIFICATION ChatSpec
SYMMETRY RequestSymmetry
VIEW Observable
CONSTANTS
  Request = {r1, r2}
  OperationId <- Operations
  Ip = {ip1}
  Session = {s1}
  CallTimeout = 1
  Latency = 1
  PollInterval = 1
  QueueWait = 1
  LeaseRenew = 2
  PerAttempt = 1
  MaxAttempts = 0
  MaxCost = 0
  MaxCalls = 4
  MaxActive = 1
  MaxQueued = 1
  PollAttempts = 1
  RenewalTicks = 1
  TicketTTL = 3
  LeaseTTL = 6
  RateTTL = 6
  ReceiptTTL = 60
  HourLength = 100
  HoursPerDay = 1
  Reserve = 0
  HourlyBudget = 9
  DailyBudget = 9
  Charges = {0}
  Presented = {TRUE}
  TokenCost = 1
  IpCapacity = 9
  SessionCapacity = 9
  IpRefill = 9
  SessionRefill = 9
  MaxPairs = 4
  MaxSequence = 4
  Horizon = 6
  MaxKeys = 60
INVARIANTS AuthorityBacked StreamsBounded OneOwner CallsAffordable
PROPERTIES FetchesUnderLease
