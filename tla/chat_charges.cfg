SPECIFICATION ChatSpec
SYMMETRY RequestSymmetry
VIEW Observable
CONSTANTS
  Request = {r1, r2}
  OperationId <- Operations
  Ip = {ip1}
  Session = {s1}
  CallTimeout = 1
  Latency = 1
  PollInterval = 1
  QueueWait = 0
  LeaseRenew = 2
  PerAttempt = 1
  MaxAttempts = 2
  MaxCost = 2
  MaxCalls = 2
  MaxActive = 1
  MaxQueued = 0
  PollAttempts = 0
  RenewalTicks = 1
  TicketTTL = 2
  LeaseTTL = 6
  RateTTL = 6
  ReceiptTTL = 60
  HourLength = 3
  HoursPerDay = 2
  Reserve = 2
  HourlyBudget = 9
  DailyBudget = 9
  Charges = {0, 1, 2, 3, 4}
  Presented = {TRUE}
  TokenCost = 1
  IpCapacity = 9
  SessionCapacity = 9
  IpRefill = 9
  SessionRefill = 9
  MaxPairs = 2
  MaxSequence = 2
  Horizon = 6
  MaxKeys = 60
INVARIANTS WorkIsCharged OverspendingIsMarked
