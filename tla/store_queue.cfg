\* The smallest store the configuration accepts, one lease and a queue of two, filled to its last receipt.
SPECIFICATION Spec
VIEW QueueView
CONSTANTS
  Ip = {ip1}
  Session = {s1}
  OperationId = {o1, o2, o3, o4, o5, o6}
  MaxActive = 1
  MaxQueued = 2
  PollAttempts = 1
  RenewalTicks = 1
  TicketTTL = 2
  LeaseTTL = 2
  RateTTL = 2
  ReceiptTTL = 2
  HourLength = 8
  HoursPerDay = 1
  Reserve = 1
  HourlyBudget = 9
  DailyBudget = 9
  Charges = {0}
  Presented = {TRUE, FALSE}
  TokenCost = 1
  IpCapacity = 9
  SessionCapacity = 9
  IpRefill = 9
  SessionRefill = 9
  MaxPairs = 5
  MaxSequence = 3
  Horizon = 3
  MaxKeys = 25
INVARIANTS GrantsOnRecord LifecycleNeverRefused
PROPERTIES NoOvertaking
