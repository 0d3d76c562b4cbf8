\* Two leases and two addresses across an hour and a day boundary, settled below, at and above the reservation.
SPECIFICATION Spec
SYMMETRY Symmetry
CONSTANTS
  Ip = {ip1,ip2}
  Session = {s1}
  OperationId = {o1, o2, o3}
  MaxActive = 2
  MaxQueued = 0
  PollAttempts = 0
  RenewalTicks = 1
  TicketTTL = 2
  LeaseTTL = 2
  RateTTL = 2
  ReceiptTTL = 3
  HourLength = 3
  HoursPerDay = 2
  Reserve = 1
  HourlyBudget = 2
  DailyBudget = 3
  Charges = {0, 2}
  Presented = {TRUE}
  TokenCost = 2
  IpCapacity = 4
  SessionCapacity = 3
  IpRefill = 2
  SessionRefill = 2
  MaxPairs = 3
  MaxSequence = 3
  Horizon = 6
  MaxKeys = 21
INVARIANTS TypeOK ReservationsBacked WithinBudget
PROPERTIES SpendingRemembered RateTokensConserved
