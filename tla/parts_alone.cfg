SPECIFICATION PartsSpec
CONSTANTS
  gemini = gemini
  ollama = ollama
  standard = standard
  usd = usd
  None = None
  Malformed = Malformed
  Owner = {gemini, ollama}
  Policy = None
  MaxAttempts = 2
  Tier = {standard}
  Reported <- Reports
  Snapshot <- TwoPrices
  AttemptDate = 1
  Billing = usd
  SessionCurrency = usd
  PerAttempt = 5
  MaxRelease = 3
  Statements = 2
  MaxFaults = 2
  Request = {r1, r2}
  Evaluation = {e1, e2}
  e1 = e1
INVARIANTS DoubtIsCharged SummaryAvailable NeverServesHalf TelemetryIsTrue ReadinessIsTrue
SYMMETRY Symmetry
CHECK_DEADLOCK FALSE
