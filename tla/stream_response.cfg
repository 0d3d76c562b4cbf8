SPECIFICATION StreamSpec
CONSTANTS
  model = model
  usd = usd
  None = None
  Malformed = Malformed
  Owner = {model}
  Policy = model
  MaxAttempts = 2
  Tier = {}
  Reported <- Reports
  Snapshot <- OnePrice
  AttemptDate = 1
  Billing = usd
  SessionCurrency = usd
  PerAttempt = 5
  Provider = {"gemini", "ollama", "echo"}
  MaxOutput = 3
  ChunkSize = {1, 2}
  MaxItems = 4
  MaxPings = 1
CHECK_DEADLOCK FALSE
INVARIANTS OneVoice NothingLeftOpen CompletedIsDelivered
PROPERTIES PromisesKept ResponseEnds
