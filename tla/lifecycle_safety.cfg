SPECIFICATION Spec
CONSTANTS
  Operator = {o1, o2}
  Version = {v1, v2}
  None = None
  MaxRetries = 1
  MaxRevision = 2
  MaxStray = 1
SYMMETRY Symmetry
INVARIANTS RegistryWellFormed AuditsChain ReceiptsHonest
PROPERTIES ImplementsHistory
