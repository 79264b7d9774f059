SPECIFICATION Spec
CONSTANTS
  Async = {s1}
  Sync = {s2}
  Canceller = {c1, c2}
  MaxRetries = 2
  Units = 2
  Scanner = "sql"
INVARIANTS CompletedIsWhole CutNeverCompletes ActiveHasOwner
PROPERTY Settles
CHECK_DEADLOCK FALSE
