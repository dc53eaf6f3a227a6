\* Four archived runs, a replay and a replay of it, two requests for one key, one fault.
SPECIFICATION FairSpec
CONSTANTS
  a = a
  b = b
  c = c
  Nodes = {a, b, c}
  Requests = {2, 3}
  Keys = {"k"}
  Archives <- MCArchives
  Inputs <- MCInputs
  Formations = {"distributed", "lite"}
  MAX_SCOPE_REQUEST_VALUES = 3
  MaxOpen = 1
  MaxFaults = 1
INVARIANTS TypeOK OneReplayPerKey ScopeReadyBeforeRun DoomedExactly DefaultResumeFires
PROPERTIES ReleasedIsFinal ReplaysSettle
CHECK_DEADLOCK FALSE
