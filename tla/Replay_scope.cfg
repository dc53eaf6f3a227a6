\* Tickr Lite, one replay, nothing goes wrong.
SPECIFICATION Spec
CONSTANTS
  a = a
  b = b
  c = c
  Nodes = {a, b, c}
  Requests = {2}
  Keys = {"k"}
  Archives <- MCArchives
  Inputs <- MCInputs
  Formations = {"lite"}
  MAX_SCOPE_REQUEST_VALUES = 3
  MaxOpen = 1
  MaxFaults = 0
INVARIANT ReleasedRunCanLaunch
CHECK_DEADLOCK FALSE
