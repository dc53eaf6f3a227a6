\* One dispatch, crashes and restarts, under the fairness of the runtime.
SPECIFICATION FairSpec
CONSTANTS
  a = a
  b = b
  Tasks = {a}
  Poison = {}
  Faults = {"crash", "shutdown"}
  MaxEpoch = 2
PROPERTIES StagedIsForwarded ShutdownCompletes
CHECK_DEADLOCK FALSE
