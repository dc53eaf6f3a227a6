\* One fault, and the formation cannot be started again.
SPECIFICATION Spec
CONSTANTS
  a = a
  b = b
  run1 = run1
  Tasks = {a, b}
  Runs = {run1}
  RunOf <- OneRun
  Payloads = {"x", "y"}
  Capacity = 1
  Output <- FirstWrites
  Users = {b}
  AppendFaults = {"lost", "unsynced"}
  MaxFaults = 1
INVARIANT RestartIsAdmitted
