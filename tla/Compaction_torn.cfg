\* One append is cut short and the shipper goes on behind it.
SPECIFICATION Spec
CONSTANTS
  a = a
  b = b
  run1 = run1
  Tasks = {a, b}
  Runs = {run1}
  RunOf <- OneRun
  Payloads = {"x", "y"}
  Capacity = 1
  Output <- FirstWrites
  Users = {b}
  AppendFaults = {"torn"}
  MaxFaults = 1
INVARIANT AcceptedIsKept
