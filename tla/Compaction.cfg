\* One run of two Tasks, one that writes more than the buffer holds and one that
\* uses the scope; one crash, failed append, failed launch, cancellation or lost scope.
SPECIFICATION FairSpec
CONSTANTS
  a = a
  b = b
  run1 = run1
  Tasks = {a, b}
  Runs = {run1}
  RunOf <- OneRun
  Payloads = {"x", "y"}
  Capacity = 1
  Output <- FirstWrites
  Users = {b}
  AppendFaults = {"lost", "unsynced", "torn", "garbled"}
  MaxFaults = 1
INVARIANTS TypeOK AcknowledgedIsKept CleanEndTellsLoss
PROPERTIES ArchiveIsFinal StagedIsPurged
