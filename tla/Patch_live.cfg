\* One Conductor, two Patches, one fault of any kind but a lost worker.
SPECIFICATION FairSpec
CONSTANTS
  p = p
  q = q
  i = i
  t = t
  u = u
  Patches = {1, 2}
  Instances = {i}
  InstanceOf <- MCInstanceOf
  TasksOf <- MCTasksOf
  Processes = {p}
  BatchSize = 2
  FaultKinds = {"build", "expiry", "relay", "crash"}
  MaxFaults = 1
PROPERTIES PatchesSettle
