\* Two replicas, two Patches of one instance, one fault of any kind.
SPECIFICATION Spec
CONSTANTS
  p = p
  q = q
  i = i
  t = t
  u = u
  Patches = {1, 2}
  Instances = {i}
  InstanceOf <- MCInstanceOf
  TasksOf <- MCTasksOf
  Processes = {p, q}
  BatchSize = 1
  FaultKinds = {"build", "expiry", "relay", "crash", "repository"}
  MaxFaults = 1
SYMMETRY MCSymmetry
INVARIANTS TypeOK OnePatchAtATime SentOnlyWhenBuilt DecidedInOrder AuditFindsAll
PROPERTIES LedgerTellsVerdict
