\* Two replicas and two versions of two Tasks, one fault of any kind.
SPECIFICATION Spec
CONSTANTS
  p = p
  q = q
  x = x
  y = y
  Processes = {p, q}
  Contents = {x, y}
  Cosmetics = {x, y}
  NumTasks = 2
  BatchSize = 2
  Formation = "distributed"
  FaultKinds = {"build", "expiry", "relay", "crash", "repository"}
  MaxFaults = 1
  MaxVersion = 2
INVARIANTS TypeOK WorkersKnow ParentMatchesTasks IndexOnlyLive
PROPERTIES ImplementsContract OnlyLatestLeaseSettles
SYMMETRY MCSymmetry
