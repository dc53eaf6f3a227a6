\* Tickr Lite, whose process stops with a worker and is started again.
SPECIFICATION FairSpec
CONSTANTS
  p = p
  q = q
  x = x
  y = y
  Processes = {p}
  Contents = {x, y}
  Cosmetics = {x}
  NumTasks = 2
  BatchSize = 1
  Formation = "lite"
  FaultKinds = {"build", "expiry", "relay", "crash", "repository"}
  MaxFaults = 2
  MaxVersion = 2
PROPERTIES BuildsSettle ReadyIsSubmitted
