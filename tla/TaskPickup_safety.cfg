SPECIFICATION Spec
CONSTANTS
  a = a
  b = b
  Tasks = {a}
  Poison = {}
  Faults = {"crash", "writer", "shutdown", "relay"}
  MaxEpoch = 3
INVARIANTS TypeOK AtMostOneLaunch OneTerminalOutcome AckTellsOutcome NoProcessBehindAck DeliveredInOrder PickupInv
PROPERTIES FenceStopsLaunch SettledIsFinal
CHECK_DEADLOCK FALSE
