\* One sound and one poison dispatch under the fairness of the runtime.
SPECIFICATION FairSpec
CONSTANTS
  a = a
  b = b
  Tasks = {a, b}
  Poison = {b}
  Faults = {}
  MaxEpoch = 2
PROPERTIES CancelSettles PendingIsTaken
CHECK_DEADLOCK FALSE
