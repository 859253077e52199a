SPECIFICATION Spec
CONSTANTS
  Item <- MCItem
  DDItem <- MCDDItem
  SubDir = ""
  Commands <- NodeUpdate
  archiveRetention = 3
  Failures = {}
  MaxTime = 6
INVARIANTS NeverBusy
