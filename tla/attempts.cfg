SPECIFICATION Spec
CONSTANTS
  Checks = {ci}
  Kept = 2
  Grace = 1
  Ends = {"SUCCESS"}
  MaxHead = 2
  MaxRuns = 2
  LastEvent = 2
  MaxFaults = 1
  Faults = {"kill", "request", "refuse"}
INVARIANTS
  TypeOK
  SweepMissesNothing
PROPERTY
  GreenIsMerged
CHECK_DEADLOCK FALSE
