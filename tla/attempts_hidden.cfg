SPECIFICATION Spec
CONSTANTS
  Checks = {ci}
  Kept = 2
  Grace = 1
  Ends = {"SUCCESS", "CANCELLED"}
  MaxHead = 2
  MaxRuns = 2
  LastEvent = 2
  MaxFaults = 1
  Faults = {"kill", "merging", "overlap"}
INVARIANTS
  SweepMissesNothing
CHECK_DEADLOCK FALSE
