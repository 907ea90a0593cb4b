SPECIFICATION Spec
CONSTANTS
  a1 = a1
  a2 = a2
  a3 = a3
  cc = cc
  Refs = {a1, a2, a3, cc}
  Provider <- MCProvider
  Cooldown <- MCCooldown
  Threshold = 2
  SlowK = 1
  Shadow = FALSE
  Faults = {"db", "clock", "restart", "disconnect"}
  Chains <- MCChains
  Skips = {{}}
  Backstop = {cc}
  CanEnd <- MCCanEnd
  Probed = {"terminal"}
  Budget = 1
  BackstopTime = 1
  Requests = {q1, q2}
INVARIANTS
  TypeOK
  WithinBudget
  StaysBenched
PROPERTIES
  EveryRequestEnds
