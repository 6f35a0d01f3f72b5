\* Every set of faults of a notification and of the agent.
SPECIFICATION FairSpec
CONSTANTS
  v1 = v1
  v2 = v2
  None = None
  Versions = {v1}
  MaxBoot = 2
  MaxDay = 1
  Faults = {"refused", "ignored", "killed"}
CHECK_DEADLOCK FALSE
INVARIANTS OncePerEvent SaidWasTold
PROPERTIES FailureTold
