\* Questions and actions in every order, or one at a time; every set of faults.
SPECIFICATION Spec
CONSTANTS
  Channels = {"stable", "latest"}
  MaxAsked = 3
  Faults = {"impatient", "offline", "tool"}
CHECK_DEADLOCK FALSE
INVARIANTS BusyDisables CheckComesBack SettledIsTrue
