\* Every set of faults: two saves at a time, Refresh, visudo, late helpers.
SPECIFICATION FairSpec
CONSTANTS
  s1 = s1
  s2 = s2
  alice = alice
  uid = uid
  None = None
  Saves = {s1, s2}
  People = {alice}
  Uids = {uid}
  First <- OneRule
  Faults = {"impatient", "editor", "slow", "no_backup"}
  MaxLines = 2
  MaxGeneration = 2
  MaxEdits = 1
CHECK_DEADLOCK FALSE
INVARIANTS AnswerIsTrue
PROPERTIES RemovesTheConfirmed ChangesOneRule SavingEnds
