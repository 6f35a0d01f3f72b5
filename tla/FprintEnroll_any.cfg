\* Every set of faults: cancelled at any moment, answers that come late or never.
SPECIFICATION FairSpec
CONSTANTS
  MaxAttempts = 2
  Faults = {"impatient", "slow", "refused"}
CHECK_DEADLOCK FALSE
INVARIANTS ReaderGivenBack StoredIsTrue
PROPERTIES StoppedBeforeRelease AnswersItsOwn EnrollmentEnds
