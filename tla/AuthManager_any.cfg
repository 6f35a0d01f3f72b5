\* Every set of faults: a keyring that stalls, is locked or raises, a server that
\* says no.
SPECIFICATION Spec
CONSTANTS
  MaxSession = 3
  MaxStarts = 3
  Faults = {"http", "locked", "unsaved", "undeleted", "stalled"}
CHECK_DEADLOCK FALSE
INVARIANTS TypeOK LoggedOutStaysOut KeyringFollows SureLogoutIsFinal
