\* Three saves with room for one backup, beside an editor and torn writes.
SPECIFICATION Spec
CONSTANTS
  s1 = s1
  s2 = s2
  s3 = s3
  e1 = e1
  Saves = {s1, s2, s3}
  Edits = {e1}
  Routes = {"own", "install", "helper"}
  Keep = 1
  MaxStamp = 3
  Faults = {"editor", "torn", "no_backup"}
CHECK_DEADLOCK FALSE
SYMMETRY Symmetry
INVARIANTS CommittedKept FailureMeansUntouched BackupLives
