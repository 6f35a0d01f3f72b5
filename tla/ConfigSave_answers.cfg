\* Everything that can go wrong, two saves and one edit.
SPECIFICATION FairSpec
CONSTANTS
  s1 = s1
  s2 = s2
  s3 = s3
  e1 = e1
  Saves = {s1, s2}
  Edits = {e1}
  Routes = {"own", "install", "helper"}
  Keep = 1
  MaxStamp = 2
  Faults = {"editor", "crash", "clock_back", "no_backup", "no_temp", "no_dir", "torn", "slow"}
CHECK_DEADLOCK FALSE
PROPERTIES ImplementsPromise EverySaveAnswered
