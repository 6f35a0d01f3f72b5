\* visudo puts a line on top while the remove dialog is open.
SPECIFICATION Spec
CONSTANTS
  s1 = s1
  s2 = s2
  alice = alice
  uid = uid
  None = None
  Saves = {s1, s2}
  People = {alice}
  Uids = {uid}
  First <- OneRule
  Faults = {"editor"}
  MaxLines = 3
  MaxGeneration = 2
  MaxEdits = 1
CHECK_DEADLOCK FALSE
PROPERTIES RemovesTheNamed
