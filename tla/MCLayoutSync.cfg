SPECIFICATION Spec
CONSTANTS
  w1 = w1
  w2 = w2
  Windows = {w1, w2}
  Editors = {w1, w2}
  Layouts = {"default", "a", "b"}
  Default = "default"
  Revision <- MCRevision
  Stored = {"old", Absent}
  Legacy = "b"
  MaxEdits = 2
  MaxFaults = 1
  MaxOpens = 2
  Absent = Absent
CHECK_DEADLOCK FALSE
INVARIANTS
  FileIsWhole
  NobodyMissesChanges
