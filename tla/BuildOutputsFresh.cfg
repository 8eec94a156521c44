\* One build, over one edit.
SPECIFICATION Spec
CONSTANTS
  Absent = Absent
  MaxBuilds = 1
  MaxEdits = 2
INVARIANT NotNewerMeansCurrent
CHECK_DEADLOCK FALSE
