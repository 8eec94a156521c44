\* Two runs of verify and one of estimate, which may overlap, and an edit.
SPECIFICATION Spec
CONSTANTS
  Absent = Absent
  Suite <- MCSuite
  MaxRuns = 2
  MaxEdits = 1
INVARIANT ModelRestored
PROPERTIES PassedIsEarned PassedIsSensitive
\* The runs are over.
CHECK_DEADLOCK FALSE
