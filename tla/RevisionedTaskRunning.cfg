SPECIFICATION Spec
CONSTANTS
  Projects = {p1}
  NoProject = NoProject
  Sources = {s1}
  NoSource = NoSource
  NoToken = NoToken
  NoRevision = NoRevision
  MaxRevision = 1
  MaxRuns = 1
INVARIANT RunningMeansInFlight
CHECK_DEADLOCK FALSE
