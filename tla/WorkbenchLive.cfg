SPECIFICATION WorkbenchSpec
CONSTANTS
  Projects = {p1}
  NoProject = NoProject
  NoText = NoText
  MaxEvents = 1
  NoSource = NoSource
  NoToken = NoToken
  NoRevision = NoRevision
  MaxRevision = 9
  MaxRuns = 1
INVARIANT LiveResultMatchesSource
\* Users and other programs are done.
CHECK_DEADLOCK FALSE
