\* Two runs over three revisions, two Escapes or view switches; projects
\* open and close at will.
SPECIFICATION FairSpec
CONSTANTS
  Projects = {p1}
  NoProject = NoProject
  Sources = {s1}
  NoSource = NoSource
  NoToken = NoToken
  NoRevision = NoRevision
  MaxRevision = 2
  MaxRuns = 2
INVARIANTS
  SupersededRunsAreCancelled
  InflightIsUnsettled
  LiveResultIsOfThisRevision
  EvidenceIsReal
PROPERTY SupersededProcessesEnd
\* The user is done.
CHECK_DEADLOCK FALSE
