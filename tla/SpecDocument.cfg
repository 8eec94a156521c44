\* One project, opened, closed and saved at will, and any three of: edits,
\* commands, changes by other programs.
SPECIFICATION FairSpec
CONSTANTS
  Projects = {p1}
  NoProject = NoProject
  NoText = NoText
  MaxEvents = 3
INVARIANTS TypeOK DivergenceIsOwed WritesInTypingOrder
PROPERTIES EditorSettles StaleMarkerClears
\* The users and the other programs stop.
CHECK_DEADLOCK FALSE
