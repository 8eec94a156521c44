SPECIFICATION Spec
CONSTANTS
  Projects = {p1}
  NoProject = NoProject
  NoText = NoText
  MaxEvents = 2
INVARIANT TypedTextIsKept
\* In its place, PROPERTY OnlyASwitchDropsEdits shows the edit that a save drops.
CHECK_DEADLOCK FALSE
