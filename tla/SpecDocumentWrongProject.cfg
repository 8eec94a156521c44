SPECIFICATION Spec
CONSTANTS
  Projects = {p1, p2}
  NoProject = NoProject
  NoText = NoText
  MaxEvents = 2
SYMMETRY Symmetry
INVARIANT WritesStayInTheirProject
CHECK_DEADLOCK FALSE
