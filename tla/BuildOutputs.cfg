\* Two builds, which may overlap, over two edits, and one export.
SPECIFICATION FairSpec
CONSTANTS
  Absent = Absent
  MaxBuilds = 2
  MaxEdits = 2
INVARIANTS PackedIsOfTheCompany OutputsAgree
PROPERTY BuildsEnd
\* The builds are over.
CHECK_DEADLOCK FALSE
