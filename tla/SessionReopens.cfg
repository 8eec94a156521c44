SPECIFICATION Spec
CONSTANTS
  None = None
  gpk = gpk
  other = other
  folder = folder
  Archives = {gpk, other}
  Folders = {folder}
  LastProject = gpk
  Examples <- MCExamples
  Showcase = "pelican"
  Template <- MCTemplate
  Seed <- Parts
  Edits <- MCEdits
  Words <- MCWords
  Texts <- MCTexts
  Dirs <- RaggedDirs
  Originals <- RaggedOriginals
  MaxCalls = 2
  MaxWrites = 1
INVARIANT SavedReopens
CHECK_DEADLOCK FALSE
