SPECIFICATION Spec
CONSTANTS
  None = None
  gpk = gpk
  other = other
  folder = folder
  Archives = {gpk, other}
  Folders = {folder}
  LastProject = gpk
  Examples <- MCExamples
  Showcase = "pelican"
  Template <- MCTemplate
  Seed <- Parts
  Words <- MCWords
  Edits <- MCEdits
  Texts <- MCTexts
  Dirs <- MCDirs
  Originals <- MCOriginals
  MaxCalls = 2
  MaxWrites = 1
INVARIANTS NothingLost CleanIsSaved TextsRoundTrip ScratchIsOwned GitIsOwn
CHECK_DEADLOCK FALSE
