SPECIFICATION Spec
CONSTANTS
  MaxFloat = 10000000
  Slugs <- MCSlugs
  Descriptions <- MCDescriptions
  BlankNames = {" "}
  MaxSeed = 100000
  MaxReorderWindow = 65535
  MaxPrintable = 150000
  Bundle <- MCBundle
  Names <- MCNames
  Canonical <- MCCanonical
  Nodes <- MCNodes
  Scenes <- MCBlankScenes
  EditPlaces <- MCEditPlaces
  NewContents <- MCNewContents
  DiskMayFail = FALSE
INVARIANT InvalidSettingsLeaveNoTrace
CHECK_DEADLOCK FALSE
