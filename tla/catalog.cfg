SPECIFICATION Spec
CONSTANTS
  NoDir = NoDir
  TableIds = {1}
  AppHandles = {1, 2}
  Records = {1}
  MaxPlugins = 5
  MaxInits = 2
INVARIANTS
  CatalogTypeOK
  CatalogBacked
  LocksAreHandles
  LockedOnlyIfCareless
  RightPlugin
  RecordsSurvive
