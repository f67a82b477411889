SPECIFICATION Spec
CONSTANTS
  n1 = n1
  n2 = n2
  Ids <- ConstBoth
  Names <- ConstNames
  NoName = NoName
  Githubs <- ConstGithubs
  Synced <- ConstFirst
  Mine <- ConstBoth
  OrgRepos <- ConstSecond
  Starred <- ConstFirst
  Sources <- ConstAllSources
  PageSize = 2
  DbFaults = TRUE
  MaxTasks = 2
  MaxKeys = 1
  MaxChanges = 1
INVARIANTS
  TypeOK
  StoredSelectionIsChosen
  ScreenIsStored
  FoundIsNotMarked
  SpinnerHasTask
PROPERTIES
  CatalogSpec
