SPECIFICATION Spec
CONSTANTS
  Tabs <- MCTabs
  Categories <- MCCategories
  Drafts <- MCDrafts
  Opened <- MCOpened
  DbFaults = TRUE
  MaxTurns = 2
  MaxRefresh = 1
INVARIANTS
  TypeOK
  EditedField
  FieldsTellMemory
  SavedSurvives
  NeverTrapped
  StatsSpinnerHasTask
PROPERTIES
  OverlayFreezes
CHECK_DEADLOCK FALSE
