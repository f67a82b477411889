SPECIFICATION Spec
CONSTANTS
  n1 = n1
  n2 = n2
  Ids <- ConstBoth
  Names <- ConstNames
  NoName = NoName
  Githubs <- ConstGithubs
  Synced <- ConstFirst
  Mine <- ConstFirst
  OrgRepos <- ConstFirst
  Starred <- ConstSecond
  Sources <- ConstStarred
  PageSize = 2
  DbFaults = FALSE
  MaxTasks = 3
  MaxKeys = 1
  MaxChanges = 0
INVARIANT
  ForeignNotMarked
