SPECIFICATION FairSpec
CONSTANTS
  Cams = {"c1"}
  PageSize = 2
  FirstRows = 1
  MaxItems = 3
  MaxChanges = 1
INVARIANT
  PagesRight
PROPERTIES
  ReloadHappens
  ShowsLatest
CHECK_DEADLOCK FALSE
