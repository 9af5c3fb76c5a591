SPECIFICATION FairSpec
CONSTANTS
  Profiles = {"a", "b"}
  Cameras = {1, 2}
  NasOf <- NasOfBoth
  IdOf <- SameIds
  Slots = {1, 2}
  Focus = 1
  Layouts = {"1x1", "2x2"}
  Solo = "1x1"
  Shown <- Grids
  Default = "a"
  MaxClients = 2
  MaxEdits = 2
  MaxStarts = 2
INVARIANT
  LayoutsKept
CHECK_DEADLOCK FALSE
