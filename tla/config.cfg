CONSTANTS
  Process = {p1, p2}
  Item = {"i1", "i2"}
  Commands <- MCCommands
  MaxRun = 2
  MaxFault = 1
SPECIFICATION Spec
INVARIANTS ConfigIsWhole EnabledBrowserIsChosen
PROPERTY SavesOnlyWhatTheyAreFor
CHECK_DEADLOCK FALSE
