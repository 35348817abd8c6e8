SPECIFICATION FairSpec
CONSTANTS
  Source = {s1}
  Instance = {i1, i2, i3}
  Nobody = Nobody
  MaxEdits = 2
  MaxCrashes = 1
INVARIANTS RunningIsWanted WorkingIsStoppable
PROPERTIES ResetIsHandled EnabledSourceWorks DisabledSourceStopsAlone
CHECK_DEADLOCK FALSE
