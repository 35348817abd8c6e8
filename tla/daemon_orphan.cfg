SPECIFICATION FairSpec
CONSTANTS
  Source = {s1}
  Instance = {i1, i2, i3}
  Nobody = Nobody
  MaxEdits = 2
  MaxCrashes = 1
PROPERTY DisabledSourceStops
CHECK_DEADLOCK FALSE
