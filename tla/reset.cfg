SPECIFICATION ResetSpec
CONSTANTS
  Source = {s1}
  Instance = {i1, i2}
  Nobody = Nobody
  MaxEdits = 2
  MaxCrashes = 1
  MaxFile = 1
SYMMETRY Symmetric
INVARIANT SettledResetStays
CHECK_DEADLOCK FALSE
