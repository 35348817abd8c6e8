SPECIFICATION Spec
CONSTANTS
  Source = {s1}
  Key = {k1, k2}
  Text = {a, b}
  NoText = NoText
  Lenient = {s1}
  MaxTime = 2
  MaxChanges = 1
SYMMETRY Symmetric
INVARIANTS  FtsRightBetweenRuns
PROPERTIES OnlyGoneRowsArePruned FullPassLeavesNoStaleRow
