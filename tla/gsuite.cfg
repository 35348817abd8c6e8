CONSTANTS
  docs = docs
  tasks = tasks
  i1 = i1
  i2 = i2
  Apps <- MCApps
  Fetched = {docs}
  Lists = {tasks}
  Pages <- MCPages
  Id = {i1, i2}
  MaxChange = 3
  MaxFault = 1
SPECIFICATION Spec
INVARIANT ContentAsNewAsTime
PROPERTIES OnlyGoneItemsAreDeleted EnabledAppGetsInSync DisabledAppIsLeftAlone
