CONSTANTS
  c1 = c1
  c2 = c2
  alice = alice
  bob = bob
  Anyone = Anyone
  Message <- MCMessage
  Filter <- MCFilter
  Before = 1
  After = 1
  Key = {1, 2, 3}
  EntryText <- MCText
  Limit = 1
  PoolFactor = 2
  MaxId = 4
  Body <- MCBody
  LongBody = 12
  LittleText = 4
  VeryLongBody = 24
SPECIFICATION ReadSpec
INVARIANT AuthoredTextIsKept
PROPERTIES ContextIsThatOfEachHit SearchShowsTheBest
CHECK_DEADLOCK FALSE
