CONSTANTS
  ChunkMaxChars = 8
  LowValueChars = 4
  Text <- MCText
  Kinds <- AllKinds
  Slots = 3
  Headers <- MCHeaders
  ShortMessage = 2
  FallbackRefresh = 1
  NoText = NoText
  MaxTime = 2
  MaxChange = 1
  MaxFault = 1
SPECIFICATION Spec
INVARIANTS ReadTextIsFound ChunksFit
 
CHECK_DEADLOCK FALSE
