CONSTANTS
  family = family
  NoOne = NoOne
  Chat = {family}
  Message <- MCMessage
  MaxSync = 1
  MaxFault = 1
SPECIFICATION Spec
INVARIANTS StoredMessagesAreFound 
PROPERTY RealNameIsOnlyLostToStaleRead
