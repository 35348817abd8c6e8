CONSTANTS
  m1 = m1
  m2 = m2
  m3 = m3
  Message = {m1, m2, m3}
  Thread <- MCThread
  ThreadOf <- MCThreadOf
  MaxChange = 1
  MaxFault = 1
  MaxOpen = 1
SPECIFICATION Spec
INVARIANT ThreadsMatchMessages
PROPERTIES  MailboxIsMirrored
