CONSTANTS
  MaxCore = 2
  Call = {c1}
  MaxRefresh = 2
  MaxChange = 1
  MaxFailure = 1
SPECIFICATION ClientSpec
INVARIANTS ReportedAsSent ConnectionHasAStore
PROPERTIES  ParticipantsConverge
CHECK_DEADLOCK FALSE
