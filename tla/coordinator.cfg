SPECIFICATION FairSpec
CONSTANTS
  Worker = {w1, w2, w3}
  NoWorker = NoWorker
INVARIANTS OneRunOwned QueuedRestartHasCanceledRun StoppedIsQuiet
PROPERTIES TicksNeverInterrupt StopReturns QueuedRestartRunsNext ImplementsSerialRuns
CHECK_DEADLOCK FALSE
