SPECIFICATION ProcessSpec
CONSTANTS
  MaxWrites = 4
  Jobs <- AllJobs
  Capacity = 2
  Timeout = 3
CHECK_DEADLOCK FALSE
INVARIANTS ProcessTypeOK SummaryIsWhole
PROPERTIES ScriptEnds NothingLeftRunning
