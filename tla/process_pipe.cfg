SPECIFICATION ProcessSpec
CONSTANTS
  MaxWrites = 3
  Jobs <- AllJobs
  Capacity = 2
  Timeout = 2
CHECK_DEADLOCK FALSE
INVARIANTS TimeoutIsReal
