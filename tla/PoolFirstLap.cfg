\* As many connections as the works array has slots, fewer descriptors.
SPECIFICATION FdLiveSpec
CONSTANTS
  Workers = {t1, t2, t3}
  WorkSize = 3
  MaxAccepts = 3
  MaxFds = 2
INVARIANTS LapInv FifoOrder OwnsStruct OwnDescriptor
PROPERTIES RefinesQueue WorkIsExecuted
CHECK_DEADLOCK FALSE
