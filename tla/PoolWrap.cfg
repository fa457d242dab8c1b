\* Several laps around the works array.
SPECIFICATION LiveSpec
CONSTANTS
  Workers = {t1, t2}
  WorkSize = 3
  MaxAccepts = 7
INVARIANTS PoolInv CountedIsReadable NoLostWakeup
PROPERTIES WorkDrains
CHECK_DEADLOCK FALSE
