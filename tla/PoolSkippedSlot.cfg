SPECIFICATION LiveSpec
CONSTANTS
  Workers = {t1}
  WorkSize = 2
  MaxAccepts = 3
PROPERTIES WorkIsExecuted
CHECK_DEADLOCK FALSE
