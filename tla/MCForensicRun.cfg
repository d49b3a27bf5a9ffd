CONSTANTS
  m1 = m1
  m2 = m2
  m3 = m3
  Order <- MCOrder
  SystemInfo = system_info
  Dictionary = data_dictionary
  Concurrency = 2
SPECIFICATION FairSpec
CHECK_DEADLOCK FALSE
INVARIANTS
  FullyUsed
  EachOnce
  ReportSeesAll
  DataIsOnDisk
PROPERTIES
  JobSpec
  RunEnds
