\* Five clients, two at a time, and descriptors to spare for one session more.
CONSTANTS
  MaxConn = 2
  FdLimit = 7
  FdMapCap = 8
  MaxArrivals = 5
SPECIFICATION FairSpec
INVARIANTS FdTableConsistent ActiveIsCounted
PROPERTIES ConnectionsAnswered
CHECK_DEADLOCK FALSE
