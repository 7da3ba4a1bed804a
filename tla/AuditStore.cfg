SPECIFICATION FairSpec
CONSTANTS
    MaxEntries = 2
    TornAppends = FALSE
    MaxAppends = 5
    MaxFaults = 3
INVARIANTS AckedDurable SettledIsDurable WaitersHaveAWrite
PROPERTIES NothingDeleted ImplementsDurableLog AppendsSettle
CHECK_DEADLOCK FALSE
