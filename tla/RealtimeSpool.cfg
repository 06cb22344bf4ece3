SPECIFICATION Spec
CONSTANTS
    MaxRecords = 4
    WalCapacity = 3
    MaxFaults = 3
    PowerLoss = TRUE
INVARIANT DurableReceipt
PROPERTY ImplementsDurableLog
CHECK_DEADLOCK FALSE
