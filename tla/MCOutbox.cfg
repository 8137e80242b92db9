SPECIFICATION FairSpec
CONSTANTS
    MaxRetries = 2
    Limit = 2
    MaxId = 2
    MaxRestarts = 1
    MaxFaults = 1
    MaxRequeues = 1
    MaxHits = 2
INVARIANTS TypeOK FirstDeliveryInOrder RetriesPacedByTicker SnapshotsNeverRegress
PROPERTIES RowsLeaveSettled PendingSettles
CHECK_DEADLOCK FALSE
