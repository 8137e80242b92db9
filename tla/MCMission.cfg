SPECIFICATION FairSpec
CONSTANTS
    o1 = o1
    o2 = o2
    None = None
    Orders = {o1}
    Waits <- TwoWaits
    MaxHits = 2
    Budget <- BudgetSafe
INVARIANTS  DeadlineIsCurrent BlocksBeforeDelivery AppendedOnce
PROPERTIES ImplementsWaybill 
CHECK_DEADLOCK FALSE
