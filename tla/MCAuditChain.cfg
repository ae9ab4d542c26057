CONSTANTS
    c1 = c1
    c2 = c2
    c3 = c3
    t1 = t1
    t2 = t2
    Calls <- MCCalls
    TenantOf <- MCTenantOf
    MaxAttempts = 3
SPECIFICATION FairSpec
INVARIANTS Contiguous NoFalseAlarm RecordedOnce LostRacesArePaidFor TamperEvident
PROPERTIES AppendOnly ImplementsLog RecordTerminates
