SPECIFICATION FairSpec
CONSTANTS
    t1 = t1
    t2 = t2
    t3 = t3
    t4 = t4
    Threads <- MCThreads
    MaxSizes <- MCMaxSizes
    SizeBound = 3
INVARIANTS
    TypeOK
    StoppedNobodyWaits
    NoLostItemWakeup
    NoLostSlotWakeup
PROPERTY StopReleasesWaiters
