SPECIFICATION FairSpec
CONSTANTS
    Procs = {p1, p2}
    MaxIno = 5
    MaxRows = 2
    MaxDay = 2
    Reading = TRUE
    DateMayReturn = FALSE
    MaxFaults = 1
INVARIANTS TypeOK AlwaysResolves ReceiptsHold ReaderIsFaithful PendingIsReusable
PROPERTIES ImplementsLog WorkIsKept
CHECK_DEADLOCK FALSE
