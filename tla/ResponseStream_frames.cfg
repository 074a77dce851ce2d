SPECIFICATION FairSpec
CONSTANTS
    Threads = {t1, t2}
    MaxChunks = 2
    MaxSize = 3
    Codes = {7, 265}
    TextCodes = {42}
    TextSizes = {0, 1, 9}
INVARIANTS TypeOK NoPhantomStatus
PROPERTIES DeliverySpec ClosedLeadsToExit
