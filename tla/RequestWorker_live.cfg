CONSTANTS
    PipeSize = 1
    MaxRequests = 2
    ClientRequests = {"data", "emptyCmd"}
    SelfInterrupt = FALSE
SPECIFICATION FairSpec
PROPERTIES SettledLeadsToClosed ThreadsEnd GoneLeadsToClosed
