CONSTANTS
    PipeSize = 1
    MaxRequests = 2
    ClientRequests = {"data", "interrupt", "stdinClosed", "emptyCmd", "negative"}
    SelfInterrupt = FALSE
SPECIFICATION Spec
INVARIANT StdinCloseIsNoInterrupt
