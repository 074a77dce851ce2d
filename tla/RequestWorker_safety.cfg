\* With a script that interrupts its own thread, afterExecute may give up
\* and the connection stay open for ever, with it its client.
CONSTANTS
    PipeSize = 1
    MaxRequests = 2
    ClientRequests = {"data", "interrupt", "stdinClosed", "emptyCmd", "negative"}
    SelfInterrupt = TRUE
SPECIFICATION Spec
INVARIANTS TypeOK SettledBeforeClosing ClosedIsAnswered ReportedOutcomeIsReal
PROPERTY SessionSpec
CHECK_DEADLOCK FALSE
