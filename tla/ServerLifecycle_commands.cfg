\* Commands that overlap may wait for ever.
SPECIFICATION FairSpec
CONSTANTS
    CLIs = {c1, c2}
    Crashes = {c1, c2, "boot"}
INVARIANTS TokenIsTheServers KilledIsGone QuietServerReachable
PROPERTY CommandEnds
CHECK_DEADLOCK FALSE
