\* Two sessions, so that one begins, runs and ends during another.
CONSTANTS
    Sessions = {s1, s2}
    MaxSubs = 2
SPECIFICATION FairSpec
INVARIANTS OutputGoesToOwnClient AwaitedThreadsFinish NoThreadMissed StoppedByOwnHandler
PROPERTY HandlersEnd
CHECK_DEADLOCK FALSE
