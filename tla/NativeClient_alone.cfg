CONSTANTS
    CLIs = {c1, c2}
    Clients = {k1}
    Crashes = {c2}
    UserRuns = {c2}
    Typed <- MCTyped
SPECIFICATION FairNativeSpec
INVARIANTS NativeTypeOK NeverRefused QuietClientIsServed
PROPERTY ClientEnds
CHECK_DEADLOCK FALSE
