CONSTANTS
    Sessions = {s1, s2, s3}
    Dirs = {a, b}
    Existing = {a}
    Home = home
    NoDir = NoDir
SPECIFICATION Spec
INVARIANTS DirsAgree SetDirHasSession RunsInOwnDirIfDistinct
