SPECIFICATION Spec
CONSTANTS
    MaxTyped = 3
    MaxSize = 2
    PipeSize = 2
INVARIANT BodyIsStdin
