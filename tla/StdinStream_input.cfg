SPECIFICATION FairSpec
CONSTANTS
    MaxTyped = 5
    MaxSize = 3
    PipeSize = 2
INVARIANTS TypeOK StdinIsPrefix DeliveredInOrder
PROPERTY TypedLeadsToDelivered
