SPECIFICATION FairSpec
CONSTANTS
    MaxEvents = 4
    MaxInFlight = 1
    Backlog = 2
    TxSlots = 2
    BatchMax = 2
    Window = 3
    Selective = 3
    Journal = 3
    Handoffs = 1
INVARIANTS TypeOK RefusedOnlyByConsumer
PROPERTIES StreamSpec EveryEventPlayed
CHECK_DEADLOCK FALSE
