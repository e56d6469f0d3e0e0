SPECIFICATION LiveSpec
CONSTANTS
    MaxMaps = 4
    MaxCarriers = 2
    FaultChoices = {{}, {"server", "client", "time"}}
INVARIANTS
    TypeOK
    TransportCommitted
    OnlyReceiptsToHookless
    CarriersExpected
    MapChangesHarmless
PROPERTIES
    CancelledStaysCancelled
    HandshakeSettles
CHECK_DEADLOCK FALSE
