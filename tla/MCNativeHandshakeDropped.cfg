SPECIFICATION Spec
CONSTANTS
    MaxMaps = 3
    MaxCarriers = 1
    FaultChoices = {{"client"}}
INVARIANT
    FailureKeepsConnection
CHECK_DEADLOCK FALSE
