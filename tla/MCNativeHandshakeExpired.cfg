SPECIFICATION Spec
CONSTANTS
    MaxMaps = 3
    MaxCarriers = 1
    FaultChoices = {{"time"}}
PROPERTY
    NoDrainByCancelledEpoch
CHECK_DEADLOCK FALSE
