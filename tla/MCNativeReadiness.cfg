SPECIFICATION Spec
CONSTANTS
    MaxTick = 3
    MaxEpoch = 2
    MaxNonce = 2
    MaxGeneration = 2
    Capabilities = {command, event}
    Confirming = {event}
    None = None
    Timeouts = {2}
INVARIANTS
    TypeOK
    StatesValid
    GatesAgree
    RecordsAnswer
PROPERTIES
    WaitNotProlonged
    OnlyForward
