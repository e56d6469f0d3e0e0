SPECIFICATION Spec
CONSTANTS
    Window = 1
    MaxSeq = 2
    MaxEpoch = 2
    TxSlots = 2
    MaxAttempts = 1
    RxSlots = 2
    Tombstones = 2
    FragmentCount = 2
    Handoffs = 1
INVARIANTS TypeOK ReceiverValid ReliableInWindow AttemptsReal AcksAcceptable TakenWasSent
PROPERTIES DeliverySpec
CHECK_DEADLOCK FALSE
