SPECIFICATION Spec
CONSTANTS
    Slots = 3
    MaxPriority = 2
    Quantum = 1
    MaxDispatch = 8
    Patience = 2
    MaxSeq = 4
INVARIANT NoStarvation
CHECK_DEADLOCK FALSE
