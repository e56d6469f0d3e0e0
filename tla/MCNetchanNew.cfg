SPECIFICATION Spec
CONSTANTS
    Server = Server
    Client = Client
    MessageMax = 3
    MaxPacketLen = 2
    UnreliableLengths = {0, 2}
    MaxWritten <- MCMaxWritten
    MaxOutgoing <- MCMaxOutgoing
    MaxIsolated <- MCMaxIsolated
INVARIANTS
    TypeOK
    ReliableInOrderOnce
    AcknowledgementsAgree
    QueueOrderKept
    ReassemblyExact
    FragmentBufferIdle
PROPERTIES
    ImplementsChannel
CHECK_DEADLOCK FALSE
