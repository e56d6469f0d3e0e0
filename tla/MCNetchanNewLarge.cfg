SPECIFICATION Spec
CONSTANTS
    Server = Server
    Client = Client
    MessageMax = 3
    MaxPacketLen = 2
    UnreliableLengths = {0, 3}
    MaxWritten <- MCMaxWritten
    MaxOutgoing <- MCMaxOutgoing
    MaxIsolated <- MCMaxIsolated
INVARIANT
    ReliableInOrderOnce
CHECK_DEADLOCK FALSE
