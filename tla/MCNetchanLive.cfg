SPECIFICATION LiveSpec
CONSTANTS
    Server = Server
    Client = Client
    MessageMax = 2
    MaxPacketLen = 1
    UnreliableLengths = {0}
    MaxFaults = 1
    MaxWritten <- MCMaxWritten
    MaxOutgoing <- MCMaxOutgoing
    MaxIsolated <- MCMaxIsolated
PROPERTIES
    EventuallyDelivered
    EventuallyReleased
CHECK_DEADLOCK FALSE
