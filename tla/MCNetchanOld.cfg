SPECIFICATION Spec
CONSTANTS
    Server = Server
    Client = Client
    MessageMax = 2
    MaxWritten <- MCMaxWritten
    MaxOutgoing <- MCMaxOutgoing
INVARIANTS
    TypeOK
    ReliableInOrderOnce
    AcknowledgementsAgree
    NothingForgotten
    AcknowledgementOwed
PROPERTIES
    ImplementsChannel
CHECK_DEADLOCK FALSE
