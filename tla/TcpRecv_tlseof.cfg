\* TLS: does tcp_recv return once the peer has closed the connection?
CONSTANTS
    SSL = TRUE
    InitSize = 2
    Lengths = {1, 3}
    MaxCalls = 3
    MaxAvail = 2
SPECIFICATION FairSpec
PROPERTY RecvReturnsAfterClose
