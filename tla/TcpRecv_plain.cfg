\* Plain TCP: growth of g_in, and tcp_recv returns once the peer has gone
\* or the main loop is asked to exit.
CONSTANTS
    SSL = FALSE
    InitSize = 2
    Lengths = {1, 3}
    MaxCalls = 3
    MaxAvail = 2
SPECIFICATION FairSpec
INVARIANTS TypeOK NoOverflow
PROPERTIES RecvReturnsAfterClose CancelEndsRecv
