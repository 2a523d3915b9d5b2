\* Plain TCP: does a failed tcp_recv always set g_network_error?
CONSTANTS
    SSL = FALSE
    InitSize = 2
    Lengths = {1, 3}
    MaxCalls = 3
    MaxAvail = 2
SPECIFICATION Spec
INVARIANT RecvFailureSetsError
