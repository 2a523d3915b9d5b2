\* TLS: a call in progress returns once the connection is reset, through
\* the retries of non-fatal results and the reads of pending data.
CONSTANTS
    SSL = TRUE
    InitSize = 2
    Lengths = {1, 3}
    MaxCalls = 3
    MaxAvail = 2
SPECIFICATION FairSpec
PROPERTY RecvReturnsAfterReset
