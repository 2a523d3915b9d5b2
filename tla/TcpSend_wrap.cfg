\* More packets than output streams: tcp_init wraps round the ring of
\* STREAM_COUNT streams while an older packet may still be in flight.
CONSTANTS
    Producers = {main, scard}
    Main = main
    STREAM_COUNT = 8
    MsgLen = 1
    MaxMsgs = 9
    Nil = Nil
SPECIFICATION Spec
INVARIANT NoForeignData
