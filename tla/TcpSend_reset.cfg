\* WITH_SCARD build: the main thread resets the streams (session
\* redirection) while the smart-card thread is between tcp_init and tcp_send.
CONSTANTS
    Producers = {main, scard}
    Main = main
    STREAM_COUNT = 8
    MsgLen = 2
    MaxMsgs = 2
    Nil = Nil
SPECIFICATION Spec
INVARIANT NoLostPacket
