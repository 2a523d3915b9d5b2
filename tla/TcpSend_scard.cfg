\* WITH_SCARD build: the main thread and the smart-card thread send
\* concurrently, each packet through the scard lock.
CONSTANTS
    Producers = {main, scard}
    Main = main
    STREAM_COUNT = 8
    MsgLen = 2
    MaxMsgs = 3
    Nil = Nil
SPECIFICATION FairSpec
INVARIANTS TypeOK SendsNotInterleaved SendAllOrError
PROPERTIES LockReleased SerialSpec
