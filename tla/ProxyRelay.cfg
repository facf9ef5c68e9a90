CONSTANTS
    Conns = {1}
    Transports = {"udp", "stealth"}
    NoBuffer = NoBuffer
    MaxChunks = 3
SPECIFICATION FairSpec
INVARIANTS
    TypeOK
    StreamsIntactInOrder
    NothingDisappears
    EndedIsForgotten
PROPERTY EndIsTold
CHECK_DEADLOCK FALSE
