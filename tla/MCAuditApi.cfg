SPECIFICATION Spec
CONSTANTS
    Request = {get1, get2}
    Channel = {channel1, channel2}
    Peer = {peer1, peer2}
    BlockNumber = {1, 2}
    MaxHeight = 3
INVARIANTS
    TypeOK
    FailsOnlyByRace
    AnswerIsOnChain
PROPERTIES
    EveryRequestEnds
CHECK_DEADLOCK FALSE
