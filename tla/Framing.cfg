\* vpcd, or the test tool, on two connections one after the other.
CONSTANTS
    Base = 5
    Apdus <- MCApdus
    ApduResponses <- MCApduResponses
    Atrs <- MCAtrs
    Peers = {"vpcd", "vpcd_test"}
    MaxMessages = 2
    MaxConnections = 2
SPECIFICATION FairSpec
CHECK_DEADLOCK FALSE
INVARIANTS TypeOK RequestsUnderstood AnsweredInTurn ConnectionKept
PROPERTIES AnsweredOrClosed
