\* One connection of vpcd, and a client that has come back as another session.
CONSTANTS
    SessionIds = {s1, s2}
    Readers = {r1}
    Conns = {c1, c2}
    Requests = {q1}
    AtrRequests = {}
    QueueCap = 1
    ChannelPolls = 1
    VpcdSlots = 1
    CardInfos = {"empty_atr"}
    MaxFaults = 1
    NoConn = NoConn
    NoReq = NoReq
    NoWorker = NoWorker
    NoSession = NoSession
    NoCmd = NoCmd
SPECIFICATION FairSpec
CHECK_DEADLOCK FALSE
PROPERTIES OwnVirtualReader
