\* The queue is full: the write guard is held for good.
CONSTANTS
    SessionIds = {s1}
    Readers = {r1}
    Conns = {c1}
    Requests = {q1, q2, q3}
    AtrRequests = {}
    QueueCap = 1
    ChannelPolls = 1
    VpcdSlots = 1
    CardInfos = {"empty_atr"}
    MaxFaults = 0
    NoConn = NoConn
    NoReq = NoReq
    NoWorker = NoWorker
    NoSession = NoSession
    NoCmd = NoCmd
SPECIFICATION FairSpec
CHECK_DEADLOCK FALSE
PROPERTIES EveryRequestAnswered
