\* Two connections, one after the other or at once, one reader, three faults
CONSTANTS
    SessionIds = {s1, s2}
    Readers = {r1}
    Conns = {c1, c2}
    Requests = {q1, q2}
    AtrRequests = {}
    QueueCap = 1
    ChannelPolls = 1
    VpcdSlots = 2
    CardInfos = {"empty_atr"}
    MaxFaults = 3
    NoConn = NoConn
    NoReq = NoReq
    NoWorker = NoWorker
    NoSession = NoSession
    NoCmd = NoCmd
SPECIFICATION Spec
SYMMETRY Interchangeable
CHECK_DEADLOCK FALSE
INVARIANTS TypeOK ChannelServed RunAsAsked
PROPERTIES ActsAsVirtualReader ChannelNotReplaced
