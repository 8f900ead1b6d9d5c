\* One connection that announces two readers, cards with and without ATR.
CONSTANTS
    SessionIds = {s1}
    Readers = {r1, r2}
    Conns = {c1}
    Requests = {a1, q1, q2}
    AtrRequests = {a1}
    QueueCap = 1
    ChannelPolls = 2
    VpcdSlots = 2
    CardInfos = {"no_card", "atr", "empty_atr"}
    MaxFaults = 1
    NoConn = NoConn
    NoReq = NoReq
    NoWorker = NoWorker
    NoSession = NoSession
    NoCmd = NoCmd
SPECIFICATION Spec
SYMMETRY Interchangeable
CHECK_DEADLOCK FALSE
INVARIANTS RunAsAsked Correlated
PROPERTIES ActsAsVirtualReader
