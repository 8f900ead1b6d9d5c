\* Answers, for one client from its start and for two sessions that are set up,
\* with queues that can be full and timers that may never fire.
CONSTANTS
    SessionIds = {s1, s2}
    Readers = {r1}
    Conns = {c1, c2}
    Requests = {q1, q2, q3}
    AtrRequests = {}
    QueueCap = 1
    ChannelPolls = 1
    VpcdSlots = 2
    CardInfos = {"empty_atr"}
    MaxFaults = 2
    NoConn = NoConn
    NoReq = NoReq
    NoWorker = NoWorker
    NoSession = NoSession
    NoCmd = NoCmd
SPECIFICATION AnswersSpec
CHECK_DEADLOCK FALSE
PROPERTIES AnsweredUnlessStuck BrokenStreamAnswered
