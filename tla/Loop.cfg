\* The client process on a network that fails and with a server that restarts.
CONSTANTS
    Readers = {r1, r2}
    Delays = {1, 2, 4}
    DefaultDelay = 1
    DefaultMaxDelay = 4
    Unset = Unset
    MaxHeartbeatFailures = 3
SPECIFICATION FairRecovery
CHECK_DEADLOCK FALSE
INVARIANTS RecoveryTypeOK
PROPERTIES NoStartAfterShutdown ShutdownStopsIfHeard DeadChannelLeftIfHeard Recovers
