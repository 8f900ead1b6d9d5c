\* A server that never comes up.
CONSTANTS
    Readers = {r1, r2}
    Delays = {1, 2, 4}
    DefaultDelay = 1
    DefaultMaxDelay = 4
    Unset = Unset
    MaxHeartbeatFailures = 3
SPECIFICATION Spec
CHECK_DEADLOCK FALSE
PROPERTIES BackoffGrows
