CONSTANTS
    MaxKeys = 4
    MaxFailures = 1
    Missing = Missing
    Damaged = Damaged
    Options <- MCOptions
SPECIFICATION Spec
CHECK_DEADLOCK FALSE
INVARIANTS TypeOK SuccessMeansUsable TrustKept
PROPERTIES SoundStartSucceeds
