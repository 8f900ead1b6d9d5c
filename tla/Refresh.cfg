\* A card put in, or put back, before the next connection is begun.
CONSTANTS
    Readers = {r1}
    MaxRetries = 2
    MaxCalls = 4
    MaxEvents = 3
    Chips = {k1, k2}
    NoAtr = NoAtr
    MaxConnections = 2
SPECIFICATION SpecAnnouncements
CHECK_DEADLOCK FALSE
INVARIANTS CardsAnnounced
