\* One reader, two cards, two connections of the client one after the other.
CONSTANTS
    Readers = {r1}
    MaxRetries = 2
    MaxCalls = 4
    MaxEvents = 3
    Chips = {k1, k2}
    NoAtr = NoAtr
    MaxConnections = 2
SPECIFICATION FairAnnouncements
CHECK_DEADLOCK FALSE
INVARIANTS AnnouncementsTypeOK UndisturbedTransmitSucceeds RunTwiceAtMost AnnouncedCardsWereThere
PROPERTIES ResetForCause CallEnds
