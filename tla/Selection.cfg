\* An APDU that needs the applet selected before it, and nothing but the client at work.
CONSTANTS
    Readers = {r1}
    MaxRetries = 2
    MaxCalls = 3
    MaxEvents = 0
SPECIFICATION Spec
CHECK_DEADLOCK FALSE
INVARIANTS SelectionPreserved
