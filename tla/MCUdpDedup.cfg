SPECIFICATION Spec
CONSTANTS
    a = a
    b = b
    Publishers = {a, b}
    Paths = {"direct", "relay"}
    WindowSize = 3
    SeqMod = 4
    Bursts = {1, 3}
    MaxLag = 2
    Restarting = {a}
    MaxPublish = 5
    MaxInFlight = 3
    MaxEvents = 1
INVARIANTS
    AtMostOnce
    UniqueNumbersAreSafe
PROPERTY
    ImplementsChannel
CHECK_DEADLOCK FALSE
