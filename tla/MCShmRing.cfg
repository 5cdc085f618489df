SPECIFICATION FairSpec
CONSTANTS
    Capacity = 3
    Payloads <- MCPayloads
    PayloadLen <- MCPayloadLen
    Zeros = "zeros"
    MaxPayload = 2
    SeqMod = 3
    MaxAccepted = 4
INVARIANTS
    TypeOK
    SlotExclusive
    CallbackSeesStablePayload
    FifoExactlyOnce
PROPERTY
    ImplementsQueue
    AcceptedIsDelivered
CHECK_DEADLOCK FALSE
