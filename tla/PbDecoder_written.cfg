SPECIFICATION Spec
CONSTANTS
    Messages <- MCMessages
    Roots = {"M"}
    NoMessage = "none"
    Schema <- MCSchema
    MaxChunks = 3
    MaxCut = 2
    RawBytes = {}
    MaxRaw = 0
    Inputs <- WrittenInputs
    Word = 4096
    MaxDelivered = 20
    Before <- MCBefore
INVARIANTS DeliveredAsWritten TruncationDetected
CHECK_DEADLOCK FALSE
