SPECIFICATION FairSpec
CONSTANTS
    Messages <- MCMessages
    Roots = {"Sub"}
    NoMessage = "none"
    Schema <- MCSchema
    MaxChunks = 0
    MaxCut = 0
    RawBytes = {0, 1, 2, 18, 24, 26, 251}
    MaxRaw = 5
    Inputs <- RawInputs
    Word = 256
    MaxDelivered = 2
    Before <- MCBefore
INVARIANTS IInv
PROPERTIES RefinesTokenStream Terminates
CHECK_DEADLOCK FALSE
