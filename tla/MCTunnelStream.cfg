SPECIFICATION Spec
CONSTANTS
    Preamble = 2
    Header = 4
    LenAt = 3
    MaxLen = 3
    ServerVersion = 2
    Versions = {1, 2}
    TcpWindow = 6
    MaxFrames = 3
INVARIANTS
    NeverReadsPastFrame
    FrameAligned
    CountsAgree
    OnlyOwnVersion
    IInv
PROPERTIES
    RelaySafety
    EveryDatagramDelivered
CHECK_DEADLOCK FALSE
