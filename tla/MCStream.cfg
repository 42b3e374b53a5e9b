SPECIFICATION Spec
CONSTANTS
    Connects <- MCConnects
    Packets <- MCPackets
    Lengths <- MCLengths
    ConnCap = 48
    ReadCap = 145
    MinKeepAlive = 60
    MaxSends = 3
INVARIANTS
    TypeOK
    TruncatedIsRefused
    SentIsRead
    PanicsAreKnown
    FramesOK
    ReadsAsPublished
    ConnackAnswers
    RestoredIsMade
    LengthsAgree
CHECK_DEADLOCK FALSE
