CONSTANTS
    Vals = {v1, v2}
    NoData = NoData
    SourceStale = 2
    SenderStale = 1
    BridgeStale = 1
    ForcePeriod = 2
    RoundTicks = 1
    AnswerTicks = 1
    AnswerEndsRound = FALSE
    PacketStamp = "publish"
    Sender = "growatt"
    MayOverride = TRUE
    MaxAge = 5
    MaxStamp = 2
SPECIFICATION Spec
INVARIANTS
    SentAgeBounded
    FakeStops
    OverrideWins
    NoChangeIsLost
