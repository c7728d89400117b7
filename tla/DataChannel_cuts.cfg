\* Two or more writes of one or two frames, cut wherever a block ends, and a
\* request of each kind.
SPECIFICATION ChannelSpec
CONSTANTS
    crc8 <- CRC8
    or <- BitwiseOr
    None = None
    BLOCK = 4
    MAX_FRAME = 16
    Commands = {32, 208}
    Payloads <- SomePayloads
    Uids = {1, 2130706559}
    Pins <- SomePins
    MaxPerWrite = 2
    MaxSent = 3
INVARIANTS
    FramesAreSent
    NothingStuck
    RequestUnderstood
    PinSurvives
CHECK_DEADLOCK FALSE
