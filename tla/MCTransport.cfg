SPECIFICATION MCSpec
CONSTANTS
    MaxCalls = 3
    RequestSizes = {1, 2, 5}
    HeaderSize = 2
    MaxData = 3
    ResponseSize = 4
    WriteMax = 2
    ReadMax = 2
    AnswerHeader = 1
    Base = 4
    Version = 3
    Commands = {1}
    MaxPayload = 2
    ErrorSize = 1
    HostCommandStart = 100
    Null = Null
    Locations = {l1, l2}
    Devices <- PluggedDevices
    Space = 8
    Step = 2
    Timeouts = {3, 6}
    MaxSlept = 12
CHECK_DEADLOCK FALSE
INVARIANT WholeAnswer
INVARIANT BufferedRequestIsThisCalls
INVARIANT ExchangeIsSound
INVARIANT HandleIsSound
INVARIANT RefusesOnlyUnusable
INVARIANT SleepsNoLonger
