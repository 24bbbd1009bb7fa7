SPECIFICATION MCSpec
CONSTANTS
    Records = {r1, r2}
    Sizes = {1, 2, 3, 5, 6}
    SignatureSize = 1
    AreaSize = 5
    WriteMax = 2
    ReadMax = 2
    Space = 8
    Erased = Erased
    Mixed = Mixed
    Bytes = {1, 2}
    ChunkLengths = {2, 3, 4}
    ChunkPacketMax = 2
    StructSize = 2
    ChunkWidth = 16
    RomExts = {1, 2, 3}
    Apps = {a1, a2}
    SecVers = {1, 2}
    Chunks = 2
    Torn = Torn
    FlashSpace = 32
    ShortSpace = 16
    Page = 2
    Sector = 4
    Block = 8
    PagesPerOp = 3
    MaxTransactions = 12
    MaxOpBytes = 37
    HeaderBytes = 1
    CommandBytes = 2
    ReadChunk = 3
    Starts = {0, 1, 2, 3, 4, 5, 6, 7, 8}
    Lengths = {1, 2, 3, 4, 5, 6, 7, 8, 9, 12, 13, 16}
    Limit = 24
    WornBytes = {17}
    Unwritten = Unwritten
    LogMax = 3
    RotMax = 4
    LogWriteMax = 2
    LogReadMax = 2
    KeySize = 3
    KeyChunk = 2
INVARIANT RecordIsWhole
INVARIANT ReadsAreExact
INVARIANT BootedNeverTorn
INVARIANT InstallOkMeansInstalled
INVARIANT CountedUpdatesSuffice
INVARIANT FlashIsRight
INVARIANT NeverAborts
INVARIANT SuccessIsTrue
INVARIANT UndisturbedSucceeds
