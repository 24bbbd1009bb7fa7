SPECIFICATION FairSpec
CONSTANTS
    Ids = {i1, i2}
    None = None
    GiveUpAfter = 1
    MaxTx = 2
    Sizes = {"fits", "short"}
    Timeouts = {"timed", "forever"}
INVARIANT TypeOK
INVARIANT NothingInFlight
INVARIANT FlagsTrackTransfers
PROPERTY ImplementsTransport
PROPERTY WaitEnds
