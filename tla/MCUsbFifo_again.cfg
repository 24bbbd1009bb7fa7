SPECIFICATION FairSpec
CONSTANTS
    Ids = {i1, i2}
    None = None
    GiveUpAfter = 1
    MaxTx = 1
    Sizes = {"fits"}
    Timeouts = {"timed", "forever"}
PROPERTY CallAgainLater
