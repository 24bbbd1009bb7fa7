SPECIFICATION FairSpec
CONSTANTS
    Space = 16
    FlashSize = 6
    Sector = 2
    Block = 4
    MaxChunk = 3
    MaxReadChunk = 2
    ImageSizes = {0, 4, 5}
    Offsets = {0, 1, 2, 12}
    Lengths = {0, 2, 3, 6}
INVARIANT TransfersAreExact
PROPERTY OnlyWholeImagesFinalized
PROPERTY OnlyRangeTouched
PROPERTY CommandReturns
