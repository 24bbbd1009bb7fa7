SPECIFICATION Spec
CONSTANTS
    Bytes = {1, 2, 3}
    Lengths = {2, 3, 5}
    PacketMax = 2
    StructSize = 2
    MaxRecord = 5
    AreaSize = 6
    Width = 16
INVARIANT LengthIsTheChunks
