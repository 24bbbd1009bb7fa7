SPECIFICATION MCSpec
CONSTANTS
    Lines <- AttestationLines
    Statuses <- MCStatuses
    Alphabet = {"0", "1", "9", "f", "x", "-", " ", "s", "m", "u"}
    MaxText = 0
    U32 = 16
    U64 = 128
    Second = 20
    Milli = 3
    ByteMax = 2
    Align = 2
    MaxParams = 2
    MaxParamSize = 2
    StorageSizes = {1, 2, 4, 6, 7, 8, 10, 11}
INVARIANTS
    AttestationFileHoldsAttestation
