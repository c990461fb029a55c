CONSTANTS
    IntBits = 8
    IntVals <- MCIntVals
    FloatVals <- MCFloatVals
    Bytes <- MCBytes
    Width = 3
SPECIFICATION Spec
INVARIANTS StringCompareIsCStringOrder FloatCompareAntisymmetric
