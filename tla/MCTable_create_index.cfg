CONSTANTS
    a = a
    b = b
    i1 = i1
    NullV = NullV
    NoRecordV = NoRecordV
    NoCondV = NoCondV
    Fields <- MCFields
    Nullable <- MCNullable
    Vals <- MCVals
    Legal <- MCLegal
    Null <- NullV
    NoRecord <- NoRecordV
    NoCond <- NoCondV
    Trx <- MCTrx
    MaxRid = 2
    IndexNames <- MCIndexNames
    InsertRows <- MCInsertRows
    UpdateVals <- MCNoUpdateVals
    MaxIndexFailures = 0
SPECIFICATION Spec
INVARIANT IndexScanComplete
