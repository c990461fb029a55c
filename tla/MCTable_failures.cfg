CONSTANTS
    a = a
    b = b
    i1 = i1
    NullV = NullV
    NoRecordV = NoRecordV
    NoCondV = NoCondV
    Fields <- MCFields
    Nullable <- MCNullable
    Vals <- MCVals
    Legal <- MCLegal
    Null <- NullV
    NoRecord <- NoRecordV
    NoCond <- NoCondV
    Trx <- MCOneTrx
    MaxRid = 2
    IndexNames <- MCIndexNames
    InsertRows <- MCInsertRows
    UpdateVals <- MCUpdateVals
    MaxIndexFailures = 1
SPECIFICATION Spec
INVARIANTS StoredValuesLegal
