CONSTANTS
    t1 = t1
    c1 = c1
    c2 = c2
    NoNameV = NoNameV
    NullTextV = NullTextV
    MaxNum <- MCMaxNum
    Tables <- MCTables
    Columns <- MCColumns
    NoName <- NoNameV
    NullText <- NullTextV
    Inputs <- MCInputs
SPECIFICATION Spec
INVARIANTS TypeOK
 
