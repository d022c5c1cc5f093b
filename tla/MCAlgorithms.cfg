SPECIFICATION ASpec
CONSTANTS
    Shapes <- MCShapes
    RowsOf <- MCRowsOf
    Null = Null
    Leftover <- MCLeftover
    Rooms = {1, 3, 20}
    MaxBound = 2
    Statements <- MCStatements
    MaxExecutes = 2
    Urls <- MCUrls
    FilesWith <- MCFilesWith
    Strings <- MCStrings
INVARIANTS
    TypeOK
    InStep
    BoundValues
    GetDataAsBound
    DisplaySizeSuffices
    QuerySent
    ItemsOfSection
    StringOverrides
    UrlRead
CHECK_DEADLOCK FALSE
