\* The bounds of MCCursor.cfg, without bindings.
SPECIFICATION Spec
CONSTANTS
    s1 = s1
    s2 = s2
    b1 = b1
    b2 = b2
    Stmts <- MCStmts
    Buffers <- MCBuffers
    NumCols <- MCNumCols
    RowKinds <- MCRowKinds
    Insides <- MCInsides
    MaxExec = 2
    MaxRows = 2
    MaxBinds = 0
INVARIANT SuccessMeansPrepared
CHECK_DEADLOCK FALSE
