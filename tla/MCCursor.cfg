\* Two statements, two executions in all, blocks of up to two rows, two
\* bindings in all.
\* The application may stop, or crash, hence no deadlock check.
SPECIFICATION Spec
CONSTANTS
    s1 = s1
    s2 = s2
    b1 = b1
    b2 = b2
    Stmts <- MCStmts
    Buffers <- MCBuffers
    NumCols <- MCNumCols
    RowKinds <- MCRowKinds
    Insides <- MCOneInside
    MaxExec = 2
    MaxRows = 2
    MaxBinds = 2
INVARIANTS TypeOK RowsInOrder FetchFillsBuffers PointersLive
PROPERTY AnswerSet
SYMMETRY MCSymmetry
CHECK_DEADLOCK FALSE
