\* The application's fetch loop, and columns beyond the two the driver binds
\* itself.  Liveness is checked without symmetry: one buffer, one binding, and
\* no row with an SQLCA, so that the loop must end.
SPECIFICATION Spec
CONSTANTS
    s1 = s1
    s2 = s2
    b1 = b1
    b2 = b2
    Stmts <- MCStmts
    Buffers <- MCOneBuffer
    NumCols <- MCThreeCols
    RowKinds <- MCDataRows
    Insides <- MCInsides
    MaxExec = 2
    MaxRows = 2
    MaxBinds = 1
INVARIANT NoForeignBuffer
PROPERTIES FetchLoopEnds
CHECK_DEADLOCK FALSE
