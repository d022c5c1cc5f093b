------------------------------ MODULE MCCursor ------------------------------
(* Cursor for TLC: two statements that share the environment's DRDA.       *)
EXTENDS Cursor, TLC

CONSTANTS s1, s2, b1, b2

MCStmts == {s1, s2}
MCBuffers == {b1, b2}
MCOneBuffer == {b1}
MCNumCols == {2}
MCThreeCols == {1, 3}
MCRowKinds == {"value", "null", "sqlca"}
MCInsides == {"mark", "text"}
MCOneInside == {"text"}
MCDataRows == {"value", "null"}

\* The two handles and the two buffers play the same parts
MCSymmetry == Permutations(MCStmts) \cup Permutations(MCBuffers)
=============================================================================
