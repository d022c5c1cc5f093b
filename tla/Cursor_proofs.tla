--------------------------- MODULE Cursor_proofs ---------------------------
(***************************************************************************)
(* Proofs about Cursor, for any number of statements, buffers, columns,    *)
(* executions and rows: its types, and what SQLFetch promises a statement  *)
(* that no other one disturbs.                                             *)
(***************************************************************************)
EXTENDS Cursor, TLAPS

StmtType == [binds : Seq(Bind), rowcount : Nat, active : BOOLEAN]
CellType == [val : Nat \X Nat, null : BOOLEAN, len : Nat \X Nat]
CallType == [op : {"none", "execute", "fetch"}, stmt : Stmts \cup {"none"},
             ret : {"SUCCESS", "ERROR", "NO_DATA", "crash"}]

\* TypeOK in parts: the position, which is about integers, and the rest
PosOK == pos \in 0..Len(result.rows) /\ place \in {"row"} \cup Insides
StmtsOK == stmt \in [Stmts -> StmtType]
SqldaOK == sqlda \in [exec : Nat, cols : Seq(Column)]
ResultOK == result \in [exec : Nat, rows : Seq(RowKinds)]
MemOK == mem \in [Buffers -> CellType]
RestOK == sqlca \in {"none", "ok", "error"} /\ call \in CallType /\ latest \in LatestType

LEMMA TypeParts ==
    TypeOK <=> PosOK /\ StmtsOK /\ SqldaOK /\ ResultOK /\ MemOK /\ RestOK
BY DEF TypeOK, PosOK, StmtsOK, SqldaOK, ResultOK, MemOK, RestOK, StmtType, CellType,
       CallType

-----------------------------------------------------------------------------
(* The inductive invariant.                                                *)

\* binds[i] is the last binding of its column
IsLast(binds, i) == /\ i \in 1..Len(binds)
                    /\ \A j \in 1..Len(binds) : j > i => binds[j].col # binds[i].col

\* A column that is bound has a last binding
Settled(binds) ==
    \A k \in 1..Len(binds) : \E i \in 1..Len(binds) :
        IsLast(binds, i) /\ binds[i].col = binds[k].col
BindingsSettled == \A s \in Stmts : Settled(stmt[s].binds)

\* A description and a block are of the latest execution or of an earlier
\* one, and both of the latest one if it was answered with rows; the position
\* is inside a row only if they are not of the same one
Ages ==
    /\ sqlda.exec <= latest.exec /\ result.exec <= latest.exec
    /\ latest.fresh => sqlda.exec = latest.exec /\ result.exec = latest.exec
    /\ Len(result.rows) <= MaxRows
    /\ sqlda.cols # <<>> => latest.stmt \in Stmts
    /\ place = "row" \/ sqlda.exec # result.exec

\* Once rows are fetched, columns have the bindings the statement had then
Copied ==
    \A s \in Stmts : Undisturbed(s) /\ ~latest.rebound /\ pos > 0 =>
        \A c \in DOMAIN sqlda.cols, i \in 1..Len(stmt[s].binds) :
            IsLast(stmt[s].binds, i) /\ stmt[s].binds[i].col = c =>
                sqlda.cols[c].bind = stmt[s].binds[i].buf

CInv ==
    /\ PosOK /\ StmtsOK /\ SqldaOK /\ ResultOK /\ MemOK /\ RestOK
    /\ BindingsSettled /\ Ages /\ Copied
    /\ RowsInOrder /\ PointersLive /\ NoForeignBuffer /\ FetchFillsBuffers

-----------------------------------------------------------------------------
(* Operators.                                                              *)

LEMMA FunctionIsSequence ==
    ASSUME NEW S, NEW n \in Nat, NEW f \in [1..n -> S]
    PROVE  f \in Seq(S) /\ Len(f) = n /\ DOMAIN f = 1..n
OBVIOUS

LEMMA SequenceDomain ==
    ASSUME NEW S, NEW q \in Seq(S)
    PROVE  /\ Len(q) \in Nat /\ DOMAIN q = 1..Len(q)
           /\ \A i \in 1..Len(q) : q[i] \in S
           /\ q = <<>> <=> Len(q) = 0
OBVIOUS

LEMMA Appending ==
    ASSUME NEW S, NEW q \in Seq(S), NEW e \in S
    PROVE  /\ Append(q, e) \in Seq(S) /\ Len(Append(q, e)) = Len(q) + 1
           /\ Append(q, e)[Len(q) + 1] = e
           /\ \A i \in 1..Len(q) : Append(q, e)[i] = q[i]
OBVIOUS

\* The last binding of a column is what LastBinding finds
LEMMA LastBindingIs ==
    ASSUME NEW binds \in Seq(Bind), NEW i, IsLast(binds, i)
    PROVE  LastBinding(binds, binds[i].col) = binds[i].buf
<1> DEFINE at == {k \in 1..Len(binds) : binds[k].col = binds[i].col}
<1>1. Len(binds) \in Nat
  BY SequenceDomain
<1>2. i \in at /\ \A j \in at : j <= i
  BY <1>1 DEF IsLast
<1>3. \A k \in at : (\A j \in at : j <= k) => k = i
  BY <1>1, <1>2
<1>4. (CHOOSE k \in at : \A j \in at : j <= k) = i
  BY <1>2, <1>3
<1> QED
  BY <1>2, <1>4 DEF LastBinding

\* LastBinding finds a binding of the column, if it has one
LEMMA LastBindingFound ==
    ASSUME NEW binds \in Seq(Bind), Settled(binds), NEW c,
           LastBinding(binds, c) # NoBuffer
    PROVE  \E i \in 1..Len(binds) :
              IsLast(binds, i) /\ binds[i] = [col |-> c, buf |-> LastBinding(binds, c)]
<1>1. PICK k \in 1..Len(binds) : binds[k].col = c
  BY DEF LastBinding
<1>2. PICK i \in 1..Len(binds) : IsLast(binds, i) /\ binds[i].col = c
  BY <1>1 DEF Settled
<1>3. binds[i].buf = LastBinding(binds, c) /\ binds[i] \in Bind
  BY <1>2, LastBindingIs, SequenceDomain
<1>4. binds[i] = [col |-> binds[i].col, buf |-> binds[i].buf]
  BY <1>3 DEF Bind
<1> QED
  BY <1>2, <1>3, <1>4

\* One more binding: of its column it is the last
LEMMA SettledAppend ==
    ASSUME NEW binds \in Seq(Bind), Settled(binds), NEW e \in Bind
    PROVE  Settled(Append(binds, e))
<1> DEFINE more == Append(binds, e)
           n == Len(binds)
<1>1. /\ n \in Nat /\ Len(more) = n + 1 /\ more[n + 1] = e
      /\ \A i \in 1..n : more[i] = binds[i]
  BY SequenceDomain, Appending
<1> SUFFICES ASSUME NEW k \in 1..(n + 1)
             PROVE  \E i \in 1..(n + 1) : IsLast(more, i) /\ more[i].col = more[k].col
  BY <1>1 DEF Settled
<1> HIDE DEF more, n
<1>2. IsLast(more, n + 1)
  BY <1>1 DEF IsLast
<1>3. CASE more[k].col = e.col
  BY <1>1, <1>2, <1>3
<1>4. CASE more[k].col # e.col
  <2>1. k \in 1..n
    BY <1>1, <1>4
  <2>2. PICK i \in 1..n : IsLast(binds, i) /\ binds[i].col = binds[k].col
    BY <2>1 DEF Settled, n
  <2>3. IsLast(more, i)
    BY <1>1, <1>4, <2>1, <2>2 DEF IsLast, n
  <2> QED
    BY <1>1, <2>1, <2>2, <2>3
<1> QED
  BY <1>3, <1>4

-----------------------------------------------------------------------------
(* What a fetch does to the columns.                                       *)

\* Copying the bindings leaves everything else of a column as it is
LEMMA BindingColumns ==
    ASSUME StmtsOK, SqldaOK, BindingsSettled, NEW s \in Stmts
    PROVE  /\ BoundColumns(s) \in Seq(Column)
           /\ DOMAIN BoundColumns(s) = DOMAIN sqlda.cols
           /\ Len(BoundColumns(s)) = Len(sqlda.cols)
           /\ \A c \in DOMAIN sqlda.cols :
                 LET col == BoundColumns(s)[c] IN
                 /\ col.cur = sqlda.cols[c].cur /\ col.has = sqlda.cols[c].has
                 /\ col.bind # sqlda.cols[c].bind =>
                       \E i \in 1..Len(stmt[s].binds) :
                           stmt[s].binds[i] = [col |-> c, buf |-> col.bind]
           /\ AtStart => \A i \in 1..Len(stmt[s].binds), c \in DOMAIN sqlda.cols :
                 IsLast(stmt[s].binds, i) /\ stmt[s].binds[i].col = c =>
                     BoundColumns(s)[c].bind = stmt[s].binds[i].buf
           /\ ~AtStart => BoundColumns(s) = sqlda.cols
<1> DEFINE cols == sqlda.cols
           binds == stmt[s].binds
           n == Len(cols)
           last(c) == LastBinding(binds, c)
           new(c) == IF last(c) = NoBuffer THEN cols[c] ELSE [cols[c] EXCEPT !.bind = last(c)]
<1>1. cols \in Seq(Column) /\ binds \in Seq(Bind) /\ Settled(binds)
  BY DEF StmtsOK, SqldaOK, StmtType, BindingsSettled
<1>2. n \in Nat /\ DOMAIN cols = 1..n /\ \A c \in 1..n : cols[c] \in Column
  BY <1>1, SequenceDomain
<1>3. \A c : last(c) # NoBuffer =>
                /\ last(c) \in Buffers
                /\ \E i \in 1..Len(binds) : binds[i] = [col |-> c, buf |-> last(c)]
  <2> SUFFICES ASSUME NEW c, last(c) # NoBuffer
               PROVE  /\ last(c) \in Buffers
                      /\ \E i \in 1..Len(binds) : binds[i] = [col |-> c, buf |-> last(c)]
    OBVIOUS
  <2> HIDE DEF binds
  <2>1. PICK i \in 1..Len(binds) : binds[i] = [col |-> c, buf |-> last(c)]
    BY <1>1, LastBindingFound
  <2>2. binds[i] \in Bind
    BY <1>1, SequenceDomain
  <2>3. binds[i].buf \in Buffers
    BY <2>2 DEF Bind
  <2> QED
    BY <2>1, <2>3
<1>4. \A i \in 1..Len(binds) : IsLast(binds, i) =>
          last(binds[i].col) = binds[i].buf /\ binds[i].buf \in Buffers
  <2> SUFFICES ASSUME NEW i \in 1..Len(binds), IsLast(binds, i)
               PROVE  last(binds[i].col) = binds[i].buf /\ binds[i].buf \in Buffers
    OBVIOUS
  <2> HIDE DEF binds
  <2>1. binds[i] \in Bind
    BY <1>1, SequenceDomain
  <2>2. binds[i].buf \in Buffers
    BY <2>1 DEF Bind
  <2> QED
    BY <1>1, <2>2, LastBindingIs
<1>5. \A b \in Buffers : b # NoBuffer
  BY BuffersAssumption DEF NoBuffer
<1>6. \A c \in 1..n : /\ new(c) \in Column
                      /\ new(c).cur = cols[c].cur /\ new(c).has = cols[c].has
                      /\ new(c).bind = IF last(c) = NoBuffer THEN cols[c].bind ELSE last(c)
  <2> HIDE DEF last
  <2> QED
    BY <1>2, <1>3 DEF Column
<1>7. CASE ~AtStart
  BY <1>1, <1>7 DEF BoundColumns
<1>8. CASE AtStart
  <2>1. BoundColumns(s) = [c \in 1..n |-> new(c)]
    BY <1>2, <1>8 DEF BoundColumns
  <2> HIDE DEF new, last, cols, binds, n
  <2>2. BoundColumns(s) \in [1..n -> Column]
    BY <1>6, <2>1
  <2>3. BoundColumns(s) \in Seq(Column) /\ Len(BoundColumns(s)) = n
        /\ DOMAIN BoundColumns(s) = 1..n
    BY <1>2, <2>2, FunctionIsSequence
  <2>4. \A c \in 1..n :
            LET col == BoundColumns(s)[c] IN
            /\ col.cur = cols[c].cur /\ col.has = cols[c].has
            /\ col.bind # cols[c].bind =>
                  \E i \in 1..Len(binds) : binds[i] = [col |-> c, buf |-> col.bind]
    BY <1>3, <1>6, <2>1
  <2>5. \A i \in 1..Len(binds), c \in 1..n :
            IsLast(binds, i) /\ binds[i].col = c => BoundColumns(s)[c].bind = binds[i].buf
    BY <1>4, <1>5, <1>6, <2>1
  <2> QED
    BY <1>2, <1>8, <2>3, <2>4, <2>5 DEF cols, binds, n
<1> QED
  BY <1>7, <1>8

\* Decoding a row gives every column the row, or no value, and keeps bindings
LEMMA DecodingColumns ==
    ASSUME NEW cols \in Seq(Column), NEW row \in Nat \X Nat, NEW kind
    PROVE  LET new == DecodedColumns(cols, row, kind) IN
           /\ new \in Seq(Column) /\ Len(new) = Len(cols) /\ DOMAIN new = DOMAIN cols
           /\ \A c \in DOMAIN cols :
                 /\ new[c].bind = cols[c].bind
                 /\ new[c].has => new[c].cur = row
<1> DEFINE n == Len(cols)
           col(c) == IF kind = "null" THEN [cols[c] EXCEPT !.has = FALSE]
                     ELSE [cols[c] EXCEPT !.cur = row, !.has = TRUE]
<1>1. n \in Nat /\ DOMAIN cols = 1..n /\ \A c \in 1..n : cols[c] \in Column
  BY SequenceDomain
<1>2. \A c \in 1..n : /\ col(c) \in Column /\ col(c).bind = cols[c].bind
                      /\ col(c).has => col(c).cur = row
  BY <1>1 DEF Column
<1>3. DecodedColumns(cols, row, kind) = [c \in 1..n |-> col(c)]
  BY <1>1 DEF DecodedColumns
<1> HIDE DEF n, col
<1>4. DecodedColumns(cols, row, kind) \in [1..n -> Column]
  BY <1>2, <1>3
<1> QED
  BY <1>1, <1>2, <1>3, <1>4, FunctionIsSequence DEF n

\* Decoding a row fills the buffers that columns are bound to
LEMMA DecodingMemory ==
    ASSUME MemOK, NEW cols, NEW row \in Nat \X Nat, NEW kind
    PROVE  LET new == DecodedMemory(cols, row, kind) IN
           /\ new \in [Buffers -> CellType]
           /\ \A b \in Buffers, c \in DOMAIN cols : cols[c].bind = b =>
                 new[b].val = row /\ (~new[b].null => new[b].len = row)
<1> DEFINE cell(b) == IF kind = "null" THEN [mem[b] EXCEPT !.val = row, !.null = TRUE]
                      ELSE [val |-> row, null |-> FALSE, len |-> row]
<1>1. \A b \in Buffers : /\ mem[b] \in CellType /\ cell(b) \in CellType
                         /\ cell(b).val = row /\ (~cell(b).null => cell(b).len = row)
  BY DEF MemOK, CellType
<1>2. DecodedMemory(cols, row, kind) =
        [b \in Buffers |-> IF \A c \in DOMAIN cols : cols[c].bind # b THEN mem[b]
                           ELSE cell(b)]
  BY DEF DecodedMemory
<1> HIDE DEF cell
<1> QED
  BY <1>1, <1>2

-----------------------------------------------------------------------------
(* The actions, one lemma each.                                            *)

LEMMA CursorStarts == Init => CInv
<1> SUFFICES ASSUME Init PROVE CInv
  OBVIOUS
<1>1. /\ stmt = [s \in Stmts |-> FreshStmt] /\ sqlca = "none"
      /\ sqlda = [exec |-> 0, cols |-> <<>>] /\ result = [exec |-> 0, rows |-> <<>>]
      /\ pos = 0 /\ place = "row"
      /\ mem = [b \in Buffers |-> [val |-> NoRow, null |-> FALSE, len |-> NoRow]]
      /\ call = [op |-> "none", stmt |-> "none", ret |-> "SUCCESS"]
      /\ latest = [exec |-> 0, stmt |-> "none", fresh |-> FALSE,
                   seen |-> <<>>, shared |-> FALSE, rebound |-> FALSE]
  BY DEF Init
<1>2. FreshStmt \in StmtType /\ FreshStmt.binds = <<>> /\ ~FreshStmt.active
  BY DEF FreshStmt, StmtType
<1>3. Settled(<<>>)
  BY DEF Settled
<1>4. StmtsOK /\ BindingsSettled /\ \A s \in Stmts : ~Undisturbed(s)
  BY <1>1, <1>2, <1>3 DEF StmtsOK, BindingsSettled, Undisturbed
<1>5. SqldaOK /\ ResultOK /\ DOMAIN sqlda.cols = {}
  BY <1>1 DEF SqldaOK, ResultOK
<1>6. PosOK /\ Ages
  BY <1>1, BoundsAssumption DEF PosOK, Ages
<1>7. MemOK
  BY <1>1 DEF MemOK, CellType, NoRow
<1>8. RestOK
  BY <1>1 DEF RestOK, CallType, LatestType
<1>9. Copied /\ RowsInOrder
  BY <1>4 DEF Copied, RowsInOrder
<1>10. PointersLive /\ NoForeignBuffer
  BY <1>5 DEF PointersLive, NoForeignBuffer
<1>11. FetchFillsBuffers
  BY <1>1 DEF FetchFillsBuffers
<1> QED
  BY <1>4, <1>5, <1>6, <1>7, <1>8, <1>9, <1>10, <1>11 DEF CInv

LEMMA BindColKeeps ==
    ASSUME CInv, NEW s \in Stmts, NEW c \in 1..MaxCol, NEW b \in Buffers,
           SQLBindCol(s, c, b)
    PROVE  CInv'
<1> DEFINE e == [col |-> c, buf |-> b]
<1>1. /\ stmt' = [stmt EXCEPT ![s].binds = Append(@, e)]
      /\ latest' = [latest EXCEPT !.rebound = @ \/ (s = latest.stmt /\ ~AtStart)]
      /\ call' = [op |-> "none", stmt |-> "none", ret |-> "SUCCESS"]
      /\ UNCHANGED <<sqlca, sqlda, result, pos, place, mem>>
  BY DEF SQLBindCol, OtherCall, Returns
<1>2. /\ PosOK /\ StmtsOK /\ SqldaOK /\ ResultOK /\ MemOK /\ RestOK
      /\ BindingsSettled /\ Ages /\ Copied
      /\ RowsInOrder /\ PointersLive /\ NoForeignBuffer
  BY DEF CInv
<1>3. e \in Bind
  BY DEF Bind
<1>4. stmt[s] \in StmtType /\ stmt[s].binds \in Seq(Bind) /\ Settled(stmt[s].binds)
  BY <1>2 DEF StmtsOK, StmtType, BindingsSettled
<1>5. Append(stmt[s].binds, e) \in Seq(Bind) /\ Settled(Append(stmt[s].binds, e))
  BY <1>3, <1>4, Appending, SettledAppend
<1> HIDE DEF e
<1>6. /\ stmt' \in [Stmts -> StmtType]
      /\ stmt'[s].binds = Append(stmt[s].binds, e)
      /\ \A t \in Stmts : t # s => stmt'[t] = stmt[t]
      /\ \A t \in Stmts : /\ stmt'[t].active = stmt[t].active
                          /\ stmt'[t].rowcount = stmt[t].rowcount
  BY <1>1, <1>2, <1>5 DEF StmtsOK, StmtType
<1>7. /\ latest' \in LatestType
      /\ latest'.exec = latest.exec /\ latest'.stmt = latest.stmt
      /\ latest'.fresh = latest.fresh /\ latest'.seen = latest.seen
      /\ latest'.shared = latest.shared
      /\ latest'.rebound <=> latest.rebound \/ (s = latest.stmt /\ ~AtStart)
  BY <1>1, <1>2 DEF RestOK, LatestType
<1>8. \A t \in Stmts : Undisturbed(t)' => Undisturbed(t)
  BY <1>6, <1>7 DEF Undisturbed
<1>9. PosOK' /\ StmtsOK' /\ SqldaOK' /\ ResultOK' /\ MemOK' /\ RestOK'
  <2>1. PosOK' /\ SqldaOK' /\ ResultOK' /\ MemOK'
    BY <1>1, <1>2 DEF PosOK, SqldaOK, ResultOK, MemOK
  <2>2. StmtsOK'
    BY <1>6 DEF StmtsOK
  <2>3. RestOK'
    BY <1>1, <1>2, <1>7 DEF RestOK, CallType
  <2> QED
    BY <2>1, <2>2, <2>3
<1>10. BindingsSettled'
  BY <1>2, <1>5, <1>6 DEF BindingsSettled
<1>11. Ages'
  BY <1>1, <1>2, <1>7 DEF Ages
<1>12. Copied'
  <2>1. \A t \in Stmts : Undisturbed(t)' /\ ~latest'.rebound /\ pos' > 0 =>
            stmt'[t] = stmt[t] /\ Undisturbed(t) /\ ~latest.rebound /\ pos > 0
    BY <1>1, <1>6, <1>7, <1>8 DEF Undisturbed, AtStart
  <2>2. sqlda' = sqlda /\ pos' = pos /\ Copied
    BY <1>1, <1>2
  <2> QED
    BY <2>1, <2>2 DEF Copied
<1>13. RowsInOrder'
  <2>1. Stuck' <=> Stuck
    BY <1>1 DEF Stuck
  <2> QED
    BY <1>1, <1>2, <1>6, <1>7, <1>8, <2>1 DEF RowsInOrder
<1>14. PointersLive'
  BY <1>1, <1>2, <1>8 DEF PointersLive
<1>15. NoForeignBuffer'
  <2> SUFFICES ASSUME ~latest.shared, sqlda.exec = latest.exec,
                      NEW k \in DOMAIN sqlda.cols,
                      sqlda.cols[k].bind \in Buffers, stmt'[latest.stmt].active
               PROVE  \E i \in 1..Len(stmt'[latest.stmt].binds) :
                         stmt'[latest.stmt].binds[i] = [col |-> k, buf |-> sqlda.cols[k].bind]
    BY <1>1, <1>7 DEF NoForeignBuffer
  <2>1. latest.stmt \in Stmts
    <3>1. sqlda.cols # <<>>
      OBVIOUS
    <3> QED
      BY <1>2, <3>1 DEF Ages
  <2>2. PICK i \in 1..Len(stmt[latest.stmt].binds) :
            stmt[latest.stmt].binds[i] = [col |-> k, buf |-> sqlda.cols[k].bind]
    BY <1>2, <1>6, <2>1 DEF NoForeignBuffer
  <2>3. CASE latest.stmt # s
    BY <1>6, <2>1, <2>2, <2>3
  <2>4. CASE latest.stmt = s
    <3>1. Len(stmt[s].binds) \in Nat
      BY <1>4, SequenceDomain
    <3>2. i \in 1..Len(stmt'[s].binds) /\ stmt'[s].binds[i] = stmt[s].binds[i]
      BY <1>3, <1>4, <1>6, <2>2, <2>4, <3>1, Appending
    <3> QED
      BY <2>2, <2>4, <3>2
  <2> QED
    BY <2>3, <2>4
<1>16. FetchFillsBuffers'
  BY <1>1 DEF FetchFillsBuffers
<1> QED
  BY <1>9, <1>10, <1>11, <1>12, <1>13, <1>14, <1>15, <1>16 DEF CInv

LEMMA FreeStmtKeeps ==
    ASSUME CInv, NEW s \in Stmts, SQLFreeStmt(s)
    PROVE  CInv'
<1>1. /\ stmt' = [stmt EXCEPT ![s] = FreshStmt]
      /\ call' = [op |-> "none", stmt |-> "none", ret |-> "SUCCESS"]
      /\ UNCHANGED <<sqlca, sqlda, result, pos, place, mem, latest>>
  BY DEF SQLFreeStmt, OtherCall, Returns
<1>2. /\ PosOK /\ StmtsOK /\ SqldaOK /\ ResultOK /\ MemOK /\ RestOK
      /\ BindingsSettled /\ Ages /\ Copied
      /\ RowsInOrder /\ PointersLive /\ NoForeignBuffer
  BY DEF CInv
<1>3. FreshStmt \in StmtType /\ ~FreshStmt.active /\ Settled(FreshStmt.binds)
  BY DEF FreshStmt, StmtType, Settled
<1>4. /\ stmt' \in [Stmts -> StmtType]
      /\ stmt'[s] = FreshStmt /\ \A t \in Stmts : t # s => stmt'[t] = stmt[t]
  BY <1>1, <1>2, <1>3 DEF StmtsOK
<1>5. \A t \in Stmts : stmt'[t].active => stmt'[t] = stmt[t]
  BY <1>3, <1>4
<1>6. \A t \in Stmts : Undisturbed(t)' => Undisturbed(t) /\ stmt'[t] = stmt[t]
  BY <1>1, <1>5 DEF Undisturbed
<1>7. PosOK' /\ StmtsOK' /\ SqldaOK' /\ ResultOK' /\ MemOK' /\ RestOK'
  <2>1. PosOK' /\ SqldaOK' /\ ResultOK' /\ MemOK' /\ StmtsOK'
    BY <1>1, <1>2, <1>4 DEF PosOK, SqldaOK, ResultOK, MemOK, StmtsOK
  <2>2. RestOK'
    BY <1>1, <1>2 DEF RestOK, CallType
  <2> QED
    BY <2>1, <2>2
<1>8. BindingsSettled' /\ Ages'
  BY <1>1, <1>2, <1>3, <1>4 DEF BindingsSettled, Ages
<1>9. Copied'
  BY <1>1, <1>2, <1>6 DEF Copied
<1>10. RowsInOrder'
  <2>1. Stuck' <=> Stuck
    BY <1>1 DEF Stuck
  <2> QED
    BY <1>1, <1>2, <1>6, <2>1 DEF RowsInOrder
<1>11. PointersLive'
  BY <1>1, <1>2, <1>6 DEF PointersLive
<1>12. NoForeignBuffer'
  <2>1. sqlda.cols # <<>> /\ stmt'[latest.stmt].active => stmt'[latest.stmt] = stmt[latest.stmt]
    BY <1>2, <1>5 DEF Ages
  <2>2. \A k \in DOMAIN sqlda.cols : sqlda.cols # <<>>
    OBVIOUS
  <2> QED
    BY <1>1, <1>2, <2>1, <2>2 DEF NoForeignBuffer
<1>13. FetchFillsBuffers'
  BY <1>1 DEF FetchFillsBuffers
<1> QED
  BY <1>7, <1>8, <1>9, <1>10, <1>11, <1>12, <1>13 DEF CInv

-----------------------------------------------------------------------------
(* Executing.                                                              *)

\* A new description has no values and none of the application's buffers; the
\* old one may have lost bindings, but its columns are those it had
Described(p, da) ==
    /\ da \in [exec : Nat, cols : Seq(Column)]
    /\ Describes(p) =>
          /\ da.exec = latest.exec + 1
          /\ \A c \in DOMAIN da.cols : ~da.cols[c].has /\ da.cols[c].bind \notin Buffers
    /\ ~Describes(p) =>
          /\ da.exec = sqlda.exec /\ DOMAIN da.cols = DOMAIN sqlda.cols
          /\ \A c \in DOMAIN da.cols : /\ da.cols[c].has = sqlda.cols[c].has
                                       /\ da.cols[c].cur = sqlda.cols[c].cur

LEMMA OpenRepliesAre ==
    ASSUME NEW p \in PrepareReplies, NEW o \in OpenReplies(p)
    PROVE  /\ o.kind = "rows" => /\ Describes(p) /\ o.rows \in Seq(RowKinds)
                                 /\ Len(o.rows) <= MaxRows
           /\ o = NoRows => o.kind = "none"
<1>1. ASSUME o.kind = "rows"
      PROVE  Describes(p) /\ o.rows \in Seq(RowKinds) /\ Len(o.rows) <= MaxRows
  <2>1. Describes(p) /\ o.rows \in Blocks
    BY <1>1 DEF OpenReplies, NoRows, Describes
  <2>2. PICK n \in 1..MaxRows : o.rows \in [1..n -> RowKinds]
    BY <2>1 DEF Blocks
  <2> QED
    BY <2>1, <2>2, FunctionIsSequence, BoundsAssumption
<1> QED
  BY <1>1 DEF NoRows

LEMMA FreshColumns ==
    /\ FreshColumn \in Column /\ ~FreshColumn.has /\ FreshColumn.bind \notin Buffers
    /\ \A col \in Column : LET two == [col EXCEPT !.bind = BoundData] IN
          two \in Column /\ two.has = col.has /\ two.cur = col.cur /\ two.bind \notin Buffers
BY BuffersAssumption DEF FreshColumn, Column, NoRow, NoBuffer, BoundData

LEMMA PreparingDescribes ==
    ASSUME SqldaOK, RestOK, NEW p \in PrepareReplies
    PROVE  Described(p, SqldaAfter(p))
<1>1. CASE ~Describes(p)
  BY <1>1 DEF Described, SqldaAfter, SqldaOK
<1>2. CASE Describes(p)
  <2>1. p.n \in Nat
    BY <1>2, NumColsAssumption DEF PrepareReplies, Describes
  <2> DEFINE cols == [c \in 1..p.n |-> FreshColumn]
  <2>2. cols \in [1..p.n -> Column]
    BY FreshColumns
  <2>3. cols \in Seq(Column) /\ DOMAIN cols = 1..p.n
    BY <2>1, <2>2, FunctionIsSequence
  <2>4. \A c \in DOMAIN cols : cols[c] = FreshColumn
    OBVIOUS
  <2>5. latest.exec + 1 \in Nat
    BY DEF RestOK, LatestType
  <2>6. SqldaAfter(p) = [exec |-> latest.exec + 1, cols |-> cols]
    BY <1>2 DEF SqldaAfter
  <2> HIDE DEF cols
  <2> QED
    BY <1>2, <2>3, <2>4, <2>5, <2>6, FreshColumns DEF Described
<1> QED
  BY <1>1, <1>2

LEMMA BindingTwoDescribes ==
    ASSUME NEW p, NEW da, Described(p, da)
    PROVE  Described(p, BindsTwo(da))
<1> DEFINE col(c) == IF c <= 2 THEN [da.cols[c] EXCEPT !.bind = BoundData] ELSE da.cols[c]
           cols == [c \in DOMAIN da.cols |-> col(c)]
<1>1. da.cols \in Seq(Column) /\ da.exec \in Nat
  BY DEF Described
<1>2. /\ Len(da.cols) \in Nat /\ DOMAIN da.cols = 1..Len(da.cols)
      /\ \A c \in DOMAIN da.cols : da.cols[c] \in Column
  BY <1>1, SequenceDomain
<1>3. \A c \in DOMAIN da.cols : /\ col(c) \in Column
                                /\ col(c).has = da.cols[c].has /\ col(c).cur = da.cols[c].cur
                                /\ da.cols[c].bind \notin Buffers => col(c).bind \notin Buffers
  BY <1>2, FreshColumns
<1>4. cols \in [1..Len(da.cols) -> Column]
  BY <1>2, <1>3
<1>5. cols \in Seq(Column) /\ DOMAIN cols = DOMAIN da.cols
  BY <1>2, <1>4, FunctionIsSequence
<1>6. BindsTwo(da) = [exec |-> da.exec, cols |-> cols]
  <2>1. da \in [exec : Nat, cols : Seq(Column)]
    BY DEF Described
  <2>2. BindsTwo(da) = [da EXCEPT !.cols = cols]
    BY DEF BindsTwo
  <2> QED
    BY <2>1, <2>2
<1>7. \A c \in DOMAIN da.cols : cols[c] = col(c)
  OBVIOUS
<1> HIDE DEF cols, col
<1> QED
  BY <1>1, <1>3, <1>5, <1>6, <1>7 DEF Described

\* Whatever the outcome of an execution
Executing(s, p, o) ==
    /\ Described(p, sqlda')
    /\ result' = ResultAfter(o)
    /\ Executed(s, o)
    /\ stmt' \in [Stmts -> StmtType]
    /\ \A t \in Stmts : stmt'[t].binds = stmt[t].binds
    /\ o.kind = "rows" => pos' = 0 /\ stmt'[s].rowcount = 0
    /\ \/ pos' = 0 /\ place' = "row"
       \/ pos' = pos /\ place' = place /\ result' = result
    /\ call' \in CallType /\ call'.op = "execute"
    /\ sqlca' \in {"none", "ok", "error"} /\ mem' = mem

LEMMA ExecuteExecutes ==
    ASSUME CInv, NEW s \in Stmts, NEW p \in PrepareReplies, NEW o \in OpenReplies(p),
           SQLExecute(s, p, o)
    PROVE  Executing(s, p, o)
<1>1. StmtsOK /\ SqldaOK /\ ResultOK /\ RestOK
  BY DEF CInv
<1>2. Described(p, SqldaAfter(p)) /\ Described(p, BindsTwo(SqldaAfter(p)))
  BY <1>1, PreparingDescribes, BindingTwoDescribes
<1>3. sqlca' \in {"none", "ok", "error"} /\ mem' = mem /\ Executed(s, o)
  <2>1. SqlcaAfter(p) \in {"none", "ok", "error"}
    BY <1>1 DEF SqlcaAfter, PrepareReplies, RestOK
  <2> QED
    BY <2>1 DEF SQLExecute
<1>4. \A r \in {"SUCCESS", "ERROR", "crash"} :
          Returns("execute", s, r) => call' \in CallType /\ call'.op = "execute"
  BY DEF Returns, CallType
<1>5. o = NoRows => o.kind # "rows" /\ ResultAfter(o) = result
  BY DEF NoRows, ResultAfter
<1>6. \A t \in Stmts : stmt[t] \in StmtType
  BY <1>1 DEF StmtsOK
<1>7. CASE PrepareFails(p) /\ o = NoRows /\ sqlda' = SqldaAfter(p)
           /\ stmt' = [stmt EXCEPT ![s].active = FALSE]
           /\ Returns("execute", s, "ERROR") /\ UNCHANGED <<result, pos, place>>
  <2>1. stmt' \in [Stmts -> StmtType] /\ \A t \in Stmts : stmt'[t].binds = stmt[t].binds
    BY <1>1, <1>7 DEF StmtsOK, StmtType
  <2> QED
    BY <1>2, <1>3, <1>4, <1>5, <1>7, <2>1 DEF Executing
<1>8. CASE o = NoRows /\ sqlda' = SqldaAfter(p)
           /\ Returns("execute", s, "crash") /\ UNCHANGED <<stmt, result, pos, place>>
  <2>1. stmt' \in [Stmts -> StmtType] /\ \A t \in Stmts : stmt'[t].binds = stmt[t].binds
    BY <1>1, <1>8 DEF StmtsOK
  <2> QED
    BY <1>2, <1>3, <1>4, <1>5, <1>8, <2>1 DEF Executing
<1>9. CASE sqlda' = BindsTwo(SqldaAfter(p)) /\ result' = ResultAfter(o)
           /\ o.kind = "failed" /\ stmt' = [stmt EXCEPT ![s].active = FALSE]
           /\ Returns("execute", s, "ERROR") /\ UNCHANGED <<pos, place>>
  <2>1. stmt' \in [Stmts -> StmtType] /\ \A t \in Stmts : stmt'[t].binds = stmt[t].binds
    BY <1>1, <1>9 DEF StmtsOK, StmtType
  <2>2. result' = result /\ o.kind # "rows"
    BY <1>9 DEF ResultAfter
  <2> QED
    BY <1>2, <1>3, <1>4, <1>9, <2>1, <2>2 DEF Executing
<1>10. CASE sqlda' = BindsTwo(SqldaAfter(p)) /\ result' = ResultAfter(o)
            /\ stmt' = [stmt EXCEPT ![s].active = TRUE, ![s].rowcount = 0]
            /\ Returns("execute", s, "SUCCESS") /\ pos' = PosAfterExecute
            /\ place' = "row"
  <2>1. /\ stmt' \in [Stmts -> StmtType] /\ stmt'[s].rowcount = 0
        /\ \A t \in Stmts : stmt'[t].binds = stmt[t].binds
    BY <1>1, <1>10 DEF StmtsOK, StmtType
  <2>2. pos' = 0
    BY <1>10 DEF PosAfterExecute
  <2> QED
    BY <1>2, <1>3, <1>4, <1>10, <2>1, <2>2 DEF Executing
<1> QED
  BY <1>7, <1>8, <1>9, <1>10 DEF SQLExecute

LEMMA ExecuteKeeps ==
    ASSUME CInv, NEW s \in Stmts, NEW p \in PrepareReplies, NEW o \in OpenReplies(p),
           SQLExecute(s, p, o)
    PROVE  CInv'
<1>1. /\ PosOK /\ SqldaOK /\ ResultOK /\ MemOK /\ RestOK
      /\ BindingsSettled /\ Ages /\ PointersLive
  BY DEF CInv
<1>2. Executing(s, p, o)
  BY ExecuteExecutes
<1>3. /\ latest' = [exec |-> latest.exec + 1, stmt |-> s, fresh |-> o.kind = "rows",
                    seen |-> <<>>, shared |-> FALSE, rebound |-> FALSE]
      /\ latest.exec \in Nat
  BY <1>1, <1>2 DEF Executing, Executed, RestOK, LatestType
<1>4. /\ latest'.exec = latest.exec + 1 /\ latest'.stmt = s /\ latest'.seen = <<>>
      /\ latest'.fresh <=> o.kind = "rows"
  BY <1>3
<1>5. o.kind = "rows" => /\ Describes(p) /\ o.rows \in Seq(RowKinds)
                         /\ Len(o.rows) <= MaxRows
                         /\ result' = [exec |-> latest.exec + 1, rows |-> o.rows]
  BY <1>2, OpenRepliesAre DEF Executing, ResultAfter
<1>6. o.kind # "rows" => result' = result
  BY <1>2 DEF Executing, ResultAfter
<1>7. ResultOK'
  BY <1>1, <1>3, <1>5, <1>6 DEF ResultOK
<1>8. Len(result'.rows) \in Nat
  BY <1>7, SequenceDomain DEF ResultOK
<1>9. PosOK'
  BY <1>1, <1>2, <1>8 DEF PosOK, Executing
<1>10. StmtsOK' /\ SqldaOK' /\ MemOK' /\ BindingsSettled'
  BY <1>1, <1>2 DEF StmtsOK, SqldaOK, MemOK, BindingsSettled, Executing, Described
<1>11. RestOK'
  <2>1. latest' \in LatestType
    BY <1>3 DEF LatestType
  <2> QED
    BY <1>2, <2>1 DEF RestOK, Executing, CallType
<1>12. /\ sqlda'.exec \in Nat
       /\ Describes(p) => sqlda'.exec = latest.exec + 1
       /\ ~Describes(p) => sqlda'.exec = sqlda.exec
  BY <1>2 DEF Executing, Described
<1>13. Ages'
  <2>1. sqlda'.exec <= latest'.exec
    BY <1>1, <1>3, <1>4, <1>12 DEF Ages, SqldaOK
  <2>2. result'.exec <= latest'.exec
    BY <1>1, <1>3, <1>4, <1>5, <1>6 DEF Ages, ResultOK
  <2>3. latest'.fresh => sqlda'.exec = latest'.exec /\ result'.exec = latest'.exec
    BY <1>4, <1>5, <1>12
  <2>4. Len(result'.rows) <= MaxRows
    BY <1>1, <1>5, <1>6 DEF Ages
  <2>5. ASSUME place' # "row"
        PROVE  sqlda'.exec # result'.exec
    <3>1. place # "row" /\ result' = result
      BY <1>2, <2>5 DEF Executing
    <3>2. sqlda.exec # result.exec /\ result.exec <= latest.exec /\ result.exec \in Nat
      BY <1>1, <3>1 DEF Ages, ResultOK
    <3> QED
      BY <1>3, <1>12, <3>1, <3>2
  <2> QED
    BY <1>4, <2>1, <2>2, <2>3, <2>4, <2>5 DEF Ages
<1>14. \A t \in Stmts : Undisturbed(t)' =>
          o.kind = "rows" /\ t = s /\ pos' = 0 /\ stmt'[s].rowcount = 0
  BY <1>2, <1>4 DEF Undisturbed, Executing
<1>15. Copied'
  BY <1>14 DEF Copied
<1>16. RowsInOrder'
  <2>1. latest'.seen = [i \in 1..0 |-> <<latest'.exec, i>>]
    BY <1>4
  <2> QED
    BY <1>14, <2>1 DEF RowsInOrder
<1>17. PointersLive'
  <2>1. CASE Describes(p)
    BY <1>2, <2>1 DEF PointersLive, Executing, Described
  <2>2. CASE ~Describes(p)
    <3>1. result' = result /\ \A t \in Stmts : ~Undisturbed(t)'
      BY <1>5, <1>6, <1>14, <2>2
    <3>2. DOMAIN sqlda'.cols = DOMAIN sqlda.cols
          /\ \A c \in DOMAIN sqlda'.cols : /\ sqlda'.cols[c].has = sqlda.cols[c].has
                                           /\ sqlda'.cols[c].cur = sqlda.cols[c].cur
      BY <1>2, <2>2 DEF Executing, Described
    <3> QED
      BY <1>1, <3>1, <3>2 DEF PointersLive
  <2> QED
    BY <2>1, <2>2
<1>18. NoForeignBuffer'
  <2>1. CASE Describes(p)
    BY <1>2, <2>1 DEF NoForeignBuffer, Executing, Described
  <2>2. CASE ~Describes(p)
    <3>1. sqlda'.exec # latest'.exec
      BY <1>1, <1>3, <1>4, <1>12, <2>2 DEF Ages, SqldaOK
    <3> QED
      BY <3>1 DEF NoForeignBuffer
  <2> QED
    BY <2>1, <2>2
<1>19. FetchFillsBuffers'
  BY <1>2 DEF FetchFillsBuffers, Executing
<1> QED
  BY <1>7, <1>9, <1>10, <1>11, <1>13, <1>15, <1>16, <1>17, <1>18, <1>19 DEF CInv

-----------------------------------------------------------------------------
(* Fetching.                                                               *)

\* Whatever a fetch returns
Fetching(s) ==
    /\ stmt[s].active
    /\ sqlda' \in [exec : Nat, cols : Seq(Column)] /\ sqlda'.exec = sqlda.exec
    /\ DOMAIN sqlda'.cols = DOMAIN sqlda.cols
    /\ \A c \in DOMAIN sqlda.cols : sqlda'.cols[c].bind = BoundColumns(s)[c].bind
    /\ result' = result /\ sqlca' = sqlca
    /\ latest' \in LatestType
    /\ latest'.exec = latest.exec /\ latest'.stmt = latest.stmt
    /\ latest'.fresh = latest.fresh /\ latest'.rebound = latest.rebound
    /\ latest'.shared <=> latest.shared \/ s # latest.stmt
    /\ stmt' \in [Stmts -> StmtType]
    /\ \A t \in Stmts : stmt'[t].binds = stmt[t].binds /\ stmt'[t].active = stmt[t].active
    /\ mem' \in [Buffers -> CellType]
    /\ call' \in CallType /\ call'.stmt = s
    /\ pos' \in 0..Len(result.rows) /\ place' \in {"row"} \cup Insides
    /\ sqlda.exec = result.exec => place' = "row"

LEMMA FetchingUndisturbed ==
    ASSUME NEW s \in Stmts, Fetching(s)
    PROVE  \A t \in Stmts : Undisturbed(t)' => t = s /\ Undisturbed(s)
BY DEF Fetching, Undisturbed

LEMMA FetchingKeeps ==
    ASSUME CInv, NEW s \in Stmts, Fetching(s)
    PROVE  /\ PosOK' /\ StmtsOK' /\ SqldaOK' /\ ResultOK' /\ MemOK' /\ RestOK'
           /\ BindingsSettled' /\ Ages' /\ Copied' /\ NoForeignBuffer'
<1>1. /\ StmtsOK /\ SqldaOK /\ ResultOK /\ RestOK /\ PosOK
      /\ BindingsSettled /\ Ages /\ Copied /\ NoForeignBuffer
  BY DEF CInv
<1>2. /\ \A c \in DOMAIN sqlda.cols :
            BoundColumns(s)[c].bind # sqlda.cols[c].bind =>
                \E i \in 1..Len(stmt[s].binds) :
                    stmt[s].binds[i] = [col |-> c, buf |-> BoundColumns(s)[c].bind]
      /\ AtStart => \A i \in 1..Len(stmt[s].binds), c \in DOMAIN sqlda.cols :
            IsLast(stmt[s].binds, i) /\ stmt[s].binds[i].col = c =>
                BoundColumns(s)[c].bind = stmt[s].binds[i].buf
      /\ ~AtStart => BoundColumns(s) = sqlda.cols
  BY <1>1, BindingColumns
<1>3. StmtsOK' /\ SqldaOK' /\ ResultOK' /\ MemOK' /\ RestOK'
  BY <1>1 DEF Fetching, StmtsOK, SqldaOK, ResultOK, MemOK, RestOK
<1>4. PosOK'
  BY DEF Fetching, PosOK
<1>5. BindingsSettled'
  BY <1>1 DEF Fetching, BindingsSettled
<1>6. Ages'
  <2>1. sqlda'.cols # <<>> => sqlda.cols # <<>>
    <3>1. sqlda.cols \in Seq(Column) /\ sqlda'.cols \in Seq(Column)
      BY <1>1 DEF Fetching, SqldaOK
    <3>2. DOMAIN sqlda'.cols = DOMAIN sqlda.cols
      BY DEF Fetching
    <3> QED
      BY <3>1, <3>2, SequenceDomain
  <2> QED
    BY <1>1, <2>1 DEF Fetching, Ages
<1>7. Copied'
  <2>1. SUFFICES ASSUME Undisturbed(s), ~latest.rebound, pos' > 0,
                        NEW c \in DOMAIN sqlda.cols, NEW i \in 1..Len(stmt[s].binds),
                        IsLast(stmt[s].binds, i), stmt[s].binds[i].col = c
                 PROVE  BoundColumns(s)[c].bind = stmt[s].binds[i].buf
    BY FetchingUndisturbed DEF Copied, Fetching
  <2>2. CASE pos = 0
    <3>1. place = "row"
      BY <1>1, <2>1 DEF Undisturbed, Ages
    <3> QED
      BY <1>2, <2>1, <2>2, <3>1 DEF AtStart
  <2>3. CASE pos # 0
    <3>1. pos > 0
      BY <1>1, <2>3 DEF PosOK
    <3> QED
      BY <1>1, <1>2, <2>1, <2>3, <3>1 DEF Copied, AtStart
  <2> QED
    BY <2>2, <2>3
<1>8. NoForeignBuffer'
  <2>0. /\ stmt[s].active /\ sqlda'.exec = sqlda.exec
        /\ DOMAIN sqlda'.cols = DOMAIN sqlda.cols
        /\ \A c \in DOMAIN sqlda.cols : sqlda'.cols[c].bind = BoundColumns(s)[c].bind
        /\ latest'.exec = latest.exec /\ latest'.stmt = latest.stmt
        /\ latest'.shared <=> latest.shared \/ s # latest.stmt
        /\ stmt'[s].binds = stmt[s].binds
    BY DEF Fetching
  <2>1. SUFFICES ASSUME ~latest.shared, s = latest.stmt, sqlda.exec = latest.exec,
                        NEW c \in DOMAIN sqlda.cols, BoundColumns(s)[c].bind \in Buffers
                 PROVE  \E i \in 1..Len(stmt[s].binds) :
                           stmt[s].binds[i] = [col |-> c, buf |-> BoundColumns(s)[c].bind]
    BY <2>0 DEF NoForeignBuffer
  <2>2. stmt[s].active
    BY DEF Fetching
  <2>3. CASE BoundColumns(s)[c].bind = sqlda.cols[c].bind
    BY <1>1, <2>1, <2>2, <2>3 DEF NoForeignBuffer
  <2>4. CASE BoundColumns(s)[c].bind # sqlda.cols[c].bind
    BY <1>2, <2>4
  <2> QED
    BY <2>3, <2>4
<1> QED
  BY <1>3, <1>4, <1>5, <1>6, <1>7, <1>8

\* Counting and recording a row
LEMMA CountedRow ==
    ASSUME StmtsOK, RestOK, NEW s \in Stmts, Counted(s)
    PROVE  /\ stmt' \in [Stmts -> StmtType]
           /\ \A t \in Stmts : /\ stmt'[t].binds = stmt[t].binds
                               /\ stmt'[t].active = stmt[t].active
           /\ stmt'[s].rowcount = IF stmt[s].rowcount > MaxRows THEN stmt[s].rowcount
                                                                ELSE stmt[s].rowcount + 1
BY DEF StmtsOK, StmtType, Counted

LEMMA SharedOrNot ==
    ASSUME RestOK, NEW s \in Stmts, latest' = [latest EXCEPT !.shared = @ \/ s # latest.stmt]
    PROVE  /\ latest' \in LatestType
           /\ latest'.exec = latest.exec /\ latest'.stmt = latest.stmt
           /\ latest'.fresh = latest.fresh /\ latest'.rebound = latest.rebound
           /\ latest'.seen = latest.seen
           /\ latest'.shared <=> latest.shared \/ s # latest.stmt
BY DEF RestOK, LatestType

LEMMA SeenRow ==
    ASSUME RestOK, NEW s \in Stmts, NEW row \in Nat \X Nat, SeenBy(s, row)
    PROVE  /\ latest' \in LatestType
           /\ latest'.exec = latest.exec /\ latest'.stmt = latest.stmt
           /\ latest'.fresh = latest.fresh /\ latest'.rebound = latest.rebound
           /\ latest'.shared <=> latest.shared \/ s # latest.stmt
           /\ latest.seen \in Seq(Nat \X Nat)
           /\ s = latest.stmt => latest'.seen = Append(latest.seen, row)
<1>1. latest \in LatestType /\ latest.seen \in Seq(Nat \X Nat)
  BY DEF RestOK, LatestType
<1>2. Append(latest.seen, row) \in Seq(Nat \X Nat)
  BY <1>1, Appending
<1>3. latest' = [latest EXCEPT !.seen = IF s = latest.stmt THEN Append(latest.seen, row)
                                        ELSE latest.seen,
                               !.shared = latest.shared \/ s # latest.stmt]
  BY DEF SeenBy
<1> QED
  BY <1>1, <1>2, <1>3 DEF LatestType

LEMMA FetchReturns ==
    \A s \in Stmts : \A r \in {"SUCCESS", "NO_DATA"} :
        Returns("fetch", s, r) => call' \in CallType /\ call'.stmt = s
BY DEF Returns, CallType

LEMMA SeenGrows ==
    ASSUME NEW n \in Nat, NEW e
    PROVE  Append([i \in 1..n |-> <<e, i>>], <<e, n + 1>>) = [i \in 1..(n + 1) |-> <<e, i>>]
OBVIOUS

LEMMA FetchRowKeeps ==
    ASSUME CInv, NEW s \in Stmts, stmt[s].active, pos < Len(result.rows), FetchRow(s),
           Counted(s), sqlca' = sqlca, result' = result
    PROVE  CInv'
<1> DEFINE row == <<result.exec, pos + 1>>
           kind == result.rows[pos + 1]
           cols == BoundColumns(s)
           new == DecodedColumns(cols, row, kind)
<1>1. /\ StmtsOK /\ SqldaOK /\ ResultOK /\ RestOK /\ PosOK /\ MemOK
      /\ BindingsSettled /\ Ages /\ RowsInOrder
  BY DEF CInv
<1>2. /\ ~Stuck /\ kind # "sqlca" /\ sqlda.exec = result.exec
      /\ sqlda' = [sqlda EXCEPT !.cols = new] /\ mem' = DecodedMemory(cols, row, kind)
      /\ pos' = pos + 1 /\ place' = "row" /\ SeenBy(s, row)
  <2>1. kind # "sqlca"
    BY DEF FetchRow, Stuck
  <2> QED
    BY <2>1 DEF FetchRow, Advance
<1>3. result.exec \in Nat /\ pos \in Nat /\ pos' \in 0..Len(result.rows) /\ pos <= MaxRows
  <2>1. Len(result.rows) \in Nat
    BY <1>1, SequenceDomain DEF ResultOK
  <2>2. result.exec \in Nat /\ Len(result.rows) <= MaxRows
    BY <1>1 DEF ResultOK, Ages
  <2>3. pos \in Nat /\ pos' \in 0..Len(result.rows)
    BY <1>1, <1>2, <2>1 DEF PosOK
  <2> QED
    BY <2>1, <2>2, <2>3, BoundsAssumption
<1>4. row \in Nat \X Nat
  BY <1>3
<1>5. cols \in Seq(Column) /\ DOMAIN cols = DOMAIN sqlda.cols
  BY <1>1, BindingColumns
<1> HIDE DEF cols, row, kind, new
<1>6. /\ new \in Seq(Column) /\ DOMAIN new = DOMAIN sqlda.cols
      /\ \A c \in DOMAIN new : new[c].bind = cols[c].bind /\ (new[c].has => new[c].cur = row)
  BY <1>4, <1>5, DecodingColumns DEF new
<1>7. sqlda' \in [exec : Nat, cols : Seq(Column)] /\ sqlda'.exec = sqlda.exec
      /\ sqlda'.cols = new
  BY <1>1, <1>2, <1>6 DEF SqldaOK
<1>8. /\ mem' \in [Buffers -> CellType]
      /\ \A b \in Buffers, c \in DOMAIN cols : cols[c].bind = b =>
            mem'[b].val = row /\ (~mem'[b].null => mem'[b].len = row)
  <2> DEFINE filled == DecodedMemory(cols, row, kind)
  <2>1. MemOK /\ row \in Nat \X Nat
    BY <1>1, <1>4
  <2>2. filled \in [Buffers -> CellType]
    BY <2>1, DecodingMemory
  <2>3. \A b \in Buffers, c \in DOMAIN cols : cols[c].bind = b =>
              filled[b].val = row /\ (~filled[b].null => filled[b].len = row)
    BY <2>1, DecodingMemory
  <2>4. mem' = filled
    BY <1>2
  <2> HIDE DEF filled
  <2> QED
    BY <2>2, <2>3, <2>4
<1>9. Fetching(s)
  <2>1. /\ stmt' \in [Stmts -> StmtType]
        /\ \A t \in Stmts : stmt'[t].binds = stmt[t].binds /\ stmt'[t].active = stmt[t].active
    BY <1>1, CountedRow
  <2>2. /\ latest' \in LatestType
        /\ latest'.exec = latest.exec /\ latest'.stmt = latest.stmt
        /\ latest'.fresh = latest.fresh /\ latest'.rebound = latest.rebound
        /\ latest'.shared <=> latest.shared \/ s # latest.stmt
    BY <1>1, <1>2, <1>4, SeenRow
  <2>3. call' \in CallType /\ call'.stmt = s
    BY FetchReturns DEF FetchRow
  <2> QED
    BY <1>2, <1>3, <1>6, <1>7, <1>8, <2>1, <2>2, <2>3 DEF Fetching, cols
<1>10. /\ PosOK' /\ StmtsOK' /\ SqldaOK' /\ ResultOK' /\ MemOK' /\ RestOK'
       /\ BindingsSettled' /\ Ages' /\ Copied' /\ NoForeignBuffer'
  BY <1>9, FetchingKeeps
<1>11. Undisturbed(s) => result.exec = latest.exec /\ latest.stmt = s
  BY <1>1 DEF Undisturbed, Ages
<1>12. row = <<result.exec, pos + 1>> /\ row[1] = result.exec /\ row[2] = pos'
  BY <1>2 DEF row
<1>13. RowsInOrder'
  <2>1. SUFFICES ASSUME Undisturbed(s)
                 PROVE  latest'.seen = [i \in 1..pos' |-> <<latest.exec, i>>]
                        /\ stmt'[s].rowcount = pos'
    BY <1>3, <1>9, FetchingUndisturbed DEF RowsInOrder, Fetching
  <2>2. ~Stuck
    BY <1>2
  <2>3. latest.seen = [i \in 1..pos |-> <<latest.exec, i>>] /\ stmt[s].rowcount = pos
    BY <1>1, <2>1, <2>2 DEF RowsInOrder
  <2>4. latest'.seen = Append(latest.seen, <<latest.exec, pos + 1>>)
    BY <1>1, <1>2, <1>4, <1>11, <1>12, <2>1, SeenRow
  <2>5. latest'.seen = [i \in 1..pos' |-> <<latest.exec, i>>]
    BY <1>2, <1>3, <2>3, <2>4, SeenGrows
  <2>6. stmt'[s].rowcount = pos'
    BY <1>1, <1>2, <1>3, <2>3, CountedRow, BoundsAssumption
  <2> QED
    BY <2>5, <2>6
<1>14. PointersLive'
  BY <1>6, <1>7, <1>12 DEF PointersLive
<1>15. FetchFillsBuffers'
  <2>1. SUFFICES ASSUME Undisturbed(s)', ~latest'.rebound, call'.stmt = s,
                        NEW c \in DOMAIN new, NEW b \in Buffers, BoundTo(s, c, b)'
                 PROVE  mem'[b].val = <<latest'.exec, pos'>>
                        /\ (~mem'[b].null => mem'[b].len = mem'[b].val)
    BY <1>7, <1>9 DEF FetchFillsBuffers, Fetching
  <2>2. PICK i \in 1..Len(stmt'[s].binds) :
            /\ stmt'[s].binds[i] = [col |-> c, buf |-> b]
            /\ \A j \in (i + 1)..Len(stmt'[s].binds) : stmt'[s].binds[j].col # c
    BY <2>1 DEF BoundTo
  <2>3. Len(stmt'[s].binds) \in Nat
    BY <1>10, SequenceDomain DEF StmtsOK, StmtType
  <2>4. IsLast(stmt'[s].binds, i)
    BY <2>2, <2>3 DEF IsLast
  <2>5. sqlda'.cols[c].bind = b
    <3>1. pos' > 0
      BY <1>2, <1>3
    <3>2. /\ Copied' /\ Undisturbed(s)' /\ ~latest'.rebound /\ c \in DOMAIN sqlda'.cols
          /\ stmt'[s].binds[i].col = c /\ stmt'[s].binds[i].buf = b
      BY <1>7, <1>10, <2>1, <2>2
    <3> QED
      BY <2>4, <3>1, <3>2 DEF Copied
  <2>6. cols[c].bind = b
    BY <1>6, <1>7, <2>5
  <2>7. mem'[b].val = row /\ (~mem'[b].null => mem'[b].len = row)
    BY <1>5, <1>6, <1>8, <2>6
  <2>8. row = <<latest'.exec, pos'>>
    BY <1>2, <1>9, <1>11, <1>12, <2>1, FetchingUndisturbed DEF Fetching
  <2> QED
    BY <2>7, <2>8
<1> QED
  BY <1>10, <1>13, <1>14, <1>15 DEF CInv

LEMMA FetchMisreadKeeps ==
    ASSUME CInv, NEW s \in Stmts, stmt[s].active, pos < Len(result.rows), FetchMisread(s),
           Counted(s), sqlca' = sqlca, result' = result
    PROVE  CInv'
<1> DEFINE row == <<result.exec, 0>>
           cols == BoundColumns(s)
           new == DecodedColumns(cols, row, "value")
<1>1. /\ StmtsOK /\ SqldaOK /\ ResultOK /\ RestOK /\ PosOK /\ MemOK
      /\ BindingsSettled /\ Ages
  BY DEF CInv
<1>2. /\ sqlda.exec # result.exec
      /\ sqlda' = [sqlda EXCEPT !.cols = new] /\ mem' = DecodedMemory(cols, Garbage, "value")
      /\ SeenBy(s, Garbage)
  BY <1>1 DEF FetchMisread, Misreads, Ages
<1>3. /\ result.exec \in Nat /\ pos \in Nat
      /\ pos' \in 0..Len(result.rows) /\ place' \in {"row"} \cup Insides
  <2>1. Len(result.rows) \in Nat
    BY <1>1, SequenceDomain DEF ResultOK
  <2>2. result.exec \in Nat
    BY <1>1 DEF ResultOK
  <2>3. PICK at \in Landings : pos' = at[1] /\ place' = at[2]
    BY DEF FetchMisread
  <2>4. pos \in Nat
    BY <1>1, <2>1 DEF PosOK
  <2>5. at[1] \in 0..Len(result.rows) /\ at[2] \in {"row"} \cup Insides
    BY <2>1, <2>4 DEF Landings
  <2> QED
    BY <2>2, <2>3, <2>4, <2>5
<1>4. row \in Nat \X Nat /\ Garbage \in Nat \X Nat
  BY <1>3 DEF Garbage
<1>5. cols \in Seq(Column) /\ DOMAIN cols = DOMAIN sqlda.cols
  BY <1>1, BindingColumns
<1>6. row[1] = result.exec
  OBVIOUS
<1> HIDE DEF cols, row, new
<1>7. /\ new \in Seq(Column) /\ DOMAIN new = DOMAIN sqlda.cols
      /\ \A c \in DOMAIN new : new[c].bind = cols[c].bind /\ (new[c].has => new[c].cur = row)
  BY <1>4, <1>5, DecodingColumns DEF new
<1>8. sqlda' \in [exec : Nat, cols : Seq(Column)] /\ sqlda'.exec = sqlda.exec
      /\ sqlda'.cols = new
  BY <1>1, <1>2, <1>7 DEF SqldaOK
<1>9. mem' \in [Buffers -> CellType]
  BY <1>1, <1>2, <1>4, DecodingMemory
<1>10. Fetching(s)
  <2>1. /\ stmt' \in [Stmts -> StmtType]
        /\ \A t \in Stmts : stmt'[t].binds = stmt[t].binds /\ stmt'[t].active = stmt[t].active
    BY <1>1, CountedRow
  <2>2. /\ latest' \in LatestType
        /\ latest'.exec = latest.exec /\ latest'.stmt = latest.stmt
        /\ latest'.fresh = latest.fresh /\ latest'.rebound = latest.rebound
        /\ latest'.shared <=> latest.shared \/ s # latest.stmt
    BY <1>1, <1>2, <1>4, SeenRow
  <2>3. call' \in CallType /\ call'.stmt = s
    BY FetchReturns DEF FetchMisread
  <2> QED
    BY <1>2, <1>3, <1>7, <1>8, <1>9, <2>1, <2>2, <2>3 DEF Fetching, cols
<1>11. /\ PosOK' /\ StmtsOK' /\ SqldaOK' /\ ResultOK' /\ MemOK' /\ RestOK'
       /\ BindingsSettled' /\ Ages' /\ Copied' /\ NoForeignBuffer'
  BY <1>10, FetchingKeeps
\* The last execution had no rows, or its description would be that of the block
<1>12. \A t \in Stmts : ~Undisturbed(t)'
  BY <1>1, <1>2, <1>10 DEF Undisturbed, Ages, Fetching
<1>13. RowsInOrder' /\ PointersLive'
  BY <1>6, <1>7, <1>8, <1>12 DEF RowsInOrder, PointersLive
<1>14. FetchFillsBuffers'
  BY <1>10, <1>12 DEF FetchFillsBuffers, Fetching
<1> QED
  BY <1>11, <1>13, <1>14 DEF CInv

\* A fetch that decodes nothing only copies the bindings
LEMMA NothingDecoded ==
    ASSUME CInv, NEW s \in Stmts, stmt[s].active,
           sqlda' = [sqlda EXCEPT !.cols = BoundColumns(s)],
           latest' = [latest EXCEPT !.shared = @ \/ s # latest.stmt],
           stmt' \in [Stmts -> StmtType],
           \A t \in Stmts : /\ stmt'[t].binds = stmt[t].binds
                            /\ stmt'[t].active = stmt[t].active,
           call' \in CallType, call'.stmt = s,
           sqlca' = sqlca, result' = result, mem' = mem, pos' = pos, place' = place
    PROVE  /\ Fetching(s) /\ PointersLive'
           /\ latest'.seen = latest.seen /\ latest'.exec = latest.exec
<1>1. /\ StmtsOK /\ SqldaOK /\ ResultOK /\ RestOK /\ PosOK /\ MemOK
      /\ BindingsSettled /\ PointersLive /\ Ages
  BY DEF CInv
<1>2. /\ BoundColumns(s) \in Seq(Column) /\ DOMAIN BoundColumns(s) = DOMAIN sqlda.cols
      /\ \A c \in DOMAIN sqlda.cols : /\ BoundColumns(s)[c].cur = sqlda.cols[c].cur
                                      /\ BoundColumns(s)[c].has = sqlda.cols[c].has
  BY <1>1, BindingColumns
<1>3. sqlda' \in [exec : Nat, cols : Seq(Column)] /\ sqlda'.exec = sqlda.exec
      /\ sqlda'.cols = BoundColumns(s)
  BY <1>1, <1>2 DEF SqldaOK
<1>4. /\ latest' \in LatestType
      /\ latest'.exec = latest.exec /\ latest'.stmt = latest.stmt
      /\ latest'.fresh = latest.fresh /\ latest'.rebound = latest.rebound
      /\ latest'.seen = latest.seen
      /\ latest'.shared <=> latest.shared \/ s # latest.stmt
  BY <1>1, SharedOrNot
<1>5. Fetching(s)
  <2>1. mem' \in [Buffers -> CellType] /\ pos' \in 0..Len(result.rows)
    BY <1>1 DEF MemOK, PosOK
  <2>2. place' \in {"row"} \cup Insides /\ (sqlda.exec = result.exec => place' = "row")
    BY <1>1 DEF PosOK, Ages
  <2> QED
    BY <1>2, <1>3, <1>4, <2>1, <2>2 DEF Fetching
<1>6. PointersLive'
  <2>1. \A t \in Stmts : Undisturbed(t)' => Undisturbed(s)
    BY <1>5, FetchingUndisturbed
  <2>2. DOMAIN sqlda'.cols = DOMAIN sqlda.cols
        /\ \A c \in DOMAIN sqlda.cols : /\ sqlda'.cols[c].cur = sqlda.cols[c].cur
                                        /\ sqlda'.cols[c].has = sqlda.cols[c].has
    BY <1>2, <1>3
  <2>3. result' = result /\ pos' = pos /\ PointersLive
    BY <1>1
  <2> QED
    BY <2>1, <2>2, <2>3 DEF PointersLive
<1> QED
  BY <1>4, <1>5, <1>6

LEMMA FetchStuckKeeps ==
    ASSUME CInv, NEW s \in Stmts, stmt[s].active, pos < Len(result.rows), FetchStuck(s),
           Counted(s), sqlca' = sqlca, result' = result
    PROVE  CInv'
<1>1. StmtsOK /\ RestOK /\ ResultOK /\ PosOK /\ RowsInOrder
  BY DEF CInv
<1>2. pos' = pos /\ place' = place
  <2>1. pos \in Nat
    <3>1. Len(result.rows) \in Nat
      BY <1>1, SequenceDomain DEF ResultOK
    <3> QED
      BY <1>1, <3>1 DEF PosOK
  <2> QED
    BY <2>1 DEF FetchStuck, Advance
<1>3. /\ stmt' \in [Stmts -> StmtType]
      /\ \A t \in Stmts : stmt'[t].binds = stmt[t].binds /\ stmt'[t].active = stmt[t].active
      /\ stmt'[s].rowcount >= stmt[s].rowcount
  <2>1. stmt[s].rowcount \in Nat
    BY <1>1 DEF StmtsOK, StmtType
  <2> QED
    BY <1>1, <2>1, CountedRow
<1>4. call' \in CallType /\ call'.stmt = s
  BY FetchReturns DEF FetchStuck
<1>5. /\ Fetching(s) /\ PointersLive'
      /\ latest'.seen = latest.seen /\ latest'.exec = latest.exec
  <2>1. /\ sqlda' = [sqlda EXCEPT !.cols = BoundColumns(s)]
        /\ latest' = [latest EXCEPT !.shared = @ \/ s # latest.stmt] /\ mem' = mem
    BY DEF FetchStuck
  <2> QED
    BY <1>2, <1>3, <1>4, <2>1, NothingDecoded
<1>6. /\ PosOK' /\ StmtsOK' /\ SqldaOK' /\ ResultOK' /\ MemOK' /\ RestOK'
      /\ BindingsSettled' /\ Ages' /\ Copied' /\ NoForeignBuffer'
  BY <1>5, FetchingKeeps
<1>7. Stuck /\ Stuck'
  BY <1>2 DEF FetchStuck, Stuck
<1>8. RowsInOrder'
  <2>1. \A t \in Stmts : Undisturbed(t)' =>
            /\ latest.seen = [i \in 1..pos |-> <<latest.exec, i>>]
            /\ t = s /\ stmt[s].rowcount >= pos
    BY <1>1, <1>5, FetchingUndisturbed DEF RowsInOrder
  <2>2. stmt[s].rowcount \in Nat /\ stmt'[s].rowcount \in Nat /\ pos \in Nat
    <3>1. Len(result.rows) \in Nat
      BY <1>1, SequenceDomain DEF ResultOK
    <3> QED
      BY <1>1, <1>3, <3>1 DEF StmtsOK, StmtType, PosOK
  <2>3. stmt[s].rowcount >= pos => stmt'[s].rowcount >= pos
    BY <1>3, <2>2
  <2> QED
    BY <1>2, <1>5, <1>7, <2>1, <2>3 DEF RowsInOrder
<1>9. FetchFillsBuffers'
  BY <1>7 DEF FetchFillsBuffers
<1> QED
  BY <1>5, <1>6, <1>8, <1>9 DEF CInv

LEMMA FetchEndKeeps ==
    ASSUME CInv, NEW s \in Stmts, stmt[s].active,
           sqlda' = [sqlda EXCEPT !.cols = BoundColumns(s)],
           latest' = [latest EXCEPT !.shared = @ \/ s # latest.stmt],
           Returns("fetch", s, "NO_DATA"), UNCHANGED <<stmt, mem, pos, place>>,
           sqlca' = sqlca, result' = result
    PROVE  CInv'
<1>1. StmtsOK /\ RowsInOrder
  BY DEF CInv
<1>2. call' \in CallType /\ call'.stmt = s /\ call'.ret = "NO_DATA"
  BY FetchReturns DEF Returns
<1>3. stmt' \in [Stmts -> StmtType] /\ stmt' = stmt /\ mem' = mem /\ pos' = pos
      /\ place' = place
  BY <1>1 DEF StmtsOK
<1>4. /\ Fetching(s) /\ PointersLive'
      /\ latest'.seen = latest.seen /\ latest'.exec = latest.exec
  BY <1>2, <1>3, NothingDecoded
<1>5. /\ PosOK' /\ StmtsOK' /\ SqldaOK' /\ ResultOK' /\ MemOK' /\ RestOK'
      /\ BindingsSettled' /\ Ages' /\ Copied' /\ NoForeignBuffer'
  BY <1>4, FetchingKeeps
<1>6. RowsInOrder'
  <2>1. \A t \in Stmts : Undisturbed(t)' =>
            /\ latest.seen = [i \in 1..pos |-> <<latest.exec, i>>]
            /\ stmt[t].rowcount >= pos /\ (~Stuck => stmt[t].rowcount = pos)
    BY <1>1, <1>4, FetchingUndisturbed DEF RowsInOrder
  <2>2. Stuck' <=> Stuck
    BY <1>3 DEF Stuck
  <2> QED
    BY <1>3, <1>4, <2>1, <2>2 DEF RowsInOrder
<1>7. FetchFillsBuffers'
  BY <1>2 DEF FetchFillsBuffers
<1> QED
  BY <1>4, <1>5, <1>6, <1>7 DEF CInv

\* A fetch that ends the client changes nothing any more
LEMMA FetchExitsKeeps ==
    ASSUME CInv, NEW s \in Stmts, FetchExits(s), sqlca' = sqlca, result' = result
    PROVE  CInv'
<1>1. /\ call' \in CallType /\ call'.ret = "crash"
      /\ UNCHANGED <<stmt, sqlca, sqlda, result, pos, place, mem, latest>>
  BY DEF FetchExits, Returns, CallType
<1>2. /\ PosOK /\ StmtsOK /\ SqldaOK /\ ResultOK /\ MemOK /\ RestOK
      /\ BindingsSettled /\ Ages /\ Copied
      /\ RowsInOrder /\ PointersLive /\ NoForeignBuffer
  BY DEF CInv
<1>3. PosOK' /\ StmtsOK' /\ SqldaOK' /\ ResultOK' /\ MemOK' /\ RestOK'
  BY <1>1, <1>2 DEF PosOK, StmtsOK, SqldaOK, ResultOK, MemOK, RestOK
<1>4. BindingsSettled' /\ Ages'
  BY <1>1, <1>2 DEF BindingsSettled, Ages
<1>5. (\A t \in Stmts : Undisturbed(t)' <=> Undisturbed(t)) /\ (Stuck' <=> Stuck)
  BY <1>1 DEF Undisturbed, Stuck
<1>6. Copied' /\ RowsInOrder' /\ PointersLive' /\ NoForeignBuffer'
  BY <1>1, <1>2, <1>5 DEF Copied, RowsInOrder, PointersLive, NoForeignBuffer
<1>7. FetchFillsBuffers'
  BY <1>1 DEF FetchFillsBuffers
<1> QED
  BY <1>3, <1>4, <1>6, <1>7 DEF CInv

LEMMA FetchKeeps ==
    ASSUME CInv, NEW s \in Stmts, SQLFetch(s)
    PROVE  CInv'
<1>1. stmt[s].active /\ sqlca' = sqlca /\ result' = result
  BY DEF SQLFetch
<1>2. CASE pos < Len(result.rows) /\ FetchRow(s) /\ Counted(s)
  BY <1>1, <1>2, FetchRowKeeps
<1>3. CASE pos < Len(result.rows) /\ FetchMisread(s) /\ Counted(s)
  BY <1>1, <1>3, FetchMisreadKeeps
<1>4. CASE pos < Len(result.rows) /\ FetchStuck(s) /\ Counted(s)
  BY <1>1, <1>4, FetchStuckKeeps
<1>5. CASE /\ sqlda' = [sqlda EXCEPT !.cols = BoundColumns(s)]
           /\ latest' = [latest EXCEPT !.shared = @ \/ s # latest.stmt]
           /\ Returns("fetch", s, "NO_DATA") /\ UNCHANGED <<stmt, mem, pos, place>>
  BY <1>1, <1>5, FetchEndKeeps
<1>6. CASE pos < Len(result.rows) /\ FetchExits(s)
  BY <1>1, <1>6, FetchExitsKeeps
<1> QED
  BY <1>2, <1>3, <1>4, <1>5, <1>6 DEF SQLFetch

LEMMA StandingStillKeeps == CInv /\ UNCHANGED vars => CInv'
<1> SUFFICES ASSUME CInv, UNCHANGED vars PROVE CInv'
  OBVIOUS
<1>1. UNCHANGED <<stmt, sqlca, sqlda, result, pos, place, mem, call, latest>>
  BY DEF vars
<1>2. /\ PosOK /\ StmtsOK /\ SqldaOK /\ ResultOK /\ MemOK /\ RestOK
      /\ BindingsSettled /\ Ages /\ Copied
      /\ RowsInOrder /\ PointersLive /\ NoForeignBuffer /\ FetchFillsBuffers
  BY DEF CInv
<1>3. PosOK' /\ StmtsOK' /\ SqldaOK' /\ ResultOK' /\ MemOK' /\ RestOK'
  BY <1>1, <1>2 DEF PosOK, StmtsOK, SqldaOK, ResultOK, MemOK, RestOK
<1>4. BindingsSettled' /\ Ages'
  BY <1>1, <1>2 DEF BindingsSettled, Ages
<1>5. (\A s : Undisturbed(s)' <=> Undisturbed(s)) /\ (Stuck' <=> Stuck)
  BY <1>1 DEF Undisturbed, Stuck
<1>6. Copied' /\ RowsInOrder' /\ PointersLive' /\ NoForeignBuffer'
  BY <1>1, <1>2, <1>5 DEF Copied, RowsInOrder, PointersLive, NoForeignBuffer
<1>7. FetchFillsBuffers'
  <2>1. \A s, c, b : BoundTo(s, c, b)' <=> BoundTo(s, c, b)
    BY <1>1 DEF BoundTo
  <2> QED
    BY <1>1, <1>2, <1>5, <2>1 DEF FetchFillsBuffers
<1> QED
  BY <1>3, <1>4, <1>6, <1>7 DEF CInv

-----------------------------------------------------------------------------
(* The result set that Cursor implements (ResultSet).                      *)

\* A statement has the answer to itself
Held == \E s \in Stmts : Undisturbed(s)

\* What it was told, and what happened to the block of rows
SameAnswer == latest'.exec = latest.exec /\ result'.rows = result.rows
Untold == Told' = "none"
ToldRow == Told' = "SUCCESS"
ToldEnd == Told' = "NO_DATA"

\* A call that is no fetch of the statement that executed last
LEMMA OtherCallRefines ==
    ASSUME SameAnswer, Untold, Held => latest'.seen = latest.seen, Held' => Held
    PROVE  RS!Next
<1>1. Held' \in BOOLEAN
  BY DEF Held
<1>2. CASE Held
  BY <1>1, <1>2 DEF SameAnswer, Untold, Held, RS!Next, RS!OtherCall
<1>3. CASE ~Held
  BY <1>3 DEF SameAnswer, Held, RS!Next, RS!Unpromised
<1> QED
  BY <1>2, <1>3

LEMMA ToldNothing ==
    \A o, s, r : Returns(o, s, r) /\ (o # "fetch" \/ s # latest'.stmt) => Untold
BY DEF Returns, Untold, Told

LEMMA ToldResult ==
    ASSUME NEW s, latest'.stmt = s
    PROVE  /\ Returns("fetch", s, "SUCCESS") => ToldRow
           /\ Returns("fetch", s, "NO_DATA") => ToldEnd
BY DEF Returns, ToldRow, ToldEnd, Told

LEMMA BindColRefines ==
    ASSUME CInv, NEW s \in Stmts, NEW c \in 1..MaxCol, NEW b \in Buffers,
           SQLBindCol(s, c, b)
    PROVE  RS!Next
<1>1. StmtsOK /\ RestOK
  BY DEF CInv
<1>2. /\ stmt' = [stmt EXCEPT ![s].binds = Append(@, [col |-> c, buf |-> b])]
      /\ latest' = [latest EXCEPT !.rebound = @ \/ (s = latest.stmt /\ ~AtStart)]
      /\ result' = result
  BY DEF SQLBindCol
<1>3. \A t \in Stmts : stmt'[t].active = stmt[t].active
  BY <1>1, <1>2 DEF StmtsOK, StmtType
<1>4. /\ latest'.exec = latest.exec /\ latest'.stmt = latest.stmt
      /\ latest'.fresh = latest.fresh /\ latest'.seen = latest.seen
      /\ latest'.shared = latest.shared
  BY <1>1, <1>2 DEF RestOK, LatestType
<1>5. SameAnswer
  BY <1>2, <1>4 DEF SameAnswer
<1>6. Held' => Held
  BY <1>3, <1>4 DEF Held, Undisturbed
<1>7. Untold
  BY ToldNothing DEF SQLBindCol, OtherCall
<1> QED
  BY <1>4, <1>5, <1>6, <1>7, OtherCallRefines

LEMMA FreeStmtRefines ==
    ASSUME CInv, NEW s \in Stmts, SQLFreeStmt(s)
    PROVE  RS!Next
<1>1. StmtsOK
  BY DEF CInv
<1>2. stmt' = [stmt EXCEPT ![s] = FreshStmt] /\ latest' = latest /\ result' = result
  BY DEF SQLFreeStmt
<1>3. ~FreshStmt.active
  BY DEF FreshStmt
<1>4. \A t \in Stmts : stmt'[t].active => stmt[t].active
  BY <1>1, <1>2, <1>3 DEF StmtsOK
<1>5. SameAnswer
  BY <1>2 DEF SameAnswer
<1>6. Held' => Held
  BY <1>2, <1>4 DEF Held, Undisturbed
<1>7. Untold
  BY ToldNothing DEF SQLFreeStmt, OtherCall
<1> QED
  BY <1>2, <1>5, <1>6, <1>7, OtherCallRefines

LEMMA ExecuteRefines ==
    ASSUME CInv, CInv', NEW s \in Stmts, NEW p \in PrepareReplies, NEW o \in OpenReplies(p),
           SQLExecute(s, p, o)
    PROVE  RS!Next
<1>1. latest'.exec = latest.exec + 1 /\ latest'.seen = <<>>
  BY DEF SQLExecute, Executed
<1>2. result'.rows \in Seq(RowKinds)
  BY DEF CInv, ResultOK
<1>3. (\E t \in Stmts : Undisturbed(t))' \in BOOLEAN
  OBVIOUS
<1>4. Untold
  BY ToldNothing DEF SQLExecute
<1> QED
  BY <1>1, <1>2, <1>3, <1>4 DEF Untold, RS!Next, RS!Execute

\* A fetch of another statement ends the hold
LEMMA ForeignFetchRefines ==
    ASSUME CInv, NEW s \in Stmts, SQLFetch(s), ~FetchExits(s), s # latest.stmt
    PROVE  RS!Next
<1>1. RestOK
  BY DEF CInv
<1>2. latest \in LatestType
  BY <1>1 DEF RestOK
<1>3. latest' = [latest EXCEPT !.shared = TRUE]
  <2>1. \A row : SeenBy(s, row) => latest' = [latest EXCEPT !.shared = TRUE]
    BY <1>2 DEF SeenBy, LatestType
  <2>2. latest' = [latest EXCEPT !.shared = @ \/ s # latest.stmt]
            => latest' = [latest EXCEPT !.shared = TRUE]
    OBVIOUS
  <2> QED
    BY <2>1, <2>2 DEF SQLFetch, FetchRow, FetchMisread, FetchStuck
<1>4. /\ latest'.exec = latest.exec /\ latest'.stmt = latest.stmt
      /\ latest'.seen = latest.seen /\ latest'.shared
  BY <1>2, <1>3 DEF LatestType
<1>5. SameAnswer
  BY <1>4 DEF SameAnswer, SQLFetch
<1>6. ~Held'
  BY <1>4 DEF Held, Undisturbed
<1>7. Untold
  BY <1>4, ToldNothing DEF SQLFetch, FetchRow, FetchMisread, FetchStuck
<1> QED
  BY <1>4, <1>5, <1>6, <1>7, OtherCallRefines

\* Undisturbed, the statement was given the rows up to the position
LEMMA GivenUpToPosition ==
    ASSUME CInv, Held
    PROVE  /\ Undisturbed(latest.stmt) /\ latest.stmt \in Stmts
           /\ pos \in Nat /\ Len(result.rows) \in Nat /\ pos <= Len(result.rows)
           /\ Len(latest.seen) = pos
           /\ result.exec = latest.exec /\ sqlda.exec = result.exec
<1>1. PosOK /\ ResultOK /\ Ages /\ RowsInOrder
  BY DEF CInv
<1>2. Undisturbed(latest.stmt) /\ latest.stmt \in Stmts /\ latest.fresh
  BY DEF Held, Undisturbed
<1>3. Len(result.rows) \in Nat
  BY <1>1, SequenceDomain DEF ResultOK
<1>4. pos \in Nat /\ pos <= Len(result.rows)
  BY <1>1, <1>3 DEF PosOK
<1>5. latest.seen = [i \in 1..pos |-> <<latest.exec, i>>]
  BY <1>1, <1>2 DEF RowsInOrder
<1>6. Len(latest.seen) = pos
  BY <1>4, <1>5
<1>7. result.exec = latest.exec /\ sqlda.exec = result.exec
  BY <1>1, <1>2 DEF Ages
<1> QED
  BY <1>2, <1>3, <1>4, <1>6, <1>7

\* A fetch ends the client only where no statement has the answer to itself
LEMMA ExitRefines ==
    ASSUME CInv, NEW s \in Stmts, FetchExits(s), result' = result
    PROVE  RS!Next
<1>1. ~Held
  <2>1. Ages /\ Misreads
    BY DEF CInv, FetchExits
  <2> QED
    BY <2>1, GivenUpToPosition DEF Ages, Misreads
<1>2. latest' = latest /\ stmt' = stmt
  BY DEF FetchExits
<1>3. ~Held' /\ SameAnswer
  BY <1>1, <1>2 DEF Held, Undisturbed, SameAnswer
<1> QED
  BY <1>1, <1>3 DEF Held, SameAnswer, RS!Next, RS!Unpromised

\* A fetch of the statement that has the answer gives it the next row,
\* withholds it, or announces the end
LEMMA OwnFetchRefines ==
    ASSUME CInv, NEW s \in Stmts, SQLFetch(s), s = latest.stmt, Held
    PROVE  RS!Next
<1>1. /\ RestOK /\ StmtsOK /\ latest \in LatestType
      /\ latest.exec \in Nat /\ stmt[s].active /\ result' = result
  BY DEF CInv, RestOK, LatestType, SQLFetch
<1>2. /\ Undisturbed(s)
      /\ pos \in Nat /\ Len(result.rows) \in Nat /\ pos <= Len(result.rows)
      /\ Len(latest.seen) = pos
      /\ result.exec = latest.exec /\ sqlda.exec = result.exec /\ place = "row"
  BY GivenUpToPosition DEF CInv, Ages
<1>3. RS!NextRow = pos + 1
  BY <1>2 DEF RS!NextRow
<1>4. ASSUME latest'.stmt = latest.stmt, latest'.fresh = latest.fresh,
             latest'.shared <=> latest.shared,
             \A t \in Stmts : stmt'[t].active = stmt[t].active
      PROVE  Held'
  BY <1>2, <1>4 DEF Held, Undisturbed
<1>5. CASE pos < Len(result.rows) /\ FetchRow(s) /\ Counted(s)
  <2>1. /\ SeenBy(s, <<result.exec, pos + 1>>) /\ result.rows[pos + 1] # "sqlca"
        /\ Returns("fetch", s, "SUCCESS")
    BY <1>5 DEF FetchRow, Stuck
  <2>2. <<result.exec, pos + 1>> \in Nat \X Nat
    BY <1>1, <1>2
  <2>3. /\ latest'.exec = latest.exec /\ latest'.stmt = latest.stmt
        /\ latest'.fresh = latest.fresh
        /\ latest'.shared <=> latest.shared \/ s # latest.stmt
        /\ latest'.seen = Append(latest.seen, <<latest.exec, pos + 1>>)
    BY <1>1, <1>2, <2>1, <2>2, SeenRow
  <2>4. Held'
    BY <1>1, <1>2, <1>4, <1>5, <2>3, CountedRow
  <2>5. ToldRow
    BY <2>1, <2>3, ToldResult
  <2>6. RS!NextRow <= Len(result.rows)
    BY <1>2, <1>3, <1>5
  <2>7. result.rows[RS!NextRow] \notin {"sqlca"}
    BY <1>3, <2>1
  <2> QED
    BY <1>1, <1>3, <2>3, <2>4, <2>5, <2>6, <2>7 DEF Held, ToldRow, RS!Next, RS!Give
<1>6. CASE pos < Len(result.rows) /\ FetchStuck(s) /\ Counted(s)
  <2>1. /\ result.rows[pos + 1] = "sqlca"
        /\ latest' = [latest EXCEPT !.shared = @ \/ s # latest.stmt]
        /\ Returns("fetch", s, "SUCCESS")
    BY <1>2, <1>6 DEF FetchStuck, Stuck
  <2>2. latest' = latest
    BY <1>1, <1>2, <2>1 DEF LatestType, Undisturbed
  <2>3. Held'
    BY <1>1, <1>4, <1>6, <2>2, CountedRow
  <2>4. ToldRow
    BY <2>1, <2>2, ToldResult
  <2>5. RS!NextRow <= Len(result.rows)
    BY <1>2, <1>3, <1>6
  <2>6. result.rows[RS!NextRow] \in {"sqlca"}
    BY <1>3, <2>1
  <2> QED
    BY <1>1, <2>2, <2>3, <2>4, <2>5, <2>6 DEF Held, ToldRow, RS!Next, RS!Withhold
<1>7. CASE pos >= Len(result.rows) /\ stmt' = stmt
           /\ latest' = [latest EXCEPT !.shared = @ \/ s # latest.stmt]
           /\ Returns("fetch", s, "NO_DATA")
  <2>1. latest' = latest
    BY <1>1, <1>2, <1>7 DEF LatestType, Undisturbed
  <2>2. Held'
    BY <1>4, <1>7, <2>1
  <2>3. ToldEnd
    BY <1>7, <2>1, ToldResult
  <2>4. Len(latest.seen) = Len(result.rows)
    BY <1>2, <1>7
  <2> QED
    BY <1>1, <2>1, <2>2, <2>3, <2>4 DEF Held, ToldEnd, RS!Next, RS!End
\* The description is that of the block
<1>8. ~FetchMisread(s) /\ ~FetchExits(s)
  BY <1>2 DEF FetchMisread, FetchExits, Misreads
<1> QED
  BY <1>5, <1>6, <1>7, <1>8 DEF SQLFetch

\* Without the hold, a fetch of the statement promises nothing
LEMMA UnheldFetchRefines ==
    ASSUME CInv, NEW s \in Stmts, SQLFetch(s), ~FetchExits(s), s = latest.stmt, ~Held
    PROVE  RS!Next
<1>1. StmtsOK /\ RestOK /\ latest \in LatestType
  BY DEF CInv, RestOK
<1> DEFINE SameExecution ==
               /\ latest'.exec = latest.exec /\ latest'.stmt = latest.stmt
               /\ latest'.fresh = latest.fresh /\ (latest'.shared <=> latest.shared)
<1>2. SameExecution
  <2>1. ASSUME NEW row, SeenBy(s, row)
        PROVE  SameExecution
    BY <1>1, <2>1 DEF SeenBy, LatestType
  <2>2. latest' = [latest EXCEPT !.shared = @ \/ s # latest.stmt] => SameExecution
    BY <1>1 DEF LatestType
  <2> QED
    BY <2>1, <2>2 DEF SQLFetch, FetchRow, FetchMisread, FetchStuck
<1>3. \A t \in Stmts : stmt'[t].active = stmt[t].active
  <2>1. Counted(s) => \A t \in Stmts : stmt'[t].active = stmt[t].active
    BY <1>1, CountedRow
  <2> QED
    BY <2>1 DEF SQLFetch
<1>4. ~Held' /\ SameAnswer
  BY <1>2, <1>3 DEF Held, Undisturbed, SameAnswer, SQLFetch
<1> QED
  BY <1>4 DEF Held, SameAnswer, RS!Next, RS!Unpromised

-----------------------------------------------------------------------------
(* The theorems.                                                           *)

\* CInv, the inductive invariant, holds in every behaviour of SQLBindCol,
\* SQLExecute, SQLFetch and SQLFreeStmt (odbc.c).
THEOREM CursorInvariant == Spec => []CInv
<1>1. CInv /\ [Next]_vars => CInv'
  <2> SUFFICES ASSUME CInv, [Next]_vars PROVE CInv'
    OBVIOUS
  <2>1. ASSUME NEW s \in Stmts, NEW c \in 1..MaxCol, NEW b \in Buffers, SQLBindCol(s, c, b)
        PROVE  CInv'
    BY <2>1, BindColKeeps
  <2>2. ASSUME NEW s \in Stmts, SQLFreeStmt(s)
        PROVE  CInv'
    BY <2>2, FreeStmtKeeps
  <2>3. ASSUME NEW s \in Stmts, NEW p \in PrepareReplies, NEW o \in OpenReplies(p),
               SQLExecute(s, p, o)
        PROVE  CInv'
    BY <2>3, ExecuteKeeps
  <2>4. ASSUME NEW s \in Stmts, SQLFetch(s)
        PROVE  CInv'
    BY <2>4, FetchKeeps
  <2>5. CASE UNCHANGED vars
    BY <2>5, StandingStillKeeps
  <2> QED
    BY <2>1, <2>2, <2>3, <2>4, <2>5 DEF Next
<1> QED
  BY <1>1, CursorStarts, PTL DEF Spec

\* The state of statements and of the shared DRDA structure keeps its types.
THEOREM CursorTypes == Spec => []TypeOK
<1>1. CInv => TypeOK
  BY TypeParts DEF CInv
<1> QED
  BY <1>1, CursorInvariant, PTL

\* SQLFetch gives an undisturbed statement the rows of its own query, each
\* once, in order, and counts them.
THEOREM RowsComeInOrder == Spec => []RowsInOrder
<1>1. CInv => RowsInOrder
  BY DEF CInv
<1> QED
  BY <1>1, CursorInvariant, PTL

\* No column points into a block that fdoca_read_qrydta() freed.
THEOREM PointersStayLive == Spec => []PointersLive
<1>1. CInv => PointersLive
  BY DEF CInv
<1> QED
  BY <1>1, CursorInvariant, PTL

\* Rows of an undisturbed query go to buffers its own statement bound.
THEOREM BuffersAreOwn == Spec => []NoForeignBuffer
<1>1. CInv => NoForeignBuffer
  BY DEF CInv
<1> QED
  BY <1>1, CursorInvariant, PTL

\* SQLFetch fills the buffer that SQLBindCol named last for a column.
THEOREM FetchFills == Spec => []FetchFillsBuffers
<1>1. CInv => FetchFillsBuffers
  BY DEF CInv
<1> QED
  BY <1>1, CursorInvariant, PTL

\* The block and the position that all statements share (fdoca_read_qrydta,
\* result_pos) implement, for the statement that runs undisturbed, a result set
\* of its own: every row once and in order, and SQL_NO_DATA_FOUND after the last.
THEOREM AnswerSetRefined == Spec => AnswerSet
<1>1. Init => RS!Init
  <2> SUFFICES ASSUME Init PROVE RS!Init
    OBVIOUS
  <2>1. /\ latest.exec = 0 /\ latest.seen = <<>> /\ latest.fresh = FALSE
        /\ result.rows = <<>> /\ call.op = "none"
    BY DEF Init
  <2>2. Told = "none"
    BY <2>1 DEF Told
  <2>3. Held = FALSE
    BY <2>1 DEF Held, Undisturbed
  <2> QED
    BY <2>1, <2>2, <2>3 DEF Held, RS!Init
<1>2. CInv /\ CInv' /\ [Next]_vars => [RS!Next]_RS!vars
  <2> SUFFICES ASSUME CInv, CInv', [Next]_vars PROVE [RS!Next]_RS!vars
    OBVIOUS
  <2>1. ASSUME NEW s \in Stmts, NEW c \in 1..MaxCol, NEW b \in Buffers, SQLBindCol(s, c, b)
        PROVE  RS!Next
    BY <2>1, BindColRefines
  <2>2. ASSUME NEW s \in Stmts, SQLFreeStmt(s)
        PROVE  RS!Next
    BY <2>2, FreeStmtRefines
  <2>3. ASSUME NEW s \in Stmts, NEW p \in PrepareReplies, NEW o \in OpenReplies(p),
               SQLExecute(s, p, o)
        PROVE  RS!Next
    BY <2>3, ExecuteRefines
  <2>4. ASSUME NEW s \in Stmts, SQLFetch(s)
        PROVE  RS!Next
    <3>1. result' = result
      BY <2>4 DEF SQLFetch
    <3> QED
      BY <2>4, <3>1, ExitRefines, ForeignFetchRefines, OwnFetchRefines, UnheldFetchRefines
  <2>5. CASE UNCHANGED vars
    <3>1. (\A s \in Stmts : Undisturbed(s)' <=> Undisturbed(s)) /\ Told' = Told
      BY <2>5 DEF vars, Undisturbed, Told
    <3>2. (\E s \in Stmts : Undisturbed(s))' = (\E s \in Stmts : Undisturbed(s))
      BY <3>1
    <3> QED
      BY <2>5, <3>1, <3>2 DEF vars, RS!vars
  <2> QED
    BY <2>1, <2>2, <2>3, <2>4, <2>5 DEF Next
<1> QED
  BY <1>1, <1>2, CursorInvariant, PTL DEF Spec, AnswerSet, RS!Spec

=============================================================================
