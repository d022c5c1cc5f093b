------------------------------- MODULE Cursor -------------------------------
(***************************************************************************)
(* Executing statements and fetching their rows through the ODBC driver    *)
(* (src/src/odbc/odbc.c over src/src/libdrda/fdoca.c).                     *)
(*                                                                         *)
(* Statement handles only hold a query, a list of column bindings and a    *)
(* row count.  The description of the columns (sqlda), the diagnostics     *)
(* (sqlca), the block of rows (result_buf) and the position in it live in  *)
(* the one DRDA structure of the environment, whatever statement they came *)
(* from; column bindings are copied into it by the first SQLFetch().       *)
(*                                                                         *)
(* Each drda_* exchange is one atomic step with the objects the server     *)
(* puts in its reply as input; ReplyChain models the exchange itself.      *)
(***************************************************************************)
EXTENDS Integers, Sequences, FiniteSetsExt

CONSTANTS
    Stmts,      \* statement handles
    Buffers,    \* the application's buffers
    NumCols,    \* numbers of columns a select list may have
    RowKinds,   \* kinds of rows the server may send
    Insides,    \* kinds of bytes inside a row where a misread may end
    MaxExec,    \* bound: executions
    MaxRows,    \* bound: rows in one block
    MaxBinds    \* bound: bindings, over all statements

(* "value": every column has a value; "null": every column is NULL;        *)
(* "sqlca": the row carries a non-NULL SQLCA instead of data.              *)
ASSUME RowKindsAssumption == RowKinds \subseteq {"value", "null", "sqlca"}
\* "mark": a byte 0xff, as at the beginning of a row; "text": another one
ASSUME InsidesAssumption  == Insides \subseteq {"mark", "text"}
ASSUME NumColsAssumption  == NumCols \subseteq Nat \ {0}
\* NoBuffer and BoundData, below, are not the application's
ASSUME BuffersAssumption  == Buffers \cap {"none", "bound_data"} = {}
ASSUME BoundsAssumption   == MaxExec \in Nat /\ MaxRows \in Nat /\ MaxBinds \in Nat

VARIABLES
    stmt,     \* per statement: binds, rowcount, active (last execute succeeded)
    sqlca,    \* drda->sqlca: "none" (NULL), "ok" (sqlcode 0) or "error"
    sqlda,    \* drda->sqlda: the execution it describes (0: NULL), its columns
    result,   \* drda->result_buf: the execution it answers (0: NULL), its rows
    pos,      \* drda->result_pos: rows of the block wholly gone past
    place,    \* ... and where in the next one: at its beginning ("row"), or
              \* inside it, at a byte of a kind of Insides
    mem,      \* per buffer: the value in it, and what its length tells about
    call,     \* the latest SQLExecute or SQLFetch and what it returned; "none"
              \* after another call
    latest    \* history of the latest execution, see LatestType

vars == <<stmt, sqlca, sqlda, result, pos, place, mem, call, latest>>

NoRow == <<0, 0>>                 \* rows are <<execution, index>>
Garbage == <<0, 1>>               \* bytes decoded with another layout
NoBuffer == "none"                \* a NULL bind_addr
BoundData == "bound_data"         \* the driver's own bound_data array

MaxCol == CHOOSE n \in NumCols : \A m \in NumCols : m <= n
Bind == [col : 1..MaxCol, buf : Buffers]

\* A DRDA_COLUMN: where to copy the value, where the current value is
\* (cur_addr), and whether it has one (cur_length > 0)
Column == [bind : Buffers \cup {NoBuffer, BoundData},
           cur  : Nat \X Nat, has : BOOLEAN]
FreshColumn == [bind |-> NoBuffer, cur |-> NoRow, has |-> FALSE]

(* The latest execution: whose it is, whether its OPNQRY was answered with *)
(* rows, what SQLFetch delivered of it, and whether something came in      *)
(* between: another statement's fetch, or a binding after the first fetch. *)
LatestType == [exec : Nat, stmt : Stmts \cup {"none"}, fresh : BOOLEAN,
               seen : Seq(Nat \X Nat), shared : BOOLEAN, rebound : BOOLEAN]

TypeOK ==
    /\ stmt \in [Stmts -> [binds : Seq(Bind), rowcount : Nat, active : BOOLEAN]]
    /\ sqlca \in {"none", "ok", "error"}
    /\ sqlda \in [exec : Nat, cols : Seq(Column)]
    /\ result \in [exec : Nat, rows : Seq(RowKinds)]
    /\ pos \in 0..Len(result.rows) /\ place \in {"row"} \cup Insides
    /\ mem \in [Buffers -> [val : Nat \X Nat, null : BOOLEAN, len : Nat \X Nat]]
    /\ call \in [op : {"none", "execute", "fetch"},
                 stmt : Stmts \cup {"none"},
                 ret : {"SUCCESS", "ERROR", "NO_DATA", "crash"}]
    /\ latest \in LatestType

FreshStmt == [binds |-> <<>>, rowcount |-> 0, active |-> FALSE]

Init ==
    /\ stmt = [s \in Stmts |-> FreshStmt]
    /\ sqlca = "none"
    /\ sqlda = [exec |-> 0, cols |-> <<>>]
    /\ result = [exec |-> 0, rows |-> <<>>]
    /\ pos = 0 /\ place = "row"
    /\ mem = [b \in Buffers |-> [val |-> NoRow, null |-> FALSE, len |-> NoRow]]
    /\ call = [op |-> "none", stmt |-> "none", ret |-> "SUCCESS"]
    /\ latest = [exec |-> 0, stmt |-> "none", fresh |-> FALSE,
                 seen |-> <<>>, shared |-> FALSE, rebound |-> FALSE]

Alive == call.ret # "crash"
Returns(o, s, r) == call' = [op |-> o, stmt |-> s, ret |-> r]
OtherCall == Returns("none", "none", "SUCCESS")

\* result_pos is 0
AtStart == pos = 0 /\ place = "row"

-----------------------------------------------------------------------------
(* SQLBindCol appends to the statement's list, also when the column has a  *)
(* binding already.                                                        *)
SQLBindCol(s, c, b) ==
    /\ Alive /\ MapThenSumSet(LAMBDA t : Len(stmt[t].binds), Stmts) < MaxBinds
    /\ stmt' = [stmt EXCEPT ![s].binds = Append(@, [col |-> c, buf |-> b])]
    /\ latest' = [latest EXCEPT !.rebound = @ \/ (s = latest.stmt /\ ~AtStart)]
    /\ OtherCall
    /\ UNCHANGED <<sqlca, sqlda, result, pos, place, mem>>

(* SQLFreeStmt(SQL_DROP), and a new handle in its place.                   *)
SQLFreeStmt(s) ==
    /\ Alive /\ stmt[s] # FreshStmt
    /\ stmt' = [stmt EXCEPT ![s] = FreshStmt]
    /\ OtherCall
    /\ UNCHANGED <<sqlca, sqlda, result, pos, place, mem, latest>>

-----------------------------------------------------------------------------
(* SQLExecute: PRPSQLSTT, then OPNQRY.                                     *)

(* What the reply to PRPSQLSTT brings: "sqldard", an SQLCA with sqlcode 0  *)
(* and the description of n columns; "warned", the same with another       *)
(* sqlcode; "sqlerror", an SQLCARD with such a sqlcode; "silent", no SQLCA *)
(* at all (a refusal in a reply message, or a lost connection).            *)
PrepareReplies == [kind : {"sqldard", "warned"}, n : NumCols]
                  \cup [kind : {"sqlerror", "silent"}, n : {0}]
Describes(p) == p.kind \in {"sqldard", "warned"}

(* What the reply to OPNQRY brings: "rows", a QRYDTA with the first block; *)
(* "none", no QRYDTA, with a result that is not negative: an empty answer  *)
(* set, a refusal, end of file; "failed": chain_read() returned -1.  Only  *)
(* a prepared statement has rows.  Any reply may carry (ca) an SQLCARD     *)
(* whose sqlcode is not 0: an error, or 100 at the end of the answer set.  *)
Blocks == UNION {[1..n -> RowKinds] : n \in 1..MaxRows}
NoRows == [kind |-> "none", rows |-> <<>>, ca |-> FALSE]
OpenReplies(p) ==
    {NoRows, [NoRows EXCEPT !.ca = TRUE], [NoRows EXCEPT !.kind = "failed"]} \cup
    (IF p.kind = "sqldard" THEN [kind : {"rows"}, rows : Blocks, ca : BOOLEAN]
                           ELSE {})

\* fdoca_read_sqlca() replaces drda->sqlca
SqlcaAfter(p) == CASE p.kind = "sqldard" -> "ok"
                   [] p.kind \in {"warned", "sqlerror"} -> "error"
                   [] p.kind = "silent" -> sqlca

\* mutant: the columns of the previous description are kept
SqldaReused(p) ==
    IF Describes(p)
    THEN [exec |-> latest.exec + 1,
          cols |-> [c \in 1..p.n |-> IF c \in DOMAIN sqlda.cols THEN sqlda.cols[c]
                                                            ELSE FreshColumn]]
    ELSE sqlda

\* fdoca_read_sqlda() installs a new description, its columns zeroed
SqldaAfter(p) ==
    IF Describes(p)
    THEN [exec |-> latest.exec + 1, cols |-> [c \in 1..p.n |-> FreshColumn]]
    ELSE sqlda

\* drda_prpsqlstt() looks at drda->sqlca alone
PrepareFails(p) == SqlcaAfter(p) = "error"

\* The driver binds columns 0 and 1 to its own array without looking
\* whether the description has them
BindsTwo(da) == [da EXCEPT !.cols =
                    [c \in DOMAIN @ |-> IF c <= 2 THEN [@[c] EXCEPT !.bind = BoundData]
                                                  ELSE @[c]]]

\* fdoca_read_qrydta() replaces the block; without a QRYDTA the old one stays
ResultAfter(o) == IF o.kind = "rows"
                  THEN [exec |-> latest.exec + 1, rows |-> o.rows] ELSE result

\* mutant: result_pos is not reset
PosKept == pos

\* A successful execution starts at the first row
PosAfterExecute == 0

Executed(s, o) ==
    latest' = [exec |-> latest.exec + 1, stmt |-> s, fresh |-> o.kind = "rows",
               seen |-> <<>>, shared |-> FALSE, rebound |-> FALSE]

(* SQLPrepare and SQLExecute, or SQLExecDirect.                            *)
SQLExecute(s, p, o) ==
    /\ Alive /\ latest.exec < MaxExec
    /\ sqlca' = IF o.ca THEN "error" ELSE SqlcaAfter(p)
    /\ UNCHANGED mem
    /\ \/ /\ PrepareFails(p) /\ o = NoRows
          /\ sqlda' = SqldaAfter(p)
          /\ stmt' = [stmt EXCEPT ![s].active = FALSE]
          /\ Executed(s, o) /\ Returns("execute", s, "ERROR")
          /\ UNCHANGED <<result, pos, place>>
       \/ /\ ~PrepareFails(p) /\ Len(SqldaAfter(p).cols) < 2 /\ o = NoRows
          /\ sqlda' = SqldaAfter(p)
          /\ Executed(s, o) /\ Returns("execute", s, "crash")
          /\ UNCHANGED <<stmt, result, pos, place>>
       \/ /\ ~PrepareFails(p) /\ Len(SqldaAfter(p).cols) >= 2
          /\ sqlda' = BindsTwo(SqldaAfter(p))
          /\ result' = ResultAfter(o)
          /\ Executed(s, o)
          /\ IF o.kind = "failed"
             THEN /\ stmt' = [stmt EXCEPT ![s].active = FALSE]
                  /\ Returns("execute", s, "ERROR")
                  /\ UNCHANGED <<pos, place>>
             ELSE /\ stmt' = [stmt EXCEPT ![s].active = TRUE, ![s].rowcount = 0]
                  /\ Returns("execute", s, "SUCCESS")
                  /\ pos' = PosAfterExecute /\ place' = "row"

-----------------------------------------------------------------------------
(* SQLFetch.                                                               *)

\* mutant: the first binding of a column wins
FirstBinding(binds, c) ==
    LET at == {i \in 1..Len(binds) : binds[i].col = c}
    IN  IF at = {} THEN NoBuffer
        ELSE binds[CHOOSE i \in at : \A j \in at : i <= j].buf

\* The last binding of column c in a list, the one that ends up in the sqlda
LastBinding(binds, c) ==
    LET at == {i \in 1..Len(binds) : binds[i].col = c}
    IN  IF at = {} THEN NoBuffer
        ELSE binds[CHOOSE i \in at : \A j \in at : j <= i].buf

(* "First call? bind those columns!": the bindings are copied when the     *)
(* position is 0; bindings beyond the last column are skipped.             *)
BoundColumns(s) ==
    IF ~AtStart THEN sqlda.cols
    ELSE [c \in DOMAIN sqlda.cols |->
            IF LastBinding(stmt[s].binds, c) = NoBuffer THEN sqlda.cols[c]
            ELSE [sqlda.cols[c] EXCEPT !.bind = LastBinding(stmt[s].binds, c)]]

(* fdoca_read_qrydta_row() decodes the row into the columns: a NULL has no *)
(* current value, and leaves cur_addr as it was.                           *)
DecodedColumns(cols, row, kind) ==
    [c \in DOMAIN cols |->
        IF kind = "null" THEN [cols[c] EXCEPT !.has = FALSE]
        ELSE [cols[c] EXCEPT !.cur = row, !.has = TRUE]]

(* ... and into the buffers: a NULL is an empty string, without a length.  *)
DecodedMemory(cols, row, kind) ==
    [b \in Buffers |->
        IF \A c \in DOMAIN cols : cols[c].bind # b THEN mem[b]
        ELSE IF kind = "null" THEN [mem[b] EXCEPT !.val = row, !.null = TRUE]
        ELSE [val |-> row, null |-> FALSE, len |-> row]]

\* rowcount++ on every successful call, row or not; it saturates here at a
\* value no block reaches
Counted(s) == stmt' = [stmt EXCEPT ![s].rowcount = IF @ > MaxRows THEN @ ELSE @ + 1]
SeenBy(s, row) ==
    latest' = [latest EXCEPT !.seen = IF s = latest.stmt THEN Append(@, row) ELSE @,
                             !.shared = @ \/ s # latest.stmt]

\* mutant: a row of NULLs is not gone past
AdvanceNotNull(kind) == IF kind = "value" THEN 1 ELSE 0

\* How far fdoca_read_qrydta_row() takes the position, in rows
Advance(kind) == IF kind = "sqlca" THEN 0 ELSE 1

(* The row at the position is one SQLFetch cannot get past: the byte there *)
(* is not the mark of a NULL SQLCA, because the row carries an SQLCA or    *)
(* because the position is inside a row.                                   *)
Stuck == /\ pos < Len(result.rows)
         /\ place = "text" \/ (place = "row" /\ result.rows[pos + 1] = "sqlca")

(* A row is decoded with the layout of its own query.                      *)
FetchRow(s) ==
    LET row == <<result.exec, pos + 1>>
        kind == result.rows[pos + 1]
        cols == BoundColumns(s)
    IN  /\ ~Stuck /\ place = "row" /\ sqlda.exec = result.exec
        /\ sqlda' = [sqlda EXCEPT !.cols = DecodedColumns(cols, row, kind)]
        /\ mem' = DecodedMemory(cols, row, kind)
        /\ pos' = pos + Advance(kind) /\ place' = place
        /\ SeenBy(s, row)
        /\ Returns("fetch", s, "SUCCESS")

(* Where a misread row may leave the position: at the beginning of a later *)
(* row, past the end of the block, or inside a row.  It always moves; that *)
(* it lands inside the same row twice would tell nothing more.             *)
Landings == ((pos + 1)..Len(result.rows)) \X {"row"}
            \cup ((IF place = "row" THEN pos ELSE pos + 1)..(Len(result.rows) - 1))
                     \X Insides

Misreads == ~Stuck /\ (sqlda.exec # result.exec \/ place = "mark")

(* A row of an earlier query, decoded with the layout of a later one: the  *)
(* values are arbitrary, so is the position they leave, and where cur_addr *)
(* points, it may be past the end of the block (row 0).                    *)
FetchMisread(s) ==
    /\ Misreads
    /\ sqlda' = [sqlda EXCEPT !.cols =
                    DecodedColumns(BoundColumns(s), <<result.exec, 0>>, "value")]
    /\ mem' = DecodedMemory(BoundColumns(s), Garbage, "value")
    /\ \E at \in Landings : pos' = at[1] /\ place' = at[2]
    /\ SeenBy(s, Garbage)
    /\ Returns("fetch", s, "SUCCESS")

(* The values may also be the end of the client: a bound column has no     *)
(* type if no QRYDSC followed its SQLDARD, and exit() is called.           *)
FetchExits(s) ==
    /\ Misreads
    /\ Returns("fetch", s, "crash")
    /\ UNCHANGED <<stmt, sqlda, mem, pos, place, latest>>

(* A row with an SQLCA is not supported: nothing is decoded, the position  *)
(* stays, and the call succeeds.                                           *)
FetchStuck(s) ==
    /\ Stuck
    /\ sqlda' = [sqlda EXCEPT !.cols = BoundColumns(s)]
    /\ latest' = [latest EXCEPT !.shared = @ \/ s # latest.stmt]
    /\ pos' = pos + Advance("sqlca") /\ place' = place
    /\ UNCHANGED mem
    /\ Returns("fetch", s, "SUCCESS")

(* The driver manager lets an application fetch only from a statement      *)
(* whose last execution succeeded.                                         *)
SQLFetch(s) ==
    /\ Alive /\ stmt[s].active
    /\ \/ /\ pos < Len(result.rows)
          /\ FetchRow(s) \/ FetchMisread(s) \/ FetchStuck(s)
          /\ Counted(s)
       \/ pos < Len(result.rows) /\ FetchExits(s)
       \/ /\ pos >= Len(result.rows)
          /\ sqlda' = [sqlda EXCEPT !.cols = BoundColumns(s)]
          /\ latest' = [latest EXCEPT !.shared = @ \/ s # latest.stmt]
          /\ Returns("fetch", s, "NO_DATA")
          /\ UNCHANGED <<stmt, mem, pos, place>>
    /\ UNCHANGED <<sqlca, result>>

Next ==
    \E s \in Stmts :
        \/ \E c \in 1..MaxCol, b \in Buffers : SQLBindCol(s, c, b)
        \/ SQLFreeStmt(s)
        \/ \E p \in PrepareReplies : \E o \in OpenReplies(p) : SQLExecute(s, p, o)
        \/ SQLFetch(s)

(* The loop of the unit test: while ((retcode = SQLFetch()) == SQL_SUCCESS) *)
Fairness == \A s \in Stmts : WF_vars(SQLFetch(s))

Spec == Init /\ [][Next]_vars /\ Fairness

-----------------------------------------------------------------------------
(* What the cursor promises.                                               *)

(* s executed last, its query was answered with rows, and no other         *)
(* statement fetched since: the precondition under which the driver, which *)
(* is "presently non-reenterrant", works for s.                            *)
Undisturbed(s) == /\ s = latest.stmt /\ stmt[s].active
                  /\ latest.fresh /\ ~latest.shared

(* A statement gets the rows of its own last query, each of them once, in  *)
(* order, and counts them.                                                 *)
RowsInOrder ==
    \A s \in Stmts : Undisturbed(s) =>
        /\ latest.seen = [i \in 1..pos |-> <<latest.exec, i>>]
        /\ stmt[s].rowcount >= pos
        /\ ~Stuck => stmt[s].rowcount = pos

\* b is where the statement last bound column c, and no other column
BoundTo(s, c, b) ==
    LET binds == stmt[s].binds IN
    /\ \E i \in 1..Len(binds) :
          /\ binds[i] = [col |-> c, buf |-> b]
          /\ \A j \in (i + 1)..Len(binds) : binds[j].col # c
    /\ \A j \in 1..Len(binds) : binds[j].buf = b => binds[j].col = c

(* After a fetch each bound buffer holds the row just fetched, in the      *)
(* buffer bound last, with the length of that very value.                  *)
FetchFillsBuffers ==
    LET s == call.stmt IN
    call.op = "fetch" /\ call.ret = "SUCCESS" /\ ~Stuck
    /\ Undisturbed(s) /\ ~latest.rebound =>
        \A c \in DOMAIN sqlda.cols, b \in Buffers :
            BoundTo(s, c, b) => /\ mem[b].val = <<latest.exec, pos>>
                                /\ ~mem[b].null => mem[b].len = mem[b].val

(* SQLGetData reads col->cur_addr: it must have been taken in the block    *)
(* that is allocated, never in one fdoca_read_qrydta() has freed, and for  *)
(* the statement that runs undisturbed it is in the row just fetched.  A   *)
(* row that is misread may leave it past the end of the block (row 0).     *)
PointersLive ==
    \A c \in DOMAIN sqlda.cols : sqlda.cols[c].has =>
        /\ sqlda.cols[c].cur[1] = result.exec
        /\ (\E s \in Stmts : Undisturbed(s)) => sqlda.cols[c].cur[2] = pos

(* While a described query runs undisturbed, rows go to buffers that its   *)
(* own statement bound, not to buffers left over from an earlier one.      *)
NoForeignBuffer ==
    ~latest.shared /\ sqlda.exec = latest.exec =>
        \A c \in DOMAIN sqlda.cols :
            sqlda.cols[c].bind \in Buffers /\ stmt[latest.stmt].active =>
                \E i \in 1..Len(stmt[latest.stmt].binds) :
                    stmt[latest.stmt].binds[i] = [col |-> c, buf |-> sqlda.cols[c].bind]

\* What the latest call told the statement that executed last
Told == IF call.op = "fetch" /\ call.stmt = latest.stmt THEN call.ret ELSE "none"

RS == INSTANCE ResultSet WITH
         Rows <- RowKinds, Unreadable <- {"sqlca"},
         query <- latest.exec, answer <- result.rows, given <- latest.seen,
         held <- \E s \in Stmts : Undisturbed(s), said <- Told

(* The one block and the one position that all statements share implement  *)
(* a result set of its own for the statement that runs undisturbed.        *)
AnswerSet == RS!Spec

(* The application's fetch loop ends: after an execution, whoever executes *)
(* and fetches meanwhile, SQLFetch comes to SQL_NO_DATA_FOUND.  It does    *)
(* not if a row of the block carries an SQLCA, or if rows of an earlier    *)
(* query are decoded with another layout, which may leave the position     *)
(* inside a row, or the client dead.                                       *)
FetchLoopEnds ==
    (call.op = "execute" /\ call.ret = "SUCCESS")
        ~> \/ call.ret = "NO_DATA"
           \/ \A s \in Stmts : ~stmt[s].active
           \/ Stuck /\ (result.rows[pos + 1] = "sqlca" \/ sqlda.exec # result.exec)
           \/ ~Alive

-----------------------------------------------------------------------------
(* What the repository says of the program and the code does not do.       *)

(* "It can also issue a query (PRPSQLSTT) and retrieve the results         *)
(* (OPNQRY)": rows fetched after a query are rows of that query.           *)
RowsOfTheQuery ==
    \A s \in Stmts : s = latest.stmt /\ stmt[s].active /\ ~latest.shared =>
        \A i \in 1..Len(latest.seen) : latest.seen[i][1] = latest.exec

(* drda_prpsqlstt() reports "no sqlca or sqlcode." when it fails: an       *)
(* execution whose PRPSQLSTT brought no SQLCA should not succeed.          *)
SuccessMeansPrepared ==
    call.op = "execute" /\ call.ret = "SUCCESS" => sqlda.exec = latest.exec

=============================================================================
