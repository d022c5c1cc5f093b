----------------------------- MODULE QueryText ------------------------------
(***************************************************************************)
(* The text of a statement, stmt->query of src/src/odbc/odbc.c: SQLPrepare *)
(* and SQLExecDirect copy it, SQLTables composes it, and every execution   *)
(* rewrites it in place, without the ODBC escapes ("{tag ... }"), before   *)
(* it is sent.                                                             *)
(***************************************************************************)
EXTENDS Naturals, Sequences

CONSTANTS
    Statements,     \* what an application may write: sequences of pieces
    MaxExecutes     \* bound: executions of one text

(* A piece of a statement as it is written, and as a server that knows no  *)
(* escapes should get it: a character, a literal in its quotes, or where   *)
(* an escape begins, its tag up to the blank, and where it ends.           *)
Quotes == {"'", "\""}
Plain(c) == [written |-> <<c>>, means |-> <<c>>]
Literal(q, chars) == LET text == <<q>> \o chars \o <<q>> IN [written |-> text, means |-> text]
Opening(tag) == [written |-> <<"{">> \o tag, means |-> <<>>]
Closing == [written |-> <<"}">>, means |-> <<>>]
LongestTag == 10

IsPlain(p) == Len(p.written) = 1 /\ p.written[1] \notin Quotes \cup {"{", "}"}
IsLiteral(p) ==
    LET t == p.written IN
    /\ Len(t) > 1 /\ t[1] \in Quotes /\ t[Len(t)] = t[1]
    /\ \A i \in 2..(Len(t) - 1) : t[i] # t[1]
IsOpening(p) ==
    LET t == p.written IN
    Len(t) \in 1..LongestTag /\ t[1] = "{" /\ (\A i \in DOMAIN t : t[i] # " ")

(* After a tag comes its blank or the end of the statement, and nothing is *)
(* closed before something was opened; it need not be closed at all.       *)
ASSUME StatementsAssumption ==
    \A st \in Statements :
        /\ st \in Seq([written : Seq(STRING), means : Seq(STRING)])
        /\ \A i \in DOMAIN st :
              \/ (IsPlain(st[i]) \/ IsLiteral(st[i])) /\ st[i].means = st[i].written
              \/ /\ IsOpening(st[i]) /\ st[i].means = <<>>
                 /\ i < Len(st) => st[i + 1] = Plain(" ")
              \/ st[i] = Closing /\ \E j \in 1..(i - 1) : IsOpening(st[j])
ASSUME ExecutesAssumption == MaxExecutes \in Nat

VARIABLES
    query,      \* stmt->query
    fixing,     \* _odbc_fix_literals() is running
    s,          \* its position in the query
    tmp,        \* what it has copied
    quoted,     \* the quote it is inside of, or "none"
    find_end,   \* whether it has dropped a tag
    sent,       \* what PRPSQLSTT was given
    meant,      \* what the statement means, or the catalog call composed
    executes    \* executions of this text

qvars == <<query, fixing, s, tmp, quoted, find_end, sent, meant, executes>>

\* The first n texts, one after the other
Start(texts, n) ==
    LET first[k \in Nat] == IF k = 0 THEN <<>> ELSE first[k - 1] \o texts[k]
    IN  first[n]
Joined(texts) == Start(texts, Len(texts))

Written(st) == Joined([i \in DOMAIN st |-> st[i].written])
Means(st) == Joined([i \in DOMAIN st |-> st[i].means])

QInit ==
    /\ query = <<>> /\ fixing = FALSE /\ s = 1 /\ tmp = <<>>
    /\ quoted = "none" /\ find_end = FALSE
    /\ sent = <<>> /\ meant = <<>> /\ executes = 0

-----------------------------------------------------------------------------
\* SQLPrepare() and the beginning of SQLExecDirect()
SQLPrepare(st) ==
    /\ ~fixing
    /\ query' = Written(st)
    /\ meant' = Means(st)
    /\ executes' = 0
    /\ sent' = <<>>
    /\ UNCHANGED <<fixing, s, tmp, quoted, find_end>>

(* SQLTables(), for n of its four arguments given: what is counted up is   *)
(* the character at p, not p, so that each name is overwritten by its      *)
(* closing quote.  It goes on to _SQLExecute().                            *)
SQLTables(n) ==
    LET before(k) == IF k = 1 THEN "exec sp_tables " ELSE ","
        call == IF n = 0 THEN <<Plain(before(1))>>
                ELSE [k \in 1..(2 * n) |-> IF k % 2 = 1 THEN Plain(before(k))
                                           ELSE Literal("\"", <<>>)]
    IN
    /\ ~fixing
    /\ query' = Written(call)
    /\ meant' = Written(call)
    /\ executes' = 0
    /\ sent' = <<>>
    /\ UNCHANGED <<fixing, s, tmp, quoted, find_end>>

\* _SQLExecute() begins with _odbc_fix_literals()
SQLExecute ==
    /\ ~fixing
    /\ query # <<>> /\ executes < MaxExecutes
    /\ fixing' = TRUE
    /\ UNCHANGED <<query, s, tmp, quoted, find_end, sent, meant, executes>>

\* mutant: any quote ends a literal
AnyQuote(q, c) == IF c \notin Quotes THEN q ELSE IF q = "none" THEN c ELSE "none"

\* Whether the character c is in a literal, given whether the one before was
QuotedAfter(q, c) ==
    IF q = "none" /\ c \in Quotes THEN c ELSE IF q # "none" /\ c = q THEN "none" ELSE q

\* mutant: one character too many where no blank follows
TagPastEnd(k) ==
    LET ends == {j \in k..Len(query) : query[j] = " "}
    IN  IF ends = {} THEN Len(query) - k + 2
        ELSE (CHOOSE j \in ends : \A i \in ends : j <= i) - k

\* The characters from position k up to the next blank
TagLength(k) ==
    LET ends == {j \in k..Len(query) : query[j] = " "}
    IN  IF ends = {} THEN Len(query) - k + 1
        ELSE (CHOOSE j \in ends : \A i \in ends : j <= i) - k

\* One round of the loop
FixCharacter ==
    LET c == query[s]
        q == QuotedAfter(quoted, c)
        ends == q = "none" /\ find_end /\ c = "}"
        begins == q = "none" /\ c = "{" /\ TagLength(s) <= LongestTag
    IN
    /\ fixing /\ s <= Len(query)
    /\ quoted' = q
    /\ \/ ends /\ s' = s + 1 /\ UNCHANGED <<tmp, find_end>>
       \/ begins /\ s' = s + TagLength(s) /\ find_end' = TRUE /\ UNCHANGED tmp
       \/ ~ends /\ ~begins /\ s' = s + 1 /\ tmp' = Append(tmp, c) /\ UNCHANGED find_end
    /\ UNCHANGED <<query, fixing, sent, meant, executes>>

\* The text is replaced, and PRPSQLSTT sends it
Prepared ==
    /\ fixing /\ s > Len(query)
    /\ query' = tmp
    /\ sent' = tmp
    /\ executes' = executes + 1
    /\ fixing' = FALSE /\ s' = 1 /\ tmp' = <<>>
    /\ quoted' = "none" /\ find_end' = FALSE
    /\ UNCHANGED meant

QNext ==
    \/ \E st \in Statements : SQLPrepare(st)
    \/ \E n \in 0..4 : SQLTables(n)
    \/ SQLExecute \/ FixCharacter \/ Prepared

QuerySpec == QInit /\ [][QNext]_qvars

-----------------------------------------------------------------------------
(* The position stays within the text, and its copy never outgrows it.     *)
QueryTypeOK ==
    /\ fixing \in BOOLEAN /\ find_end \in BOOLEAN
    /\ quoted \in Quotes \cup {"none"}
    /\ s \in 1..(Len(query) + 1)
    /\ Len(tmp) < s
    /\ executes \in 0..MaxExecutes

(* What is sent for a statement is what it means, with its literals as     *)
(* they are written, braces and other quotes in them included, and its     *)
(* escapes unwrapped, by the first execution and by each one after it.     *)
QuerySent == executes > 0 => sent = meant
=============================================================================
