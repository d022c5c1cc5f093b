----------------------------- MODULE ResultSet ------------------------------
(***************************************************************************)
(* What an application relies on when it fetches: the answer to its latest *)
(* query, gone through once, forwards.  The statement that executed holds  *)
(* the answer; each fetch gives it the next row, and the end is announced  *)
(* only when every row has been given.  A row the cursor cannot read stops *)
(* it for good, without an error.  The hold is lost when another statement *)
(* fetches, and only an execution gives it back: without it nothing is     *)
(* promised about the rows.                                                *)
(***************************************************************************)
EXTENDS Naturals, Sequences

CONSTANTS
    Rows,        \* kinds of rows an answer may have
    Unreadable   \* those the cursor cannot read

VARIABLES
    query,    \* queries executed
    answer,   \* the answer to the latest one, the kinds of its rows
    given,    \* the rows its statement was given: <<query, index>>
    held,     \* its statement has the answer to itself
    said      \* what the latest call told that statement, if it was a fetch:
              \* "SUCCESS" or "NO_DATA"; "none" otherwise

vars == <<query, answer, given, held, said>>

Init ==
    /\ query = 0 /\ answer = <<>> /\ given = <<>>
    /\ held = FALSE /\ said = "none"

(* A query replaces the answer, whether or not it succeeds.                *)
Execute ==
    /\ query' = query + 1 /\ answer' \in Seq(Rows) /\ given' = <<>>
    /\ held' \in BOOLEAN /\ said' = "none"

NextRow == Len(given) + 1

(* The next row of the answer is given.                                    *)
Give ==
    /\ held /\ NextRow <= Len(answer) /\ answer[NextRow] \notin Unreadable
    /\ given' = Append(given, <<query, NextRow>>) /\ said' = "SUCCESS"
    /\ UNCHANGED <<query, answer, held>>

(* The next row cannot be read: nothing is given, and nothing skipped.     *)
Withhold ==
    /\ held /\ NextRow <= Len(answer) /\ answer[NextRow] \in Unreadable
    /\ said' = "SUCCESS"
    /\ UNCHANGED <<query, answer, given, held>>

(* The end is announced when all rows have been given, not before.         *)
End ==
    /\ held /\ Len(given) = Len(answer)
    /\ said' = "NO_DATA"
    /\ UNCHANGED <<query, answer, given, held>>

(* A call that is no fetch of the statement gives it nothing; it may cost  *)
(* it the hold.                                                            *)
OtherCall ==
    /\ held /\ said' = "none" /\ held' \in BOOLEAN
    /\ UNCHANGED <<query, answer, given>>

(* Without the hold: the answer stands, and rows are not promised.         *)
Unpromised == ~held /\ ~held' /\ UNCHANGED <<query, answer>>

Next == Execute \/ Give \/ Withhold \/ End \/ OtherCall \/ Unpromised

Spec == Init /\ [][Next]_vars
=============================================================================
