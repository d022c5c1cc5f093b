------------------------------ MODULE Session -------------------------------
(***************************************************************************)
(* A DRDA structure in use: one command after the other builds its request *)
(* (RequestFraming), writes it, and reads the objects of the reply into    *)
(* the structure (ReplyParams).  The structure outlives a connection: an   *)
(* ODBC environment connects it again as it is; the utilities release it   *)
(* and make a new one.  What a command reads and when, segment by segment, *)
(* is the subject of ReplyChain.                                           *)
(***************************************************************************)
EXTENDS RequestFraming, ReplyParams

CONSTANTS
    Answers(_, _),  \* replies to a command by a server of some byte order
    MaxSessions,    \* bound: connections
    MaxCmds         \* bound: commands on one connection

VARIABLES
    phase,     \* "closed", "idle", "writing" or "reading"
    cmd,       \* the latest command on this connection
    cmds,      \* how many there were
    order,     \* the byte order of the server connected to
    granted,   \* the server has sent ACCRDBRM on this connection
    answer,    \* objects of the reply that have not been read
    sessions   \* connections made

session == <<phase, cmd, cmds, order, granted, answer, sessions>>
vars == <<framing, replyState, session>>

Sends(a, obj) == \E i \in 1..Len(a) : a[i].obj = obj

(* A server names its byte order when it grants access to the database.    *)
ASSUME AnswersAssumption ==
    \A c \in Commands, o \in Orders : \A a \in Answers(c, o) :
        /\ a \in Seq({a[i] : i \in 1..Len(a)})
        /\ \A i \in 1..Len(a) :
            /\ IsObject(a[i])
            /\ a[i].obj = "ACCRDBRM" =>
                  \E j \in 1..Len(a[i].params) : a[i].params[j].cp = "TYPDEFNAM"
            /\ \A j \in 1..Len(a[i].params) :
                  a[i].params[j].cp = "TYPDEFNAM" => a[i].params[j].val = o
ASSUME SessionBounds == MaxSessions \in Nat /\ MaxCmds \in Nat

TypeOK ==
    /\ FramingTypeOK /\ ReplyTypeOK
    /\ phase \in {"closed", "idle", "writing", "reading"}
    /\ cmd \in Commands \cup {"none"}
    /\ cmds \in 0..MaxCmds /\ sessions \in 0..MaxSessions
    /\ order \in Orders
    /\ granted \in BOOLEAN
    /\ \A i \in 1..Len(answer) : IsObject(answer[i])
    /\ phase # "reading" => answer = <<>> /\ object = NoObject
    /\ phase \in {"writing", "reading"} => cmd # "none"

Init ==
    /\ FramingInit /\ ReplyInit
    /\ phase = "closed" /\ cmd = "none" /\ cmds = 0
    /\ order \in Orders /\ granted = FALSE
    /\ answer = <<>> /\ sessions = 0

(* The commands the driver, the tester, createpkg and server_info issue    *)
(* after a command, whatever its result.                                   *)
Follow ==
    [none      |-> {"excsat"},
     excsat    |-> {"accsec"},
     accsec    |-> {"secchk"},
     secchk    |-> {"accrdb"},
     accrdb    |-> {"prpsqlstt", "excsqlimm", "bgnbnd"},
     prpsqlstt |-> {"opnqry", "prpsqlstt"},
     opnqry    |-> {"prpsqlstt", "cntqry"},
     cntqry    |-> {"cntqry", "prpsqlstt"},
     excsqlimm |-> {"rdbcmm"},
     rdbcmm    |-> {"prpsqlstt"},
     bgnbnd    |-> {"endbnd"},
     endbnd    |-> {}]

(* drda_connect() puts a new socket into the structure and changes nothing *)
(* else in it.                                                             *)
Connect ==
    /\ phase \in {"closed", "idle"} /\ sessions < MaxSessions
    /\ sessions' = sessions + 1
    /\ order' \in Orders
    /\ granted' = FALSE
    /\ phase' = "idle" /\ cmd' = "none" /\ cmds' = 0
    /\ UNCHANGED <<framing, replyState, answer>>

(* drda_disconnect() and drda_release(), then drda_init() for the next.    *)
Release ==
    /\ phase = "idle"
    /\ phase' = "closed" /\ cmd' = "none" /\ cmds' = 0
    /\ granted' = FALSE
    /\ request' = <<>> /\ done' = 0 /\ out_pos' = 0
    /\ parts' = <<>> /\ open' = <<>> /\ tot_len' = 0 /\ rqscrr' = 0
    /\ err' = NoError
    /\ level' = [m \in Managers |-> 0]
    /\ name' = [n \in Names |-> Unset]
    /\ typdefnam' = Unset /\ object' = NoObject /\ pos' = 0
    /\ UNCHANGED <<order, answer, sessions>>

Issue(c) ==
    /\ phase = "idle" /\ cmds < MaxCmds /\ c \in Follow[cmd]
    /\ BeginRequest(c)
    /\ phase' = "writing" /\ cmd' = c /\ cmds' = cmds + 1
    /\ UNCHANGED <<replyState, order, granted, answer, sessions>>

Build ==
    /\ phase = "writing"
    /\ WritePart \/ CompletePart
    /\ UNCHANGED <<replyState, session>>

(* The request is written, and the server answers; it describes the result *)
(* of a statement only to a client it has let into the database.           *)
Send ==
    /\ phase = "writing" /\ Sent
    /\ phase' = "reading"
    /\ answer' \in Answers(cmd, order)
    /\ Sends(answer', "SQLDARD") => granted
    /\ granted' = (granted \/ Sends(answer', "ACCRDBRM"))
    /\ UNCHANGED <<replyState, cmd, cmds, order, sessions>>

ReadNextObject ==
    /\ phase = "reading" /\ WholeRead /\ answer # <<>>
    /\ ReadObject(Head(answer))
    /\ answer' = Tail(answer)
    /\ UNCHANGED <<framing, phase, cmd, cmds, order, granted, sessions>>

ReadNextParameter ==
    /\ phase = "reading"
    /\ ReadParameter
    /\ UNCHANGED <<framing, session>>

Return ==
    /\ phase = "reading" /\ WholeRead /\ answer = <<>>
    /\ ReadObject(NoObject)
    /\ phase' = "idle"
    /\ UNCHANGED <<framing, cmd, cmds, order, granted, answer, sessions>>

Next ==
    \/ Connect
    \/ Release
    \/ \E c \in Commands : Issue(c)
    \/ Build
    \/ Send
    \/ ReadNextObject
    \/ ReadNextParameter
    \/ Return

Spec == Init /\ [][Next]_vars

-----------------------------------------------------------------------------
(* What the two promise together.                                          *)

(* A description of columns is decoded in the byte order of the server it  *)
(* comes from: the name is there when the first one arrives (strcmp() in   *)
(* drda_get_endian_int2 takes no NULL), and it is not that of a server     *)
(* the structure was connected to before.                                  *)
ByteOrderOfServer == object.obj = "SQLDARD" => typdefnam = order

-----------------------------------------------------------------------------
(* The inductive invariant.                                                *)

\* Parameters of the object that have not been read
Ahead == {object.params[j] : j \in (pos + 1)..Len(object.params)}

(* Whatever names a byte order in the reply names that of the server, and  *)
(* access is granted by an object that does.                               *)
OrderNamed(o, ord) ==
    /\ \A j \in 1..Len(o.params) :
          o.params[j].cp = "TYPDEFNAM" => o.params[j].val = ord
    /\ o.obj = "ACCRDBRM" => \E j \in 1..Len(o.params) : o.params[j].cp = "TYPDEFNAM"

(* Once access is granted, the byte order is known, or about to be read.   *)
OrderAhead ==
    /\ \A i \in 1..Len(answer) : OrderNamed(answer[i], order)
    /\ OrderNamed(object, order)
    /\ granted => \/ typdefnam = order
                  \/ Sends(answer, "ACCRDBRM")
                  \/ object.obj = "ACCRDBRM" /\ \E q \in Ahead : q.cp = "TYPDEFNAM"
    /\ Sends(answer, "SQLDARD") \/ object.obj = "SQLDARD" => typdefnam = order

IInv == TypeOK /\ FramingInv /\ OrderAhead /\ OnlyPointUnmarked

=============================================================================
