----------------------------- MODULE ReplyChain -----------------------------
(***************************************************************************)
(* One DRDA connection as libdrda drives it (src/src/libdrda/drda.c).      *)
(*                                                                         *)
(* Every drda_* command writes a request to the socket and then runs       *)
(* chain_read(): read() a segment of the byte stream, hand the DSSs in it  *)
(* to ddm_read_dss() one after the other, and read again if the last of    *)
(* them has a chained format.  Nothing but the format of that last DSS     *)
(* tells the client whether the reply is over.                             *)
(*                                                                         *)
(* The bytes in flight are a sequence of DSSs, each with the command it    *)
(* answers and its format byte.  The sequence only grows; the client's     *)
(* position in it is the length of "by".  A read() may return any          *)
(* non-empty prefix of what was sent, also one that ends inside a DSS.     *)
(* The server and the TCP connection are the environment: the server       *)
(* answers requests in order, DSS by DSS, and may go away at any time.     *)
(***************************************************************************)
EXTENDS Integers, Sequences

CONSTANTS
    Formats,    \* the DSS formats the server uses in its replies
    MaxCmds,    \* bound: commands the application issues
    MaxChain    \* bound: DSSs in one reply

(* The format bytes ddm_read_dss() tells apart.                            *)
RPYDSS          ==  2    \* 0x02 Reply Message
OBJDSS          ==  3    \* 0x03 Object Response
RPYDSS_CHAIN    == 66    \* 0x42 Chained Reply Message, same RC
RPYDSS_CHAIN_RC == 82    \* 0x52 Chained Reply Message, different RC
OBJDSS_CHAIN    == 83    \* 0x53 Chained Object Message, same RC
DSSFormats == {RPYDSS, OBJDSS, RPYDSS_CHAIN, RPYDSS_CHAIN_RC, OBJDSS_CHAIN}
EndsReply(f) == f \in {RPYDSS, OBJDSS}

ASSUME FormatsAssumption == /\ Formats \subseteq DSSFormats
                            /\ \E f \in Formats : EndsReply(f)
ASSUME BoundsAssumption == MaxCmds \in Nat /\ MaxChain \in Nat \ {0}

VARIABLES
    cmd,       \* commands issued so far; the latest is the current one
    pc,        \* "idle", "reading" (in chain_read), "dead" (never returns)
    ret,       \* what the latest command returned: the sign of chain_read()'s
               \* length, or "sqlca" if it goes by the SQLCA instead
    front,     \* format byte at the front of the buffer, 0: still the request
    by,        \* by[i]: the command that consumed DSS i of the stream
    mid,       \* the next unread byte is inside DSS Len(by)
    stream,    \* the DSSs the server has sent
    answered,  \* requests the server has answered in full
    sent,      \* DSSs it has sent of the reply it is in
    conn,      \* "up", "closed" (read gives 0), "reset" (gives -1, then 0)
    torn,      \* history: some read() ended inside a DSS
    objcut     \* history: some read() ended after a chained object

client == <<cmd, pc, ret, front, by, mid, torn, objcut>>
server == <<stream, answered, sent>>
vars   == <<client, server, conn>>

DSS == [cmd : Nat, fmt : Formats]

(* A read() that ends inside a DSS, or after a chained object, breaks the  *)
(* framing chain_read() relies on.                                         *)
cut == torn \/ objcut

TypeOK ==
    /\ cmd \in 0..MaxCmds
    /\ pc \in {"idle", "reading", "dead"}
    /\ ret \in {"none", "neg", "zero", "pos", "sqlca"}
    /\ front \in {0} \cup Formats
    /\ by \in Seq(Nat)
    /\ mid \in BOOLEAN /\ torn \in BOOLEAN /\ objcut \in BOOLEAN
    /\ stream \in Seq(DSS)
    /\ answered \in 0..MaxCmds
    /\ sent \in Nat
    /\ conn \in {"up", "closed", "reset"}

Init ==
    /\ cmd = 0 /\ pc = "idle" /\ ret = "none" /\ front = 0
    /\ by = <<>> /\ mid = FALSE
    /\ stream = <<>> /\ answered = 0 /\ sent = 0
    /\ conn = "up"
    /\ torn = FALSE /\ objcut = FALSE

-----------------------------------------------------------------------------
(* The client.                                                             *)

Unread == Len(stream) - Len(by)
Drained == Unread = 0

\* by after the current command consumed j more DSSs
ByPlus(j) == [i \in 1..(Len(by) + j) |-> IF i <= Len(by) THEN by[i] ELSE cmd]

\* mutant: of the two chained reply formats only 0x42 is recognized
OneChainedFormat(f) == f = RPYDSS_CHAIN

\* mutant: an object never ends a reply
ObjectsGoOn(f) == f # RPYDSS

(* The loop condition of chain_read(): is there another segment to read?   *)
KeepsReading(f) == f \in {RPYDSS_CHAIN, RPYDSS_CHAIN_RC}

(* What a command returns when chain_read() returns a length of this sign: *)
(* that length.  Only drda_prpsqlstt() ignores it, and returns -1 if the   *)
(* SQLCA the connection holds has a sqlcode and the length of its own      *)
(* request otherwise; which SQLCA that is, of this reply or of an earlier  *)
(* one, is modelled in Cursor.  The commands differ in nothing else here,  *)
(* so which one it was is chosen only now.                                 *)
Results(sign) == {sign, "sqlca"}

(* The segment ended with a DSS of format f.  Once bytes were read, the    *)
(* length is positive.                                                     *)
AfterSegment(f) ==
    /\ pc'  = IF KeepsReading(f) THEN "reading" ELSE "idle"
    /\ ret' \in IF KeepsReading(f) THEN {ret} ELSE Results("pos")

\* mutant: replies are read into a buffer of their own
FrontKept == front

\* mutant: ... which nobody initialized
FrontUninitialized == 255

\* buf overlays the request just written: it holds no reply yet
FrontOfRequest == 0

(* A drda_* command builds its request in out_buf and writes it; the       *)
(* result of write() is ignored.  Writing to a connection the peer has     *)
(* closed may raise SIGPIPE, which nothing in the library handles.         *)
Send ==
    /\ pc = "idle" /\ cmd < MaxCmds
    /\ cmd' = cmd + 1
    /\ pc' \in {"reading"} \cup (IF conn = "up" THEN {} ELSE {"dead"})
    /\ ret' = "none"
    /\ front' = FrontOfRequest
    /\ UNCHANGED <<by, mid, torn, objcut, server, conn>>

(* read() returned j whole DSSs, the first one at the front of buf.        *)
ReadSegment(j) ==
    /\ pc = "reading" /\ ~mid
    /\ j \in 1..Unread
    /\ by' = ByPlus(j)
    /\ front' = stream[Len(by) + 1].fmt
    /\ AfterSegment(stream[Len(by) + j].fmt)
    /\ objcut' = (objcut \/ stream[Len(by) + j].fmt = OBJDSS_CHAIN)
    /\ UNCHANGED <<cmd, mid, torn, server, conn>>

(* read() began inside a DSS, or ended inside one (m).  ddm_read_dss()     *)
(* then takes lengths, code points and the format from whatever bytes      *)
(* buf holds there: the command may return, read on, or never come back    *)
(* (a zero length loops for ever).                                         *)
ReadGarbled(j, m) ==
    /\ pc = "reading" /\ (mid \/ m)
    /\ j \in 0..Unread /\ (~mid => j > 0)
    /\ by' = ByPlus(j)
    /\ mid' = m
    /\ torn' = TRUE
    /\ front' \in Formats
    /\ pc' \in {"idle", "reading", "dead"}
    /\ ret' \in IF pc' = "idle" THEN Results("pos") ELSE {ret}
    /\ UNCHANGED <<cmd, objcut, server, conn>>

(* read() returned 0 or -1.  The do-while handles the DSS at the front of  *)
(* buf all the same.  If that is still the request, nothing in it is a     *)
(* reply and its format ends the loop: chain_read() returns 0 or -1.        *)
(* Otherwise it is the first DSS of the previous segment, handled once     *)
(* more; if its format is chained, chain_read() reads again, and again.    *)
ReadNothing ==
    /\ pc = "reading" /\ conn # "up" /\ Drained
    /\ conn' = "closed"
    /\ IF front = 0
       THEN pc' = "idle" /\ ret' \in Results(IF conn = "reset" THEN "neg" ELSE "zero")
       ELSE AfterSegment(front)
    /\ UNCHANGED <<cmd, front, by, mid, torn, objcut, server>>

ClientRead ==
    \/ \E j \in 1..Unread : ReadSegment(j)
    \/ \E j \in 0..Unread, m \in BOOLEAN : ReadGarbled(j, m)
    \/ ReadNothing

-----------------------------------------------------------------------------
(* The environment.                                                        *)

(* The server sends the next DSS of the reply to the oldest request it has *)
(* not answered; a reply has at most MaxChain DSSs.                        *)
ServerSend(f) ==
    /\ conn = "up" /\ answered < cmd
    /\ f \in Formats /\ (sent + 1 >= MaxChain => EndsReply(f))
    /\ stream' = Append(stream, [cmd |-> answered + 1, fmt |-> f])
    /\ IF EndsReply(f)
       THEN answered' = answered + 1 /\ sent' = 0
       ELSE answered' = answered     /\ sent' = sent + 1
    /\ UNCHANGED <<client, conn>>

(* The connection goes away; what was sent after DSS k never arrives.      *)
ConnectionLost(k, how) ==
    /\ conn = "up"
    /\ k \in Len(by)..Len(stream)
    /\ stream' = SubSeq(stream, 1, k)
    /\ conn' = how
    /\ UNCHANGED <<client, answered, sent>>

Next ==
    \/ Send
    \/ \E j \in 1..Unread : ReadSegment(j)
    \/ \E j \in 0..Unread, m \in BOOLEAN : ReadGarbled(j, m)
    \/ ReadNothing
    \/ \E f \in Formats : ServerSend(f)
    \/ \E k \in Len(by)..Len(stream), how \in {"closed", "reset"} :
          ConnectionLost(k, how)

(* A blocked read() returns when there is something to return, and a       *)
(* server that is up finishes its replies.  Nothing obliges the            *)
(* application to issue another command, or the connection to break.       *)
Fairness == WF_vars(ClientRead) /\ WF_vars(\E f \in Formats : ServerSend(f))

Spec == Init /\ [][Next]_vars /\ Fairness

-----------------------------------------------------------------------------
(* What the exchange promises while reads respect the framing.             *)

(* Whatever a command consumes belongs to the reply to that command: no    *)
(* reply is mistaken for the answer to another request.  Commands match    *)
(* replies by position only (the correlation identifier is always 42).     *)
OwnReply == ~cut => \A i \in 1..Len(by) : by[i] = stream[i].cmd

(* When a command has returned, its reply is off the socket: the server    *)
(* has answered everything and nothing is left for the next command.       *)
NothingLeftOver ==
    ~cut /\ pc = "idle" => Drained /\ (conn = "up" => answered = cmd)

(* chain_read() has no timeout, so it must never wait for a DSS the server *)
(* has no reason to send: the two sides would wait for each other.         *)
ServerOwes ==
    ~cut /\ pc = "reading" /\ Drained /\ conn = "up" => answered < cmd

(* A positive result means a DSS of this very reply was handled; 0 and -1  *)
(* mean that none was, and that the connection is gone.  That holds of     *)
(* every command but drda_prpsqlstt(), which can succeed when the server   *)
(* has gone and fail by an SQLCA of an earlier statement.                  *)
ResultSound ==
    ~cut /\ pc = "idle" /\ cmd > 0 /\ ret # "sqlca" =>
        IF ret = "pos" THEN Len(by) > 0 /\ by[Len(by)] = cmd
                       ELSE conn # "up" /\ \A i \in 1..Len(by) : by[i] # cmd

(* A command returns, unless the framing is broken or the connection goes  *)
(* away in the middle of its reply.                                        *)
CommandReturns ==
    pc = "reading" ~>
        (pc # "reading" \/ cut \/ (conn # "up" /\ front # 0))

-----------------------------------------------------------------------------
(* The inductive invariant behind the safety properties.                   *)

Last(s) == s[Len(s)]

(* The reader's position, and commands and answers within bounds.          *)
Positions ==
    /\ Len(by) <= Len(stream)
    /\ answered <= cmd
    /\ \A i \in 1..Len(stream) : stream[i].cmd \in 1..cmd
    /\ mid => torn

(* Replies follow each other in the stream, in the order of the commands.  *)
RepliesInOrder ==
    \A i \in 1..(Len(stream) - 1) :
        stream[i+1].cmd = IF EndsReply(stream[i].fmt) THEN stream[i].cmd + 1
                                                      ELSE stream[i].cmd

(* The server goes on where the stream ends.                               *)
ServerPosition ==
    conn = "up" =>
        answered = IF Len(stream) = 0 THEN 0
                   ELSE IF EndsReply(Last(stream).fmt) THEN Last(stream).cmd
                   ELSE Last(stream).cmd - 1

(* In sync, a reading command has only its own reply ahead of it ...       *)
OwnReplyAhead ==
    ~cut /\ pc = "reading" =>
        /\ \A i \in (Len(by) + 1)..Len(stream) : stream[i].cmd = cmd
        /\ conn = "up" => answered >= cmd - 1

(* ... and the front of the buffer tells whether it has consumed any.      *)
FrontSound ==
    ~cut /\ pc = "reading" =>
        IF front = 0 THEN \A i \in 1..Len(by) : by[i] # cmd
                     ELSE Len(by) > 0 /\ by[Len(by)] = cmd

IInv == /\ TypeOK /\ Positions /\ RepliesInOrder /\ ServerPosition
        /\ OwnReply /\ OwnReplyAhead /\ FrontSound
        /\ NothingLeftOver /\ ServerOwes /\ ResultSound

-----------------------------------------------------------------------------
(* Stop-and-wait, the abstract specification.                              *)

\* How much of the current reply the client has consumed
heard == IF Len(by) = 0 \/ stream[Len(by)].cmd # cmd THEN "none"
         ELSE IF EndsReply(stream[Len(by)].fmt) THEN "whole" ELSE "part"

RR == INSTANCE RequestReply WITH
         calls <- cmd, phase <- pc, heard <- IF cut THEN "none" ELSE heard,
         lost <- conn # "up", sync <- ~cut

(* The exchange implements stop-and-wait for as long as it is in sync.     *)
StopAndWait == RR!Spec

-----------------------------------------------------------------------------
(* What the repository says of the program and the code does not do.       *)

(* ddm_read_dss() knows 0x53 as "Chained Object Message, same RC": more of *)
(* the reply follows.  So a command whose reads all end on DSS boundaries  *)
(* should still consume its own reply only.                                *)
OwnReplyWithChainedObjects ==
    ~torn => \A i \in 1..Len(by) : by[i] = stream[i].cmd

=============================================================================
