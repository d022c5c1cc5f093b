--------------------------- MODULE RequestFraming ---------------------------
(***************************************************************************)
(* How libdrda builds a request (src/src/libdrda/drda.c, ddmwrite.c).      *)
(*                                                                         *)
(* Every drda_* command writes its data stream structures (DSS), the       *)
(* objects in them and their parameters into out_buf, front to back.  A    *)
(* parameter is written with its length.  A DSS or an object gets a zero   *)
(* length first; the command adds up by hand what the writers return and   *)
(* writes the sum over the zero when the last part is in place.  The       *)
(* server has nothing but these lengths to find its way.                   *)
(*                                                                         *)
(* Contents are left out: what matters of a part is where it begins, how   *)
(* long it says it is, and how deep it is nested.  out_buf has 4096 bytes, *)
(* and nothing checks that a request fits: what the code does with one     *)
(* that does not is undefined, and not modelled.  One that fits is not     *)
(* long enough to overflow the 16 bits of a length.                        *)
(***************************************************************************)
EXTENDS Integers, Sequences

CONSTANTS
    NameSizes,  \* lengths of user, password, client and host names
    SqlSizes    \* lengths of SQL statements

ASSUME SizesAssumption == NameSizes \subseteq Nat /\ SqlSizes \subseteq Nat

VARIABLES
    request,  \* the calls of ddm_write_* the current command makes, in order
    done,     \* how many of them have been made
    out_pos,  \* where the next part goes in out_buf
    parts,    \* what is in out_buf of the current request
    open,     \* the lengths being added up: rqsdss_len, then that of the
              \* object in it, then mgrlvlls_len
    tot_len,  \* tot_len, or rqsdss_len in the commands that have one DSS
    rqscrr    \* counter of requests

framing == <<request, done, out_pos, parts, open, tot_len, rqscrr>>

(* A call of a writer: it writes the length "field" (0: to be filled in    *)
(* later), moves out_pos by "advance", and returns "result".               *)
Call == [kind : {"dss", "object", "parameter"}, typ : 0..255, depth : 0..3,
         field : Nat, advance : Nat, result : Nat]

\* A part in the buffer; the two bytes of its length hold "len"
Part == [kind : {"dss", "object", "parameter"}, typ : 0..255, depth : 0..3,
         at : Nat, len : Nat]

FramingTypeOK ==
    /\ request \in Seq(Call)
    /\ done \in 0..Len(request)
    /\ out_pos \in Nat
    /\ parts \in Seq(Part)
    /\ open \in Seq([part : Nat, len : Nat])
    /\ tot_len \in Nat
    /\ rqscrr \in Nat

FramingInit ==
    /\ request = <<>> /\ done = 0
    /\ out_pos = 0 /\ parts = <<>> /\ open = <<>>
    /\ tot_len = 0 /\ rqscrr = 0

-----------------------------------------------------------------------------
(* The writers.                                                            *)

DSS(t)    == [kind |-> "dss", typ |-> t, depth |-> 0,
              field |-> 0, advance |-> 6, result |-> 6]
Object(d) == [kind |-> "object", typ |-> 0, depth |-> d,
              field |-> 0, advance |-> 4, result |-> 4]

\* mutant: the result forgets the four bytes of length and code point
ResultWithoutHeader(d, n) ==
    [kind |-> "parameter", typ |-> 0, depth |-> d,
     field |-> n, advance |-> n, result |-> n - 4]

\* A parameter of n bytes, its length and code point among them
Parameter(d, n) ==
    [kind |-> "parameter", typ |-> 0, depth |-> d,
     field |-> n, advance |-> n, result |-> n]

\* Types of a DSS.  Bit 0x40: another DSS follows; 0x10: of the same request
RQSDSS       == 1
RQSDSS_CHAIN == 81
OBJDSS       == 3
Chained(t)   == (t \div 64) % 2 = 1
SameRequest(t) == (t \div 16) % 2 = 1

EXCSAT    == Object(1)
MGRLVLLS  == Object(2)
ACCSEC    == Object(1)
SECCHK    == Object(1)
ACCRDB    == Object(1)
EXCSQLIMM == Object(1)
BGNBND    == Object(1)
ENDBND    == Object(1)
PRPSQLSTT == Object(1)
OPNQRY    == Object(1)
CNTQRY    == Object(1)

\* A manager level has no length: whoever reads it takes four bytes
MGRLVL     == Parameter(3, 4)
EXTNAM(n)  == Parameter(2, n + 4)
SRVCLSNM   == Parameter(2, 8 + 8)
SRVNAM(n)  == Parameter(2, n + 4)
SECMEC     == Parameter(2, 6)
USRID(n)   == Parameter(2, n + 4)
PASSWORD(n) == Parameter(2, n + 4)
RDBNAM     == Parameter(2, 22)
RDBACCCL   == Parameter(2, 6)
TYPDEFNAM  == Parameter(2, 13)
PRDID      == Parameter(2, 12)
CRRTKN     == Parameter(2, 23)
TYPDEFOVR  == Parameter(2, 10)
RDBCMTOK   == Parameter(2, 5)
PKGNAMCSN  == Parameter(2, 68)
SQLSTT(n)  == Parameter(1, n + 8)
RDBCMM     == Parameter(1, 4)
PKGNAMCT   == Parameter(2, 66)
PKGISOLVL  == Parameter(2, 6)
QRYBLKSZ   == Parameter(2, 8)
RTNSQLDA   == Parameter(2, 5)

-----------------------------------------------------------------------------
(* The commands: the writers each of them calls.                           *)

excsat(ext, host) ==
    <<DSS(RQSDSS), EXCSAT, EXTNAM(ext), MGRLVLLS, MGRLVL, MGRLVL, MGRLVL,
      MGRLVL, MGRLVL, SRVCLSNM, SRVNAM(host)>>
accsec == <<DSS(RQSDSS), ACCSEC, SECMEC>>
secchk(user, pwd) ==
    <<DSS(RQSDSS), SECCHK, SECMEC, RDBNAM, USRID(user), PASSWORD(pwd)>>
accrdb ==
    <<DSS(RQSDSS), ACCRDB, RDBACCCL, CRRTKN, RDBNAM, PRDID, TYPDEFNAM, TYPDEFOVR>>
excsqlimm(sql) ==
    <<DSS(RQSDSS_CHAIN), EXCSQLIMM, PKGNAMCSN, RDBCMTOK, DSS(OBJDSS), SQLSTT(sql)>>
rdbcmm == <<DSS(RQSDSS), RDBCMM>>
bgnbnd == <<DSS(RQSDSS), BGNBND, PKGNAMCT, PKGISOLVL>>
endbnd == <<DSS(RQSDSS), ENDBND, PKGNAMCT>>

\* mutant: the statement goes into a DSS of its own, but no chain announces it
PrepareUnchained(sql) ==
    <<DSS(RQSDSS), PRPSQLSTT, PKGNAMCSN, RTNSQLDA, DSS(OBJDSS), SQLSTT(sql)>>

prpsqlstt(sql) ==
    <<DSS(RQSDSS_CHAIN), PRPSQLSTT, PKGNAMCSN, RTNSQLDA, DSS(OBJDSS), SQLSTT(sql)>>
opnqry == <<DSS(RQSDSS), OPNQRY, PKGNAMCSN, QRYBLKSZ>>
cntqry == <<DSS(RQSDSS), CNTQRY, PKGNAMCSN, QRYBLKSZ>>

Commands == {"excsat", "accsec", "secchk", "accrdb", "excsqlimm", "rdbcmm",
             "bgnbnd", "endbnd", "prpsqlstt", "opnqry", "cntqry"}

\* What command c may write, given the lengths of the texts it is passed
Requests(c) ==
    CASE c = "excsat"    -> {excsat(n, h) : n \in NameSizes, h \in NameSizes}
      [] c = "accsec"    -> {accsec}
      [] c = "secchk"    -> {secchk(u, p) : u \in NameSizes, p \in NameSizes}
      [] c = "accrdb"    -> {accrdb}
      [] c = "excsqlimm" -> {excsqlimm(n) : n \in SqlSizes}
      [] c = "rdbcmm"    -> {rdbcmm}
      [] c = "bgnbnd"    -> {bgnbnd}
      [] c = "endbnd"    -> {endbnd}
      [] c = "prpsqlstt" -> {prpsqlstt(n) : n \in SqlSizes}
      [] c = "opnqry"    -> {opnqry}
      [] OTHER           -> {cntqry}

-----------------------------------------------------------------------------
(* Building a request.                                                     *)

\* drda_buffer_init() starts every command at the front of out_buf
BufferInit == 0

BeginRequest(c) ==
    /\ request' \in Requests(c)
    /\ done' = 0
    /\ out_pos' = BufferInit
    /\ parts' = <<>> /\ open' = <<>> /\ tot_len' = 0
    /\ UNCHANGED rqscrr

NextCall == request[done + 1]
IsContainer(c) == c.kind # "parameter"

\* The innermost length being added up grows by n
AddToInnermost(s, n) ==
    IF s = <<>> THEN s ELSE [s EXCEPT ![Len(s)].len = @ + n]

(* One call of ddm_write_*.  Its result starts a length of its own, or     *)
(* counts towards the one the command is adding up.                        *)
WritePart ==
    /\ done < Len(request) /\ NextCall.depth = Len(open)
    /\ done' = done + 1
    /\ parts' = Append(parts, [kind |-> NextCall.kind, typ |-> NextCall.typ,
                               depth |-> NextCall.depth, at |-> out_pos,
                               len |-> NextCall.field])
    /\ out_pos' = out_pos + NextCall.advance
    /\ open' = IF IsContainer(NextCall)
               THEN Append(open, [part |-> Len(parts) + 1, len |-> NextCall.result])
               ELSE AddToInnermost(open, NextCall.result)
    /\ rqscrr' = IF NextCall.kind = "dss" /\ ~SameRequest(NextCall.typ)
                 THEN rqscrr + 1 ELSE rqscrr
    /\ UNCHANGED <<request, tot_len>>

Innermost == open[Len(open)]
Outer == SubSeq(open, 1, Len(open) - 1)

\* mutant: a nested length is written, but not added to the enclosing one
NestedForgotten == Outer

\* The enclosing object grows by the one that has been completed
EnclosingGrown == AddToInnermost(Outer, Innermost.len)

\* mutant: only the last DSS is counted
LastOnly == Innermost.len

\* Completed DSSs add up to the length of the request
TotalGrown == tot_len + Innermost.len

(* The last part of a DSS or object is in place: its length is written     *)
(* over the zero.                                                          *)
CompletePart ==
    /\ open # <<>>
    /\ done < Len(request) => NextCall.depth < Len(open)
    /\ parts' = [parts EXCEPT ![Innermost.part].len = Innermost.len]
    /\ open' = EnclosingGrown
    /\ tot_len' = IF Len(open) = 1 THEN TotalGrown ELSE tot_len
    /\ UNCHANGED <<request, done, out_pos, rqscrr>>

\* The command can hand the request to write()
Complete == request # <<>> /\ done = Len(request) /\ open = <<>>

\* write() sends tot_len bytes of out_buf, where the reply will be read
Sent ==
    /\ Complete
    /\ request' = <<>> /\ done' = 0
    /\ parts' = <<>> /\ tot_len' = 0
    /\ UNCHANGED <<out_pos, open, rqscrr>>

-----------------------------------------------------------------------------
(* What a request promises.                                                *)

IsOpen(i) == \E k \in 1..Len(open) : open[k].part = i

\* No part between i and j, or between i and the end, is outside of part i
Within(i, j) == \A k \in (i + 1)..(j - 1) : parts[k].depth > parts[i].depth

(* Whoever walks the request by its lengths meets every part at its place: *)
(* the length of a completed DSS, object or parameter leads to the next    *)
(* part that is not inside it, and that of the last ones to the end of     *)
(* what was written (the sums of the drda_* commands).                     *)
LengthsMeet ==
    \A i \in 1..Len(parts) : ~IsOpen(i) =>
        /\ \A j \in (i + 1)..Len(parts) :
              Within(i, j) /\ parts[j].depth <= parts[i].depth =>
                  parts[j].at = parts[i].at + parts[i].len
        /\ Within(i, Len(parts) + 1) => out_pos = parts[i].at + parts[i].len

(* write() is told to send what was written, from the first DSS on, no     *)
(* more and no less, however many DSSs the command chains.                 *)
WholeRequestSent ==
    Complete => /\ tot_len = out_pos
                /\ parts[1].at = 0 /\ parts[1].kind = "dss"

DSSs(s) == {i \in 1..Len(s) : s[i].kind = "dss"}

(* A DSS is marked as chained if and only if another one follows it in the *)
(* same request: the server neither waits for a DSS that will not come nor *)
(* takes one for a request of its own.                                     *)
ChainedIfContinued ==
    Complete =>
        \A i \in DSSs(parts) : Chained(parts[i].typ) <=> \E j \in DSSs(parts) : j > i

-----------------------------------------------------------------------------
(* The inductive invariant behind them.                                    *)

(* Every writer returns what it has moved out_pos by, and that is the      *)
(* length it wrote; a parameter is inside something; a request begins with *)
(* a DSS, and its DSSs are chained.                                        *)
Balanced(c) == /\ c.advance = c.result
               /\ c.kind = "parameter" => c.field = c.result /\ c.depth > 0
Proper(r) ==
    /\ \A i \in 1..Len(r) : Balanced(r[i])
    /\ Len(r) > 0 /\ r[1].kind = "dss" /\ r[1].depth = 0
    /\ \A i \in DSSs(r) : Chained(r[i].typ) <=> \E j \in DSSs(r) : j > i
WellBuilt == request # <<>> => Proper(request)

\* The buffer holds what has been called for
Mirror == /\ Len(parts) = done
          /\ \A i \in 1..done : /\ parts[i].kind = request[i].kind
                               /\ parts[i].typ = request[i].typ
                               /\ parts[i].depth = request[i].depth
          /\ Len(parts) > 0 => parts[1].at = 0
          /\ request # <<>> /\ done = 0 => out_pos = 0
          /\ request = <<>> => open = <<>>

\* The lengths being added up are those of the parts around the next one
Enclosing == \A k \in 1..Len(open) :
    /\ open[k].part \in 1..Len(parts)
    /\ parts[open[k].part].depth = k - 1
    /\ \A i \in (open[k].part + 1)..Len(parts) : parts[i].depth >= k

\* Each of them leads to where the next one within it began
Sums == \A k \in 1..Len(open) :
    parts[open[k].part].at + open[k].len =
        IF k = Len(open) THEN out_pos ELSE parts[open[k + 1].part].at
Totals == request # <<>> =>
    tot_len = IF open = <<>> THEN out_pos ELSE parts[open[1].part].at

FramingInv == /\ FramingTypeOK /\ WellBuilt /\ Mirror /\ Enclosing
              /\ Sums /\ Totals /\ LengthsMeet

=============================================================================
