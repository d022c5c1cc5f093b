--------------------------- MODULE Session_proofs ---------------------------
(***************************************************************************)
(* Proofs about Session: the lengths of every request meet, for texts of   *)
(* any length; requests whose texts are short enough fit into the buffer;  *)
(* column descriptions are decoded in the byte order of their server; and  *)
(* a clear err_set means that there is nothing to clear.                   *)
(***************************************************************************)
EXTENDS Session, SequenceTheorems, TLAPS

-----------------------------------------------------------------------------
(* Requests.                                                               *)

\* A call whose three numbers agree
GoodCall == {c \in Call : Balanced(c)}

(* Each writer returns what it has moved out_pos by.                       *)
LEMMA Writers ==
    /\ \A t \in {1, 3, 81} : DSS(t) \in GoodCall
    /\ \A d \in 1..2 : Object(d) \in GoodCall
    /\ \A d \in 1..3, n \in Nat : Parameter(d, n) \in GoodCall
BY DEF DSS, Object, Parameter, GoodCall, Call, Balanced

(* A chained DSS says so in bit 0x40 of its type.                          *)
LEMMA ChainBits == Chained(81) /\ ~Chained(1) /\ ~Chained(3)
BY DEF Chained

(* A sequence of good calls with one DSS, at its front and not chained, is *)
(* a proper request ...                                                    *)
LEMMA OneDSS ==
    ASSUME NEW r \in Seq(GoodCall), Len(r) > 0,
           r[1].kind = "dss", r[1].depth = 0, r[1].typ = 1,
           \A i \in 2..Len(r) : r[i].kind # "dss"
    PROVE  r \in Seq(Call) /\ Proper(r)
<1>1. \A i \in 1..Len(r) : r[i] \in GoodCall
  BY ElementOfSeq
<1>2. r \in Seq(Call)
  BY <1>1, SeqDef DEF GoodCall
<1>3. DSSs(r) = {1}
  BY DEF DSSs
<1> QED
  BY <1>1, <1>2, <1>3, ChainBits DEF Proper, GoodCall

(* ... and so is one with a chained DSS at its front and another, not      *)
(* chained, in fifth place.                                                *)
LEMMA TwoDSSs ==
    ASSUME NEW r \in Seq(GoodCall), Len(r) = 6,
           r[1].kind = "dss", r[1].depth = 0, r[1].typ = 81,
           r[5].kind = "dss", r[5].typ = 3,
           \A i \in {2, 3, 4, 6} : r[i].kind # "dss"
    PROVE  r \in Seq(Call) /\ Proper(r)
<1>1. \A i \in 1..Len(r) : r[i] \in GoodCall
  BY ElementOfSeq
<1>2. r \in Seq(Call)
  BY <1>1, SeqDef DEF GoodCall
<1>3. DSSs(r) = {1, 5}
  BY DEF DSSs
<1> QED
  BY <1>1, <1>2, <1>3, ChainBits DEF Proper, GoodCall

(* The request of every command, whatever the lengths of its texts.        *)
LEMMA RequestsProper ==
    ASSUME NEW c \in Commands, NEW r \in Requests(c)
    PROVE  r \in Seq(Call) /\ Proper(r)
<1> USE SizesAssumption
<1> DEFINE Good(s) == s \in Seq(Call) /\ Proper(s)
<1>1. \A n, h \in Nat : Good(excsat(n, h))
  <2> SUFFICES ASSUME NEW n \in Nat, NEW h \in Nat PROVE Good(excsat(n, h))
    OBVIOUS
  <2> DEFINE s == excsat(n, h)
  <2>1. s \in Seq(GoodCall) /\ Len(s) = 11
    BY Writers DEF excsat, RQSDSS, EXCSAT, EXTNAM, MGRLVLLS, MGRLVL,
    SRVCLSNM, SRVNAM
  <2>2. /\ s[1].kind = "dss" /\ s[1].depth = 0 /\ s[1].typ = 1
        /\ \A i \in 2..11 : s[i].kind # "dss"
    BY DEF excsat, RQSDSS, EXCSAT, EXTNAM, MGRLVLLS, MGRLVL, SRVCLSNM,
    SRVNAM, DSS, Object, Parameter
  <2> HIDE DEF s
  <2>3. Len(s) > 0 /\ \A i \in 2..Len(s) : s[i].kind # "dss"
    BY <2>1, <2>2
  <2>4. s \in Seq(Call) /\ Proper(s)
    BY ONLY <2>1, <2>2, <2>3, OneDSS
  <2> QED
    BY <2>4 DEF s
<1>2. Good(accsec)
  <2> DEFINE s == accsec
  <2>1. s \in Seq(GoodCall) /\ Len(s) = 3
    BY Writers DEF accsec, RQSDSS, ACCSEC, SECMEC
  <2>2. /\ s[1].kind = "dss" /\ s[1].depth = 0 /\ s[1].typ = 1
        /\ \A i \in 2..3 : s[i].kind # "dss"
    BY DEF accsec, RQSDSS, ACCSEC, SECMEC, DSS, Object, Parameter
  <2> HIDE DEF s
  <2>3. Len(s) > 0 /\ \A i \in 2..Len(s) : s[i].kind # "dss"
    BY <2>1, <2>2
  <2>4. s \in Seq(Call) /\ Proper(s)
    BY ONLY <2>1, <2>2, <2>3, OneDSS
  <2> QED
    BY <2>4 DEF s
<1>3. \A n, h \in Nat : Good(secchk(n, h))
  <2> SUFFICES ASSUME NEW n \in Nat, NEW h \in Nat PROVE Good(secchk(n, h))
    OBVIOUS
  <2> DEFINE s == secchk(n, h)
  <2>1. s \in Seq(GoodCall) /\ Len(s) = 6
    BY Writers DEF secchk, RQSDSS, SECCHK, SECMEC, RDBNAM, USRID, PASSWORD
  <2>2. /\ s[1].kind = "dss" /\ s[1].depth = 0 /\ s[1].typ = 1
        /\ \A i \in 2..6 : s[i].kind # "dss"
    BY DEF secchk, RQSDSS, SECCHK, SECMEC, RDBNAM, USRID, PASSWORD, DSS,
    Object, Parameter
  <2> HIDE DEF s
  <2>3. Len(s) > 0 /\ \A i \in 2..Len(s) : s[i].kind # "dss"
    BY <2>1, <2>2
  <2>4. s \in Seq(Call) /\ Proper(s)
    BY ONLY <2>1, <2>2, <2>3, OneDSS
  <2> QED
    BY <2>4 DEF s
<1>4. Good(accrdb)
  <2> DEFINE s == accrdb
  <2>1. s \in Seq(GoodCall) /\ Len(s) = 8
    BY Writers DEF accrdb, RQSDSS, ACCRDB, RDBACCCL, CRRTKN, RDBNAM, PRDID,
    TYPDEFNAM, TYPDEFOVR
  <2>2. /\ s[1].kind = "dss" /\ s[1].depth = 0 /\ s[1].typ = 1
        /\ \A i \in 2..8 : s[i].kind # "dss"
    BY DEF accrdb, RQSDSS, ACCRDB, RDBACCCL, CRRTKN, RDBNAM, PRDID,
    TYPDEFNAM, TYPDEFOVR, DSS, Object, Parameter
  <2> HIDE DEF s
  <2>3. Len(s) > 0 /\ \A i \in 2..Len(s) : s[i].kind # "dss"
    BY <2>1, <2>2
  <2>4. s \in Seq(Call) /\ Proper(s)
    BY ONLY <2>1, <2>2, <2>3, OneDSS
  <2> QED
    BY <2>4 DEF s
<1>5. \A n \in Nat : Good(excsqlimm(n))
  <2> SUFFICES ASSUME NEW n \in Nat PROVE Good(excsqlimm(n))
    OBVIOUS
  <2> DEFINE s == excsqlimm(n)
  <2>1. s \in Seq(GoodCall) /\ Len(s) = 6
    BY Writers DEF excsqlimm, RQSDSS_CHAIN, OBJDSS, EXCSQLIMM, PKGNAMCSN,
    RDBCMTOK, SQLSTT
  <2>2. /\ s[1].kind = "dss" /\ s[1].depth = 0 /\ s[1].typ = 81
        /\ s[5].kind = "dss" /\ s[5].typ = 3
        /\ \A i \in {2, 3, 4, 6} : s[i].kind # "dss"
    BY DEF excsqlimm, RQSDSS_CHAIN, OBJDSS, EXCSQLIMM, PKGNAMCSN, RDBCMTOK,
    SQLSTT, DSS, Object, Parameter
  <2> HIDE DEF s
  <2>3. Good(s)
    BY <2>1, <2>2, TwoDSSs
  <2> QED
    BY <2>3 DEF s
<1>6. Good(rdbcmm)
  <2> DEFINE s == rdbcmm
  <2>1. s \in Seq(GoodCall) /\ Len(s) = 2
    BY Writers DEF rdbcmm, RQSDSS, RDBCMM
  <2>2. /\ s[1].kind = "dss" /\ s[1].depth = 0 /\ s[1].typ = 1
        /\ \A i \in 2..2 : s[i].kind # "dss"
    BY DEF rdbcmm, RQSDSS, RDBCMM, DSS, Object, Parameter
  <2> HIDE DEF s
  <2>3. Len(s) > 0 /\ \A i \in 2..Len(s) : s[i].kind # "dss"
    BY <2>1, <2>2
  <2>4. s \in Seq(Call) /\ Proper(s)
    BY ONLY <2>1, <2>2, <2>3, OneDSS
  <2> QED
    BY <2>4 DEF s
<1>7. Good(bgnbnd)
  <2> DEFINE s == bgnbnd
  <2>1. s \in Seq(GoodCall) /\ Len(s) = 4
    BY Writers DEF bgnbnd, RQSDSS, BGNBND, PKGNAMCT, PKGISOLVL
  <2>2. /\ s[1].kind = "dss" /\ s[1].depth = 0 /\ s[1].typ = 1
        /\ \A i \in 2..4 : s[i].kind # "dss"
    BY DEF bgnbnd, RQSDSS, BGNBND, PKGNAMCT, PKGISOLVL, DSS, Object,
    Parameter
  <2> HIDE DEF s
  <2>3. Len(s) > 0 /\ \A i \in 2..Len(s) : s[i].kind # "dss"
    BY <2>1, <2>2
  <2>4. s \in Seq(Call) /\ Proper(s)
    BY ONLY <2>1, <2>2, <2>3, OneDSS
  <2> QED
    BY <2>4 DEF s
<1>8. Good(endbnd)
  <2> DEFINE s == endbnd
  <2>1. s \in Seq(GoodCall) /\ Len(s) = 3
    BY Writers DEF endbnd, RQSDSS, ENDBND, PKGNAMCT
  <2>2. /\ s[1].kind = "dss" /\ s[1].depth = 0 /\ s[1].typ = 1
        /\ \A i \in 2..3 : s[i].kind # "dss"
    BY DEF endbnd, RQSDSS, ENDBND, PKGNAMCT, DSS, Object, Parameter
  <2> HIDE DEF s
  <2>3. Len(s) > 0 /\ \A i \in 2..Len(s) : s[i].kind # "dss"
    BY <2>1, <2>2
  <2>4. s \in Seq(Call) /\ Proper(s)
    BY ONLY <2>1, <2>2, <2>3, OneDSS
  <2> QED
    BY <2>4 DEF s
<1>9. \A n \in Nat : Good(prpsqlstt(n))
  <2> SUFFICES ASSUME NEW n \in Nat PROVE Good(prpsqlstt(n))
    OBVIOUS
  <2> DEFINE s == prpsqlstt(n)
  <2>1. s \in Seq(GoodCall) /\ Len(s) = 6
    BY Writers DEF prpsqlstt, RQSDSS_CHAIN, OBJDSS, PRPSQLSTT, PKGNAMCSN,
    RTNSQLDA, SQLSTT
  <2>2. /\ s[1].kind = "dss" /\ s[1].depth = 0 /\ s[1].typ = 81
        /\ s[5].kind = "dss" /\ s[5].typ = 3
        /\ \A i \in {2, 3, 4, 6} : s[i].kind # "dss"
    BY DEF prpsqlstt, RQSDSS_CHAIN, OBJDSS, PRPSQLSTT, PKGNAMCSN, RTNSQLDA,
    SQLSTT, DSS, Object, Parameter
  <2> HIDE DEF s
  <2>3. Good(s)
    BY <2>1, <2>2, TwoDSSs
  <2> QED
    BY <2>3 DEF s
<1>10. Good(opnqry)
  <2> DEFINE s == opnqry
  <2>1. s \in Seq(GoodCall) /\ Len(s) = 4
    BY Writers DEF opnqry, RQSDSS, OPNQRY, PKGNAMCSN, QRYBLKSZ
  <2>2. /\ s[1].kind = "dss" /\ s[1].depth = 0 /\ s[1].typ = 1
        /\ \A i \in 2..4 : s[i].kind # "dss"
    BY DEF opnqry, RQSDSS, OPNQRY, PKGNAMCSN, QRYBLKSZ, DSS, Object,
    Parameter
  <2> HIDE DEF s
  <2>3. Len(s) > 0 /\ \A i \in 2..Len(s) : s[i].kind # "dss"
    BY <2>1, <2>2
  <2>4. s \in Seq(Call) /\ Proper(s)
    BY ONLY <2>1, <2>2, <2>3, OneDSS
  <2> QED
    BY <2>4 DEF s
<1>11. Good(cntqry)
  <2> DEFINE s == cntqry
  <2>1. s \in Seq(GoodCall) /\ Len(s) = 4
    BY Writers DEF cntqry, RQSDSS, CNTQRY, PKGNAMCSN, QRYBLKSZ
  <2>2. /\ s[1].kind = "dss" /\ s[1].depth = 0 /\ s[1].typ = 1
        /\ \A i \in 2..4 : s[i].kind # "dss"
    BY DEF cntqry, RQSDSS, CNTQRY, PKGNAMCSN, QRYBLKSZ, DSS, Object,
    Parameter
  <2> HIDE DEF s
  <2>3. Len(s) > 0 /\ \A i \in 2..Len(s) : s[i].kind # "dss"
    BY <2>1, <2>2
  <2>4. s \in Seq(Call) /\ Proper(s)
    BY ONLY <2>1, <2>2, <2>3, OneDSS
  <2> QED
    BY <2>4 DEF s
<1> HIDE DEF Good
<1>12. Good(r)
  BY <1>1, <1>2, <1>3, <1>4, <1>5, <1>6, <1>7, <1>8, <1>9, <1>10, <1>11 DEF Commands, Requests
<1> QED
  BY <1>12 DEF Good

-----------------------------------------------------------------------------
(* Building a request.                                                     *)

LEMMA FramingStarts == FramingInit => FramingInv
<1> SUFFICES ASSUME FramingInit PROVE FramingInv
  OBVIOUS
<1>1. Len(request) = 0 /\ Len(parts) = 0 /\ Len(open) = 0
  BY EmptySeq DEF FramingInit
<1>2. FramingTypeOK
  BY <1>1, EmptySeq DEF FramingInit, FramingTypeOK
<1> QED
  BY <1>1, <1>2 DEF FramingInit, FramingInv, WellBuilt, Mirror, Enclosing, Sums,
       Totals, LengthsMeet

LEMMA BeginKeeps ==
    ASSUME FramingInv, NEW c \in Commands, BeginRequest(c) PROVE FramingInv'
<1>1. request' \in Seq(Call) /\ Proper(request')
  BY RequestsProper DEF BeginRequest
<1>2. /\ done' = 0 /\ out_pos' = 0 /\ parts' = <<>> /\ open' = <<>> /\ tot_len' = 0
      /\ rqscrr' = rqscrr
      /\ Len(parts') = 0 /\ Len(open') = 0
  BY EmptySeq DEF BeginRequest, BufferInit
<1>3. FramingTypeOK'
  BY <1>1, <1>2, EmptySeq, LenProperties DEF FramingInv, FramingTypeOK
<1>4. request' # <<>>
  BY <1>1, EmptySeq DEF Proper
<1> QED
  BY <1>1, <1>2, <1>3, <1>4 DEF FramingInv, WellBuilt, Mirror, Enclosing, Sums,
       Totals, LengthsMeet

LEMMA SentKeeps == ASSUME FramingInv, Sent PROVE FramingInv'
<1>1. /\ request' = <<>> /\ done' = 0 /\ parts' = <<>> /\ open' = <<>> /\ tot_len' = 0
      /\ out_pos' = out_pos /\ rqscrr' = rqscrr
      /\ Len(parts') = 0 /\ Len(open') = 0 /\ Len(request') = 0
  BY EmptySeq DEF Sent, Complete
<1>2. FramingTypeOK'
  BY <1>1, EmptySeq DEF FramingInv, FramingTypeOK
<1> QED
  BY <1>1, <1>2 DEF FramingInv, WellBuilt, Mirror, Enclosing, Sums, Totals,
       LengthsMeet

(* What a call of a writer does, without the sequence operators.           *)
LEMMA WriteEffect ==
    ASSUME FramingInv, WritePart
    PROVE  LET n == Len(parts) k == Len(open) c == request[done + 1] IN
           /\ n \in Nat /\ k \in Nat /\ done = n /\ done' = n + 1
           /\ n + 1 \in 1..Len(request)
           /\ c \in Call /\ Balanced(c) /\ c.depth = k
           /\ parts' \in Seq(Part) /\ Len(parts') = n + 1
           /\ \A i \in 1..n : parts'[i] = parts[i] /\ parts[i] \in Part
           /\ parts'[n + 1] = [kind |-> c.kind, typ |-> c.typ, depth |-> c.depth,
                               at |-> out_pos, len |-> c.field]
           /\ out_pos' = out_pos + c.advance
           /\ open' \in Seq([part : Nat, len : Nat])
           /\ \A j \in 1..k : open[j] \in [part : Nat, len : Nat]
           /\ c.kind # "parameter" =>
                 /\ Len(open') = k + 1
                 /\ \A j \in 1..k : open'[j] = open[j]
                 /\ open'[k + 1] = [part |-> n + 1, len |-> c.result]
           /\ c.kind = "parameter" =>
                 /\ Len(open') = k
                 /\ \A j \in 1..k : /\ open'[j].part = open[j].part
                                    /\ open'[j].len = IF j = k THEN open[j].len + c.result
                                                      ELSE open[j].len
           /\ request' = request /\ tot_len' = tot_len /\ rqscrr' \in Nat
<1> DEFINE n == Len(parts)
           k == Len(open)
           c == request[done + 1]
           O == [part : Nat, len : Nat]
<1>1. /\ request \in Seq(Call) /\ parts \in Seq(Part) /\ open \in Seq(O)
      /\ done \in 0..Len(request) /\ out_pos \in Nat /\ rqscrr \in Nat /\ done = n
  BY DEF FramingInv, FramingTypeOK, Mirror
<1>2. n \in Nat /\ k \in Nat /\ Len(request) \in Nat
  BY <1>1, LenProperties
<1>3. n + 1 \in 1..Len(request) /\ c.depth = k
  BY <1>1, <1>2 DEF WritePart, NextCall
<1>4. c \in Call
  BY <1>1, <1>3, ElementOfSeq
<1>5. Balanced(c)
  BY <1>1, <1>2, <1>3, EmptySeq DEF FramingInv, WellBuilt, Proper
<1> DEFINE x == [kind |-> c.kind, typ |-> c.typ, depth |-> c.depth,
                 at |-> out_pos, len |-> c.field]
<1>6. x \in Part
  BY <1>1, <1>4 DEF Call, Part
<1>7. parts' = Append(parts, x) /\ out_pos' = out_pos + c.advance
  BY DEF WritePart, NextCall
<1>8. /\ parts' \in Seq(Part) /\ Len(parts') = n + 1
      /\ \A i \in 1..n : parts'[i] = parts[i] /\ parts[i] \in Part
      /\ parts'[n + 1] = x
  <2> HIDE DEF x
  <2> QED
    BY <1>1, <1>2, <1>6, <1>7, AppendProperties, ElementOfSeq
<1>9. \A j \in 1..k : open[j] \in O
  BY <1>1, <1>2, ElementOfSeq
<1>10. /\ open' \in Seq(O)
       /\ c.kind # "parameter" =>
             /\ Len(open') = k + 1
             /\ \A j \in 1..k : open'[j] = open[j]
             /\ open'[k + 1] = [part |-> n + 1, len |-> c.result]
  <2>1. CASE c.kind = "parameter"
    <3>1. open' = AddToInnermost(open, c.result)
      BY <2>1 DEF WritePart, NextCall, IsContainer
    <3>2. CASE open = <<>>
      BY <2>1, <3>1, <3>2, <1>1 DEF AddToInnermost
    <3>3. CASE open # <<>>
      <4>1. k \in 1..k
        BY <1>1, <1>2, <3>3, EmptySeq
      <4>2. [open[k] EXCEPT !.len = @ + c.result] \in O
        BY <1>4, <1>9, <4>1 DEF Call
      <4>3. open' = [open EXCEPT ![k] = [open[k] EXCEPT !.len = @ + c.result]]
        BY <3>1, <3>3 DEF AddToInnermost
      <4> QED
        BY <1>1, <4>1, <4>2, <4>3, <2>1, ExceptSeq
    <3> QED
      BY <3>2, <3>3
  <2>2. CASE c.kind # "parameter"
    <3>1. open' = Append(open, [part |-> n + 1, len |-> c.result])
      BY <2>2 DEF WritePart, NextCall, IsContainer
    <3>2. [part |-> n + 1, len |-> c.result] \in O
      BY <1>2, <1>4 DEF Call
    <3> QED
      BY <1>1, <1>2, <3>1, <3>2, AppendProperties
  <2> QED
    BY <2>1, <2>2
<1>11. c.kind = "parameter" =>
          /\ Len(open') = k
          /\ \A j \in 1..k : /\ open'[j].part = open[j].part
                             /\ open'[j].len = IF j = k THEN open[j].len + c.result
                                               ELSE open[j].len
  <2> SUFFICES ASSUME c.kind = "parameter"
               PROVE  /\ Len(open') = k
                      /\ \A j \in 1..k :
                            /\ open'[j].part = open[j].part
                            /\ open'[j].len = IF j = k THEN open[j].len + c.result
                                              ELSE open[j].len
    OBVIOUS
  <2>1. open' = AddToInnermost(open, c.result)
    BY DEF WritePart, NextCall, IsContainer
  <2>2. CASE open = <<>>
    BY <2>1, <2>2, <1>2, EmptySeq DEF AddToInnermost
  <2>3. CASE open # <<>>
    <3>1. open' = [open EXCEPT ![k] = [open[k] EXCEPT !.len = @ + c.result]]
      BY <2>1, <2>3 DEF AddToInnermost
    <3>2. Len(open') = k /\ DOMAIN open = 1..k
      BY <3>1, <1>1, LenProperties, EmptySeq, <1>10
    <3> QED
      BY <3>1, <3>2, <1>9
  <2> QED
    BY <2>2, <2>3
<1>12. request' = request /\ tot_len' = tot_len /\ rqscrr' \in Nat
  BY <1>1 DEF WritePart
<1> QED
  BY <1>1, <1>2, <1>3, <1>4, <1>5, <1>7, <1>8, <1>9, <1>10, <1>11, <1>12 DEF WritePart

(* WritePart preserves the invariant.                                      *)
LEMMA WriteKeeps == ASSUME FramingInv, WritePart PROVE FramingInv'
<1>1. PICK n \in Nat, k \in Nat, c \in Call :
      /\ n = Len(parts) /\ k = Len(open) /\ c = request[done + 1]
      /\ done = n /\ done' = n + 1 /\ n + 1 \in 1..Len(request)
      /\ Balanced(c) /\ c.depth = k
      /\ parts' \in Seq(Part) /\ Len(parts') = n + 1
      /\ \A i \in 1..n : parts'[i] = parts[i] /\ parts[i] \in Part
      /\ parts'[n + 1] = [kind |-> c.kind, typ |-> c.typ, depth |-> c.depth,
                          at |-> out_pos, len |-> c.field]
      /\ out_pos' = out_pos + c.advance
      /\ open' \in Seq([part : Nat, len : Nat])
      /\ \A j \in 1..k : open[j] \in [part : Nat, len : Nat]
      /\ request' = request /\ tot_len' = tot_len /\ rqscrr' \in Nat
  BY WriteEffect
<1>2. c.kind # "parameter" =>
          /\ Len(open') = k + 1
          /\ \A j \in 1..k : open'[j] = open[j]
          /\ open'[k + 1] = [part |-> n + 1, len |-> c.result]
  BY <1>1, WriteEffect
<1>3. c.kind = "parameter" =>
          /\ Len(open') = k
          /\ \A j \in 1..k : /\ open'[j].part = open[j].part
                             /\ open'[j].len = IF j = k THEN open[j].len + c.result
                                               ELSE open[j].len
  BY <1>1, WriteEffect
<1>4. /\ out_pos \in Nat /\ tot_len \in Nat /\ request \in Seq(Call)
      /\ open \in Seq([part : Nat, len : Nat])
      /\ Len(request) \in Nat /\ request # <<>>
  BY <1>1, LenProperties, EmptySeq DEF FramingInv, FramingTypeOK
<1>5. c.advance = c.result /\ c.result \in Nat /\ c.field \in Nat
      /\ c.advance \in Nat /\ c.depth = k
      /\ (c.kind = "parameter" => c.field = c.result /\ k > 0)
  BY <1>1 DEF Balanced, Call
<1>a. /\ Len(parts) = n /\ Len(parts') = n + 1 /\ Len(open) = k
      /\ \A i \in 1..n : /\ parts'[i] = parts[i] /\ parts'[i].at = parts[i].at
                         /\ parts'[i].len = parts[i].len /\ parts'[i].depth = parts[i].depth
                         /\ parts[i].depth \in Nat /\ parts[i].at \in Nat /\ parts[i].len \in Nat
      /\ parts'[n + 1].depth = k /\ parts'[n + 1].at = out_pos
      /\ parts'[n + 1].len = c.field
      /\ parts'[n + 1].kind = c.kind /\ parts'[n + 1].typ = c.typ
      /\ out_pos' = out_pos + c.result /\ out_pos \in Nat /\ out_pos' \in Nat
  <2>1. /\ Len(parts) = n /\ Len(parts') = n + 1 /\ Len(open) = k
        /\ parts'[n + 1].depth = k /\ parts'[n + 1].at = out_pos
        /\ parts'[n + 1].len = c.field
        /\ parts'[n + 1].kind = c.kind /\ parts'[n + 1].typ = c.typ
    BY <1>1
  <2>2. ASSUME NEW i \in 1..n
        PROVE  /\ parts'[i] = parts[i]
               /\ parts[i].depth \in Nat /\ parts[i].at \in Nat /\ parts[i].len \in Nat
    <3>1. parts'[i] = parts[i] /\ parts[i] \in Part
      BY <1>1
    <3> QED
      BY <3>1 DEF Part
  <2>3. out_pos' = out_pos + c.result /\ out_pos' \in Nat
    <3>1. out_pos' = out_pos + c.advance
      BY <1>1
    <3> QED
      BY <3>1, <1>4, <1>5
  <2> QED
    BY <2>1, <2>2, <2>3, <1>4
<1>6. FramingTypeOK'
  BY <1>1, <1>4, <1>5 DEF FramingTypeOK
<1>7. WellBuilt'
  BY <1>1 DEF FramingInv, WellBuilt
<1>8. \A j \in 1..k : /\ open[j].part \in 1..n
                      /\ parts[open[j].part].depth = j - 1
                      /\ \A i \in (open[j].part + 1)..n : parts[i].depth >= j
                      /\ open[j].part \in Nat /\ open[j].len \in Nat
                      /\ open'[j].part = open[j].part
  BY <1>1, <1>2, <1>3, <1>4 DEF FramingInv, Enclosing
<1>9. Mirror'
  <2>1. n = 0 => out_pos = 0
    BY <1>1, <1>4 DEF FramingInv, Mirror
  <2>2. parts'[1].at = 0
    <3>1. CASE n = 0
      BY <2>1, <3>1, <1>a
    <3>2. CASE n # 0
      BY <3>2, <1>a DEF FramingInv, Mirror
    <3> QED
      BY <3>1, <3>2
  <2>3. \A i \in 1..(n + 1) : /\ parts'[i].kind = request[i].kind
                              /\ parts'[i].typ = request[i].typ
                              /\ parts'[i].depth = request[i].depth
    <3>1. \A i \in 1..n : /\ parts'[i].kind = request[i].kind
                          /\ parts'[i].typ = request[i].typ
                          /\ parts'[i].depth = request[i].depth
      BY <1>1 DEF FramingInv, Mirror
    <3>2. c = request[n + 1]
      BY <1>1, <1>4
    <3>3. /\ parts'[n + 1].kind = request[n + 1].kind
          /\ parts'[n + 1].typ = request[n + 1].typ
          /\ parts'[n + 1].depth = request[n + 1].depth
      BY <3>2, <1>5, <1>a
    <3>4. \A i \in 1..(n + 1) : i = n + 1 \/ i \in 1..n
      OBVIOUS
    <3> QED
      BY <3>1, <3>3, <3>4
  <2> QED
    BY <2>2, <2>3, <1>1, <1>4 DEF Mirror
<1>10. Enclosing'
  <2> SUFFICES ASSUME NEW j \in 1..Len(open')
               PROVE  /\ open'[j].part \in 1..Len(parts')
                      /\ parts'[open'[j].part].depth = j - 1
                      /\ \A i \in (open'[j].part + 1)..Len(parts') : parts'[i].depth >= j
    BY DEF Enclosing
  <2>1. CASE j \in 1..k
    <3>1. open'[j].part \in 1..n /\ parts'[open'[j].part].depth = j - 1
      BY <1>a, <1>8, <2>1
    <3>2. ASSUME NEW i \in (open'[j].part + 1)..n PROVE parts'[i].depth >= j
      <4>1. open[j].part \in 1..n /\ i \in (open[j].part + 1)..n /\ parts[i].depth >= j
        BY <1>8, <2>1
      <4> QED
        BY <4>1, <1>a, SMTT(30)
    <3>3. parts'[n + 1].depth >= j
      BY <1>a, <2>1
    <3> QED
      BY <3>1, <3>2, <3>3, <1>a
  <2>2. CASE j \notin 1..k
    <3>1. c.kind # "parameter" /\ j = k + 1
      BY <2>2, <1>a, <1>2, <1>3
    <3> QED
      BY <3>1, <1>a, <1>2
  <2> QED
    BY <2>1, <2>2
<1>11. Sums'
  <2> SUFFICES ASSUME NEW j \in 1..Len(open')
               PROVE  parts'[open'[j].part].at + open'[j].len =
                          IF j = Len(open') THEN out_pos' ELSE parts'[open'[j + 1].part].at
    BY DEF Sums
  <2>1. \A i \in 1..k : parts[open[i].part].at + open[i].len =
            IF i = k THEN out_pos ELSE parts[open[i + 1].part].at
    BY <1>a DEF FramingInv, Sums
  <2>2. \A i \in 1..k : parts'[open'[i].part] = parts[open[i].part]
                        /\ parts[open[i].part].at \in Nat
    BY <1>a, <1>8 DEF Part
  <2>3. CASE c.kind # "parameter" /\ j \in 1..k
    <3>1. /\ open'[j] = open[j] /\ parts'[open'[j].part] = parts[open[j].part]
          /\ Len(open') = k + 1 /\ j # Len(open')
      BY <2>2, <2>3, <1>2
    <3>2. CASE j = k
      <4>1. parts'[open'[j + 1].part].at = out_pos
        BY <3>2, <2>3, <1>2, <1>a
      <4> QED
        BY <2>1, <2>3, <3>1, <3>2, <4>1
    <3>3. CASE j # k
      <4>1. j + 1 \in 1..k
        BY <2>3, <3>3
      <4> QED
        BY <2>1, <2>2, <2>3, <3>1, <3>3, <4>1
    <3> QED
      BY <3>2, <3>3
  <2>4. CASE c.kind # "parameter" /\ j = k + 1
    BY <2>4, <1>a, <1>2, <1>4, <1>5, SMTT(30)
  <2>5. CASE c.kind = "parameter"
    <3>1. /\ Len(open') = k /\ j \in 1..k
          /\ parts'[open'[j].part] = parts[open[j].part]
          /\ parts[open[j].part].at \in Nat /\ open[j].len \in Nat
          /\ open'[j].len = IF j = k THEN open[j].len + c.result ELSE open[j].len
      BY <2>2, <2>5, <1>3, <1>8
    <3>2. CASE j = k
      <4>1. parts[open[j].part].at + open[j].len = out_pos
        BY <2>1, <3>1, <3>2
      <4>2. /\ open'[j].len = open[j].len + c.result /\ out_pos' = out_pos + c.result
            /\ c.result \in Nat
        BY <3>1, <3>2, <1>a, <1>5
      <4> QED
        BY <3>1, <3>2, <4>1, <4>2
    <3>3. CASE j # k
      <4>1. j + 1 \in 1..k
        BY <3>1, <3>3
      <4> QED
        BY <2>1, <2>2, <3>1, <3>3, <4>1
    <3> QED
      BY <3>2, <3>3
  <2> QED
    BY <2>3, <2>4, <2>5, <1>a, <1>2
<1>12. Totals'
  <2>1. tot_len = IF open = <<>> THEN out_pos ELSE parts[open[1].part].at
    BY <1>4 DEF FramingInv, Totals
  <2>2. open = <<>> <=> k = 0
    BY <1>4, <1>a, EmptySeq
  <2>3. open' = <<>> <=> Len(open') = 0
    BY <1>1, EmptySeq
  <2>4. CASE k = 0
    <3>1. /\ Len(open') = 1 /\ open'[1].part = n + 1 /\ parts'[n + 1].at = out_pos
      BY <2>4, <1>2, <1>5, <1>a
    <3> QED
      BY <2>1, <2>2, <2>3, <2>4, <3>1, <1>1 DEF Totals
  <2>5. CASE k # 0
    <3>1. 1 \in 1..k /\ Len(open') # 0
      BY <2>5, <1>a, <1>2, <1>3
    <3> QED
      <4>1. parts'[open'[1].part].at = parts[open[1].part].at
        BY <3>1, <1>a, <1>8
      <4> QED
        BY <2>1, <2>2, <2>3, <2>5, <3>1, <4>1, <1>1 DEF Totals
  <2> QED
    BY <2>4, <2>5
<1>13. LengthsMeet'
  <2> SUFFICES ASSUME NEW i \in 1..Len(parts'), ~IsOpen(i)'
               PROVE  /\ \A j \in (i + 1)..Len(parts') :
                            Within(i, j)' /\ parts'[j].depth <= parts'[i].depth =>
                                parts'[j].at = parts'[i].at + parts'[i].len
                      /\ Within(i, Len(parts) + 1)' => out_pos' = parts'[i].at + parts'[i].len
    BY DEF LengthsMeet
  <2>1. CASE i = n + 1
    <3>1. c.kind = "parameter"
      BY <2>1, <1>a, <1>2 DEF IsOpen
    <3> QED
      BY <2>1, <3>1, <1>a, <1>5
  <2>2. CASE i \in 1..n
    <3>1. ~IsOpen(i)
      <4>1. \A j \in 1..k : j \in 1..Len(open') /\ open'[j].part = open[j].part
        BY <1>a, <1>2, <1>3, <1>8
      <4> QED
        BY <4>1, <1>a DEF IsOpen
    <3>2. /\ \A j \in (i + 1)..n : Within(i, j) /\ parts[j].depth <= parts[i].depth =>
                parts[j].at = parts[i].at + parts[i].len
          /\ Within(i, n + 1) => out_pos = parts[i].at + parts[i].len
      BY <3>1, <2>2, <1>a DEF FramingInv, LengthsMeet
    <3>3. \A j \in (i + 1)..(n + 1) : Within(i, j)' => Within(i, j)
      BY <1>a, <2>2 DEF Within
    <3>4. \A j \in (i + 1)..(n + 1) :
             Within(i, j)' /\ parts'[j].depth <= parts'[i].depth =>
                 parts'[j].at = parts'[i].at + parts'[i].len
      <4> SUFFICES ASSUME NEW j \in (i + 1)..(n + 1), Within(i, j)',
                          parts'[j].depth <= parts'[i].depth
                   PROVE  parts'[j].at = parts'[i].at + parts'[i].len
        OBVIOUS
      <4>1. CASE j = n + 1
        BY <3>2, <3>3, <4>1, <2>2, <1>a
      <4>2. CASE j \in (i + 1)..n
        <5>1. j \in 1..n /\ parts'[j] = parts[j] /\ parts'[i] = parts[i] /\ Within(i, j)
          BY <3>3, <4>2, <2>2, <1>a
        <5> QED
          BY <3>2, <4>2, <5>1
      <4> QED
        BY <4>1, <4>2
    <3>5. ~Within(i, Len(parts) + 1)'
      <4> SUFFICES ASSUME \A h \in (i + 1)..(n + 1) : parts'[h].depth > parts'[i].depth
                   PROVE  FALSE
        BY <1>a DEF Within
      <4> DEFINE d == parts[i].depth
      <4>1. d \in Nat /\ k > d
        BY <1>a, <2>2
      <4> HIDE DEF d
      <4>2. d + 1 \in 1..k /\ open[d + 1].part # i
        BY <4>1, <3>1, <1>a, <1>4 DEF IsOpen
      <4> DEFINE p == open[d + 1].part
      <4>3. p \in 1..n /\ parts[p].depth = d /\ \A j \in (p + 1)..n : parts[j].depth >= d + 1
        BY <4>1, <4>2, <1>8
      <4> HIDE DEF p
      <4>4. CASE p < i
        BY <4>1, <4>3, <4>4, <2>2 DEF d
      <4>5. CASE p > i
        <5>1. parts'[p].depth > parts'[i].depth
          BY <4>3, <4>5, <2>2
        <5> QED
          BY <5>1, <4>1, <4>3, <2>2, <1>a DEF d
      <4> QED
        BY <4>2, <4>3, <4>4, <4>5, <2>2 DEF p
    <3> QED
      BY <3>4, <3>5, <1>a
  <2>3. i = n + 1 \/ i \in 1..n
    BY <1>a
  <2> QED
    BY <2>1, <2>2, <2>3
<1> QED
  BY <1>6, <1>7, <1>9, <1>10, <1>11, <1>12, <1>13 DEF FramingInv

(* What completing a part does, without the sequence operators.            *)
Completed(n, k, P) ==
    /\ n = Len(parts) /\ k = Len(open) /\ k > 0 /\ P = open[k].part
    /\ parts' \in Seq(Part) /\ Len(parts') = n
    /\ P \in 1..n /\ parts'[P].len = open[k].len
    /\ \A i \in 1..n :
          /\ parts[i].depth \in Nat /\ parts[i].at \in Nat /\ parts[i].len \in Nat
          /\ parts'[i].kind = parts[i].kind /\ parts'[i].typ = parts[i].typ
          /\ parts'[i].depth = parts[i].depth /\ parts'[i].at = parts[i].at
          /\ i # P => parts'[i].len = parts[i].len
    /\ open' \in Seq([part : Nat, len : Nat]) /\ Len(open') = k - 1
    /\ \A j \in 1..k : open[j].part \in Nat /\ open[j].len \in Nat
    /\ \A j \in 1..(k - 1) :
          /\ open'[j].part = open[j].part
          /\ open'[j].len = IF j = k - 1 THEN open[j].len + open[k].len
                            ELSE open[j].len

LEMMA CompleteEffect ==
    ASSUME FramingInv, CompletePart
    PROVE  \E n \in Nat, k \in Nat, P \in Nat : Completed(n, k, P)
<1> DEFINE n == Len(parts)
           k == Len(open)
           O == [part : Nat, len : Nat]
           P == open[k].part
<1>1. /\ parts \in Seq(Part) /\ open \in Seq(O) /\ n \in Nat /\ k \in Nat
      /\ DOMAIN open = 1..k /\ DOMAIN parts = 1..n
  BY LenProperties DEF FramingInv, FramingTypeOK
<1>2. k > 0
  BY <1>1, EmptySeq DEF CompletePart
<1>3. \A j \in 1..k : open[j] \in O /\ open[j].part \in Nat /\ open[j].len \in Nat
  <2>1. \A j \in 1..k : open[j] \in O
    BY <1>1, ElementOfSeq
  <2> QED
    BY <2>1
<1>4. \A i \in 1..n : /\ parts[i] \in Part
                      /\ parts[i].depth \in Nat /\ parts[i].at \in Nat /\ parts[i].len \in Nat
  <2>1. \A i \in 1..n : parts[i] \in Part
    BY <1>1, ElementOfSeq
  <2> QED
    BY <2>1 DEF Part
<1>5. P \in 1..n
  BY <1>1, <1>2 DEF FramingInv, Enclosing
<1> DEFINE x == [parts[P] EXCEPT !.len = open[k].len]
<1>6. /\ x \in Part /\ x.len = open[k].len
      /\ x.kind = parts[P].kind /\ x.typ = parts[P].typ
      /\ x.depth = parts[P].depth /\ x.at = parts[P].at
  <2>1. open[k].len \in Nat /\ parts[P] \in Part
    BY <1>2, <1>1, <1>3, <1>4, <1>5
  <2> QED
    BY <2>1 DEF Part
<1>7. parts' = [parts EXCEPT ![P] = x]
  BY DEF CompletePart, Innermost
<1> HIDE DEF x
<1>8. /\ parts' \in Seq(Part) /\ Len(parts') = n
      /\ parts'[P] = x /\ \A i \in 1..n : i # P => parts'[i] = parts[i]
  BY <1>1, <1>5, <1>6, <1>7, ExceptSeq
<1> DEFINE s == SubSeq(open, 1, k - 1)
<1>9. s \in Seq(O) /\ Len(s) = k - 1 /\ \A j \in 1..(k - 1) : s[j] = open[j]
  <2>1. /\ 1 \in Int /\ k - 1 \in Int /\ (k - 1) - 1 + 1 = k - 1
        /\ \A j \in 1..(k - 1) : open[j] \in O
        /\ \A j \in Int : 1 + j - 1 = j
    BY <1>1, <1>2, <1>3
  <2>2. /\ s \in Seq(O)
        /\ Len(s) = IF 1 <= k - 1 THEN (k - 1) - 1 + 1 ELSE 0
        /\ \A j \in 1..((k - 1) - 1 + 1) : s[j] = open[1 + j - 1]
    <3> HIDE DEF O, k
    <3> QED
      BY <2>1, SubSeqProperties
  <2> QED
    BY <2>1, <2>2, <1>1, <1>2
<1>10. open' = AddToInnermost(s, open[k].len)
  BY DEF CompletePart, EnclosingGrown, Outer, Innermost
<1> HIDE DEF s
<1>11. /\ open' \in Seq(O) /\ Len(open') = k - 1
       /\ \A j \in 1..(k - 1) :
             /\ open'[j].part = open[j].part
             /\ open'[j].len = IF j = k - 1 THEN open[j].len + open[k].len ELSE open[j].len
  <2>1. CASE k = 1
    <3>1. open' = s /\ Len(s) = 0
      BY <1>9, <1>10, <2>1, EmptySeq DEF AddToInnermost
    <3> QED
      BY <3>1, <1>9, <2>1
  <2>2. CASE k # 1
    <3>1. k - 1 \in 1..Len(s) /\ s # <<>> /\ k - 1 \in 1..k
      BY <1>1, <1>2, <1>9, <2>2, EmptySeq
    <3> DEFINE y == [s[k - 1] EXCEPT !.len = @ + open[k].len]
    <3>2. s[k - 1] = open[k - 1] /\ open[k - 1] \in O /\ open[k].len \in Nat
      <4>1. k - 1 \in 1..(k - 1) /\ k \in 1..k
        BY <3>1, <1>9, <1>1, <1>2
      <4> QED
        BY <4>1, <3>1, <1>3, <1>9
    <3>3. y \in O /\ y.part = open[k - 1].part /\ y.len = open[k - 1].len + open[k].len
      BY <3>2
    <3>4. open' = [s EXCEPT ![k - 1] = y]
      BY <1>10, <3>1, <1>9 DEF AddToInnermost
    <3> HIDE DEF y
    <3>5. /\ open' \in Seq(O) /\ Len(open') = k - 1
          /\ open'[k - 1] = y /\ \A j \in 1..(k - 1) : j # k - 1 => open'[j] = s[j]
      BY <1>9, <3>1, <3>3, <3>4, ExceptSeq, SMTT(30)
    <3> QED
      BY <1>9, <3>3, <3>5
  <2> QED
    BY <2>1, <2>2
<1>12. \A i \in 1..n : /\ parts'[i].kind = parts[i].kind /\ parts'[i].typ = parts[i].typ
                       /\ parts'[i].depth = parts[i].depth /\ parts'[i].at = parts[i].at
                       /\ i # P => parts'[i].len = parts[i].len
  BY <1>6, <1>8
<1>13. parts'[P].len = open[k].len /\ P \in Nat
  BY <1>5, <1>6, <1>8
<1>14. n \in Nat /\ k \in Nat /\ P \in Nat
  BY <1>1, <1>13
<1>15. Completed(n, k, P)
  BY <1>2, <1>3, <1>4, <1>5, <1>8, <1>11, <1>12, <1>13 DEF Completed
<1> HIDE DEF n, k, P
<1> QED
  BY <1>14, <1>15

(* CompletePart preserves the invariant: the part it completes reaches to  *)
(* where the next one will go.                                             *)
LEMMA CompleteKeeps == ASSUME FramingInv, CompletePart PROVE FramingInv'
<1>0. PICK n \in Nat, k \in Nat, P \in Nat : Completed(n, k, P)
  BY CompleteEffect
<1>1. /\ n = Len(parts) /\ k = Len(open) /\ k > 0 /\ P = open[k].part
      /\ parts' \in Seq(Part) /\ Len(parts') = n
      /\ P \in 1..n /\ parts'[P].len = open[k].len
      /\ \A i \in 1..n :
            /\ parts[i].depth \in Nat /\ parts[i].at \in Nat /\ parts[i].len \in Nat
            /\ parts'[i].kind = parts[i].kind /\ parts'[i].typ = parts[i].typ
            /\ parts'[i].depth = parts[i].depth /\ parts'[i].at = parts[i].at
            /\ i # P => parts'[i].len = parts[i].len
      /\ open' \in Seq([part : Nat, len : Nat]) /\ Len(open') = k - 1
      /\ \A j \in 1..k : open[j].part \in Nat /\ open[j].len \in Nat
      /\ \A j \in 1..(k - 1) :
            /\ open'[j].part = open[j].part
            /\ open'[j].len = IF j = k - 1 THEN open[j].len + open[k].len
                              ELSE open[j].len
  BY <1>0 DEF Completed
<1>2. /\ request' = request /\ done' = done /\ out_pos' = out_pos /\ rqscrr' = rqscrr
      /\ tot_len' = IF k = 1 THEN tot_len + open[1].len ELSE tot_len
      /\ tot_len \in Nat /\ out_pos \in Nat
      /\ request # <<>>
  BY <1>1, EmptySeq DEF CompletePart, TotalGrown, Innermost, FramingInv, FramingTypeOK, Mirror
<1>3. FramingTypeOK'
  <2>1. tot_len' \in Nat
    BY <1>1, <1>2
  <2> QED
    BY <1>1, <1>2, <2>1 DEF FramingInv, FramingTypeOK
<1>4. WellBuilt'
  BY <1>2 DEF FramingInv, WellBuilt
<1>5. \A j \in 1..k : /\ open[j].part \in 1..n
                      /\ parts[open[j].part].depth = j - 1
                      /\ \A i \in (open[j].part + 1)..n : parts[i].depth >= j
  BY <1>1 DEF FramingInv, Enclosing
<1>6. Mirror'
  <2>1. \A i \in 1..n : /\ parts'[i].kind = request[i].kind
                        /\ parts'[i].typ = request[i].typ
                        /\ parts'[i].depth = request[i].depth
    BY <1>1 DEF FramingInv, Mirror
  <2>2. parts'[1].at = 0 /\ n > 0 /\ n = done
    BY <1>1 DEF FramingInv, Mirror
  <2> QED
    BY <1>1, <1>2, <2>1, <2>2 DEF Mirror
<1>7. Enclosing'
  <2> SUFFICES ASSUME NEW j \in 1..Len(open')
               PROVE  /\ open'[j].part \in 1..Len(parts')
                      /\ parts'[open'[j].part].depth = j - 1
                      /\ \A i \in (open'[j].part + 1)..Len(parts') : parts'[i].depth >= j
    BY DEF Enclosing
  <2>1. j \in 1..k /\ open'[j].part = open[j].part /\ Len(parts') = n
    BY <1>1
  <2>2. open'[j].part \in 1..n /\ parts'[open'[j].part].depth = j - 1
    <3>1. open[j].part \in 1..n /\ parts[open[j].part].depth = j - 1
      BY <2>1, <1>5
    <3>2. parts'[open[j].part].depth = parts[open[j].part].depth
      BY <3>1, <1>1
    <3> QED
      BY <2>1, <3>1, <3>2
  <2>3. ASSUME NEW i \in (open'[j].part + 1)..n PROVE parts'[i].depth >= j
    <3>1. i \in (open[j].part + 1)..n /\ open[j].part \in 1..n
      BY <2>1, <2>2
    <3>2. parts[i].depth >= j /\ i \in 1..n
      BY <2>1, <3>1, <1>5
    <3>3. parts'[i].depth = parts[i].depth
      BY <3>2, <1>1
    <3> QED
      BY <3>2, <3>3
  <2> QED
    BY <2>1, <2>2, <2>3
<1>8. \A i \in 1..k : parts[open[i].part].at + open[i].len =
          IF i = k THEN out_pos ELSE parts[open[i + 1].part].at
  BY <1>1 DEF FramingInv, Sums
<1>9. Sums'
  <2> SUFFICES ASSUME NEW j \in 1..Len(open')
               PROVE  parts'[open'[j].part].at + open'[j].len =
                          IF j = Len(open') THEN out_pos' ELSE parts'[open'[j + 1].part].at
    BY DEF Sums
  <2>1. j \in 1..k /\ j \in 1..(k - 1) /\ j + 1 \in 1..k /\ Len(open') = k - 1
    BY <1>1
  <2>2. /\ open'[j].part = open[j].part /\ open[j].part \in 1..n
        /\ parts'[open'[j].part].at = parts[open[j].part].at
        /\ parts[open[j].part].at \in Nat /\ open[j].len \in Nat /\ open[j + 1].len \in Nat
    BY <2>1, <1>1, <1>5
  <2>3. parts[open[j].part].at + open[j].len = parts[open[j + 1].part].at
    BY <2>1, <1>8
  <2>4. CASE j = k - 1
    <3>1. open'[j].len = open[j].len + open[k].len /\ j + 1 = k
      BY <2>1, <2>4, <1>1
    <3>2. parts[open[k].part].at + open[k].len = out_pos
      BY <1>1, <1>8
    <3> QED
      BY <2>1, <2>2, <2>3, <2>4, <3>1, <3>2, <1>2
  <2>5. CASE j # k - 1
    <3>1. open'[j].len = open[j].len /\ j + 1 \in 1..(k - 1)
      BY <2>1, <2>5, <1>1
    <3>2. parts'[open'[j + 1].part].at = parts[open[j + 1].part].at
      BY <3>1, <2>1, <1>1, <1>5
    <3> QED
      BY <2>1, <2>2, <2>3, <2>5, <3>1, <3>2
  <2> QED
    BY <2>4, <2>5
<1>10. Totals'
  <2>1. tot_len = parts[open[1].part].at
    BY <1>1, <1>2, EmptySeq DEF FramingInv, Totals
  <2>2. open' = <<>> <=> k - 1 = 0
    BY <1>1, EmptySeq
  <2>3. CASE k = 1
    <3>1. parts[open[1].part].at + open[1].len = out_pos
      BY <1>8, <2>3
    <3> QED
      BY <2>1, <2>2, <2>3, <3>1, <1>2 DEF Totals
  <2>4. CASE k # 1
    <3>1. 1 \in 1..(k - 1) /\ 1 \in 1..k
      BY <2>4, <1>1
    <3>2. parts'[open'[1].part].at = parts[open[1].part].at
      BY <3>1, <1>1, <1>5
    <3> QED
      BY <2>1, <2>2, <2>4, <3>2, <1>1, <1>2 DEF Totals
  <2> QED
    BY <2>3, <2>4
<1>11. LengthsMeet'
  <2> SUFFICES ASSUME NEW i \in 1..Len(parts'), ~IsOpen(i)'
               PROVE  /\ \A j \in (i + 1)..Len(parts') :
                            Within(i, j)' /\ parts'[j].depth <= parts'[i].depth =>
                                parts'[j].at = parts'[i].at + parts'[i].len
                      /\ Within(i, Len(parts) + 1)' => out_pos' = parts'[i].at + parts'[i].len
    BY DEF LengthsMeet
  <2>0. i \in 1..n /\ Len(parts') = n /\ parts'[i].at = parts[i].at
        /\ parts'[i].depth = parts[i].depth
    BY <1>1
  <2>1. \A j \in (i + 1)..n : parts'[j].at = parts[j].at /\ parts'[j].depth = parts[j].depth
                              /\ parts[j].depth \in Nat
    BY <2>0, <1>1
  <2>2. CASE i = P
    <3>1. parts'[i].len = open[k].len /\ parts[i].depth = k - 1
          /\ \A j \in (i + 1)..n : parts[j].depth >= k
      BY <2>2, <1>1, <1>5
    <3>2. parts[i].at + open[k].len = out_pos
      BY <2>2, <1>1, <1>8
    <3>3. ASSUME NEW j \in (i + 1)..n PROVE ~(parts'[j].depth <= parts'[i].depth)
      <4>1. parts[j].depth >= k /\ parts[j].depth \in Nat
        BY <3>1, <2>1
      <4> QED
        BY <4>1, <3>1, <2>0, <2>1
    <3> QED
      BY <3>1, <3>2, <3>3, <2>0, <1>2
  <2>3. CASE i # P
    <3>1. ~IsOpen(i)
      <4>1. \A j \in 1..k : j = k \/ (j \in 1..Len(open') /\ open'[j].part = open[j].part)
        <5>1. \A j \in 1..k : j = k \/ j \in 1..(k - 1)
          BY <1>1
        <5> QED
          BY <5>1, <1>1
      <4> QED
        BY <4>1, <2>3, <1>1 DEF IsOpen
    <3>2. /\ \A j \in (i + 1)..n : Within(i, j) /\ parts[j].depth <= parts[i].depth =>
                parts[j].at = parts[i].at + parts[i].len
          /\ Within(i, n + 1) => out_pos = parts[i].at + parts[i].len
      BY <3>1, <2>0, <1>1 DEF FramingInv, LengthsMeet
    <3>3. parts'[i].len = parts[i].len
      BY <2>0, <2>3, <1>1
    <3>4. \A j \in (i + 1)..(n + 1) : Within(i, j)' => Within(i, j)
      BY <2>0, <2>1 DEF Within
    <3>5. ASSUME NEW j \in (i + 1)..n, Within(i, j)', parts'[j].depth <= parts'[i].depth
          PROVE  parts'[j].at = parts'[i].at + parts'[i].len
      <4>1. Within(i, j)
        BY <3>4, <3>5, <2>0
      <4> QED
        BY <4>1, <3>2, <3>3, <3>5, <2>0, <2>1
    <3>6. Within(i, n + 1)' => out_pos' = parts'[i].at + parts'[i].len
      <4>1. n + 1 \in (i + 1)..(n + 1)
        BY <2>0
      <4> QED
        BY <4>1, <3>2, <3>3, <3>4, <2>0, <1>2
    <3> QED
      BY <3>5, <3>6, <2>0
  <2> QED
    BY <2>2, <2>3
<1> QED
  BY <1>3, <1>4, <1>6, <1>7, <1>9, <1>10, <1>11 DEF FramingInv

-----------------------------------------------------------------------------
(* The actions of Session, as far as requests are concerned.               *)

LEMMA FramingKept == ASSUME FramingInv, UNCHANGED framing PROVE FramingInv'
BY DEF framing, FramingInv, FramingTypeOK, WellBuilt, Mirror, Enclosing, Sums,
       Totals, LengthsMeet, IsOpen, Within

LEMMA FramingStep == FramingInv /\ [Next]_vars => FramingInv'
<1> SUFFICES ASSUME FramingInv, [Next]_vars PROVE FramingInv'
  OBVIOUS
<1>1. CASE Release
  <2>1. FramingInit' => FramingInv'
    BY FramingStarts, PTL
  <2> QED
    BY <1>1, <2>1 DEF Release, FramingInit
<1>2. ASSUME NEW c \in Commands, Issue(c) PROVE FramingInv'
  BY <1>2, BeginKeeps DEF Issue
<1>3. CASE Build
  BY <1>3, WriteKeeps, CompleteKeeps DEF Build
<1>4. CASE Send
  BY <1>4, SentKeeps DEF Send
<1>5. CASE Connect \/ ReadNextObject \/ ReadNextParameter \/ Return \/ UNCHANGED vars
  BY <1>5, FramingKept DEF Connect, ReadNextObject, ReadNextParameter, Return, vars
<1> QED
  BY <1>1, <1>2, <1>3, <1>4, <1>5 DEF Next

(* The lengths of every request meet, and so does the inductive invariant  *)
(* they follow from: whatever the lengths of names and statements, each    *)
(* DSS, object and parameter ends where the next begins (the sums of the   *)
(* drda_* commands).                                                       *)
THEOREM FramingCorrect == Spec => []FramingInv
<1>1. Init => FramingInv
  BY FramingStarts DEF Init
<1> QED
  BY <1>1, FramingStep, PTL DEF Spec

THEOREM LengthsCorrect == Spec => []LengthsMeet
<1>1. FramingInv => LengthsMeet
  BY DEF FramingInv
<1> QED
  BY <1>1, FramingCorrect, PTL

(* write() sends the whole request, no byte more or less, for any number   *)
(* of DSSs in it.                                                          *)
THEOREM RequestSentWhole == Spec => []WholeRequestSent
<1>1. FramingInv => WholeRequestSent
  <2> SUFFICES ASSUME FramingInv, Complete PROVE WholeRequestSent
    BY DEF WholeRequestSent
  <2>1. request # <<>> /\ Proper(request) /\ done = Len(request) /\ open = <<>>
    BY DEF Complete, FramingInv, WellBuilt
  <2>2. tot_len = out_pos
    BY <2>1 DEF FramingInv, Totals
  <2>3. Len(parts) = done /\ 1 \in 1..done
    BY <2>1 DEF FramingInv, FramingTypeOK, Mirror, Proper
  <2>4. parts[1].at = 0 /\ parts[1].kind = "dss"
    BY <2>1, <2>3 DEF FramingInv, Mirror, Proper
  <2> QED
    BY <2>2, <2>4 DEF WholeRequestSent
<1> QED
  BY <1>1, FramingCorrect, PTL

(* A DSS announces another if and only if one follows.                     *)
THEOREM ChainsCorrect == Spec => []ChainedIfContinued
<1>1. FramingInv => ChainedIfContinued
  <2> SUFFICES ASSUME FramingInv, Complete PROVE ChainedIfContinued
    BY DEF ChainedIfContinued
  <2>1. Proper(request) /\ Len(parts) = Len(request)
    BY DEF Complete, FramingInv, WellBuilt, Mirror
  <2>2. \A i \in 1..Len(parts) : /\ parts[i].kind = request[i].kind
                                 /\ parts[i].typ = request[i].typ
    BY DEF Complete, FramingInv, Mirror
  <2>3. DSSs(parts) = DSSs(request)
    BY <2>1, <2>2 DEF DSSs
  <2>4. \A i \in DSSs(parts) : parts[i].typ = request[i].typ
    BY <2>2 DEF DSSs
  <2> QED
    BY <2>1, <2>3, <2>4 DEF ChainedIfContinued, Proper
<1> QED
  BY <1>1, FramingCorrect, PTL
-----------------------------------------------------------------------------
(* Replies.                                                                *)

LEMMA ParameterValues ==
    ASSUME NEW q \in Parameters
    PROVE  /\ q.cp \in Numbers \cup {"CODPNT"} => q.val \in Levels
           /\ q.cp \in DOMAIN NameOf \cup {"SRVDGN"} => q.val \in Text
           /\ q.cp = "TYPDEFNAM" => q.val \in Orders
           /\ q.cp = "MGRLVLLS" =>
                 \A m \in Managers : m \in DOMAIN q.val => q.val[m] \in Levels
<1>1. DOMAIN NameOf = {"EXTNAM", "SRVCLSNM", "SRVNAM", "SRVRLSLV"}
  BY DEF NameOf
<1>2. CASE q \in [cp : Numbers, sized : BOOLEAN, val : Levels]
  BY <1>1, <1>2 DEF Numbers
<1>3. CASE q \in [cp : DOMAIN NameOf \cup {"SRVDGN"}, sized : {TRUE}, val : Text]
  BY <1>1, <1>3 DEF Numbers
<1>4. CASE q \in [cp : {"TYPDEFNAM"}, sized : {TRUE}, val : Orders]
  BY <1>1, <1>4 DEF Numbers
<1>5. CASE q \in [cp : {"MGRLVLLS"}, sized : {TRUE},
                  val : UNION {[S -> Levels] : S \in SUBSET Managers}]
  <2>1. q.cp = "MGRLVLLS"
    BY <1>5
  <2>2. PICK S \in SUBSET Managers : q.val \in [S -> Levels]
    BY <1>5
  <2> QED
    BY <1>1, <2>1, <2>2 DEF Numbers
<1>6. CASE q \in [cp : Logged, sized : BOOLEAN, val : {0}]
  BY <1>1, <1>6 DEF Numbers, Logged
<1>7. CASE q \in [cp : {"CODPNT"}, sized : {TRUE}, val : Levels]
  BY <1>1, <1>7 DEF Numbers
<1> QED
  BY <1>2, <1>3, <1>4, <1>5, <1>6, <1>7 DEF Parameters

LEMMA ReplyStarts == ReplyInit => ReplyTypeOK
<1> SUFFICES ASSUME ReplyInit PROVE ReplyTypeOK
  OBVIOUS
<1>1. Len(object.params) = 0
  BY EmptySeq DEF ReplyInit, NoObject
<1> QED
  BY <1>1 DEF ReplyInit, ReplyTypeOK, NoError

(* A reader of parameters leaves the structure well-formed.                *)
LEMMA ReadParameterTyped == ASSUME ReplyTypeOK, ReadParameter PROVE ReplyTypeOK'
<1> DEFINE n == Len(object.params)
<1>1. IsObject(object) /\ object' = object /\ pos' = pos + 1
  <2>1. Len(NoObject.params) = 0 /\ 0..0 = {0}
    BY EmptySeq DEF NoObject
  <2> QED
    BY <2>1 DEF ReplyTypeOK, ReadParameter
<1>2. object.params \in Seq(Parameters) /\ n \in Nat /\ pos + 1 \in 1..n /\ 1 \in 1..n
  BY <1>1, LenProperties DEF IsObject, ReplyTypeOK, ReadParameter
<1>3. param \in Parameters /\ FirstPlace \in Parameters
  BY <1>2, ElementOfSeq DEF param, FirstPlace
<1>4. pos' \in 0..Len(object'.params)
  BY <1>1, <1>2
<1> DEFINE E == [set : BOOLEAN, severity : Levels \cup {0}, code : Levels \cup {0},
                 point : Levels \cup {0}, diag : Text \cup {Unset}]
           L == [Managers -> Levels \cup {0}]
<1>5. CASE ReplyMessageParameter
  <2>1. err' \in E
    <3>1. CASE param.cp = "SVRCOD"
      <4>1. FirstPlace.cp = "SVRCOD" => FirstPlace.val \in Levels
        BY <1>3, ParameterValues DEF Numbers
      <4> QED
        BY <3>1, <4>1, <1>5 DEF ReplyMessageParameter, Severity, ReplyTypeOK
    <3>2. CASE param.cp \in {"SECCHKCD", "SYNERRCD", "CODPNT"}
      <4>1. param.val \in Levels
        BY <3>2, <1>3, ParameterValues DEF Numbers
      <4> QED
        BY <3>2, <4>1, <1>5 DEF ReplyMessageParameter, Code, Point, ReplyTypeOK
    <3>3. CASE param.cp = "SRVDGN"
      <4>1. param.val \in Text
        BY <3>3, <1>3, ParameterValues
      <4> QED
        BY <3>3, <4>1, <1>5 DEF ReplyMessageParameter, Diagnostic, ReplyTypeOK
    <3>4. CASE param.cp \notin {"SVRCOD", "SECCHKCD", "SYNERRCD", "CODPNT", "SRVDGN"}
      BY <3>4, <1>5 DEF ReplyMessageParameter, ReplyTypeOK
    <3> QED
      BY <3>1, <3>2, <3>3, <3>4
  <2>2. typdefnam' \in Orders \cup {Unset}
    BY <1>3, <1>5, ParameterValues DEF ReplyMessageParameter, Stored, ReplyTypeOK
  <2>3. level' \in L
    BY <1>3, <1>5, ParameterValues DEF ReplyMessageParameter, Listed, ReplyTypeOK
  <2> QED
    BY <1>1, <1>4, <1>5, <2>1, <2>2, <2>3 DEF ReplyMessageParameter, ReplyTypeOK
<1>6. CASE AttributesParameter
  <2>1. name' \in [Names -> Text \cup {Unset}]
    <3>1. CASE param.cp \in DOMAIN NameOf
      <4>1. param.val \in Text
        BY <3>1, <1>3, ParameterValues
      <4>2. Cut(param) \in Text
        BY <4>1 DEF Cut, Text
      <4>3. NameOf[param.cp] \in Names
        BY <3>1 DEF NameOf, Names
      <4> QED
        BY <3>1, <4>2, <4>3, <1>6 DEF AttributesParameter, Stored, ReplyTypeOK
    <3>2. CASE param.cp \notin DOMAIN NameOf
      BY <3>2, <1>6 DEF AttributesParameter, ReplyTypeOK
    <3> QED
      BY <3>1, <3>2
  <2>2. level' \in L
    BY <1>3, <1>6, ParameterValues DEF AttributesParameter, Listed, ReplyTypeOK
  <2> QED
    BY <1>1, <1>4, <1>6, <2>1, <2>2 DEF AttributesParameter, ReplyTypeOK
<1>7. CASE UNCHANGED <<err, level, name, typdefnam>>
  BY <1>1, <1>4, <1>7 DEF ReplyTypeOK
<1> QED
  BY <1>5, <1>6, <1>7 DEF ReadParameter

(* ddm_read_dss() coming to an object does, too.                           *)
LEMMA ReadObjectTyped ==
    ASSUME ReplyTypeOK, NEW o, IsObject(o) \/ o = NoObject, ReadObject(o)
    PROVE  ReplyTypeOK'
<1>1. Len(o.params) \in Nat
  BY LenProperties, EmptySeq DEF IsObject, NoObject
<1>2. pos' \in 0..Len(object'.params) /\ (object' = NoObject \/ IsObject(object'))
  BY <1>1 DEF ReadObject
<1> QED
  BY <1>2 DEF ReadObject, ReplyTypeOK
-----------------------------------------------------------------------------
(* Both together.                                                          *)

(* What a server may answer, object by object.                             *)
LEMMA AnswerObjects ==
    ASSUME NEW c \in Commands, NEW o \in Orders, NEW a \in Answers(c, o)
    PROVE  \A i \in 1..Len(a) :
              /\ IsObject(a[i])
              /\ a[i].obj = "ACCRDBRM" =>
                    \E j \in 1..Len(a[i].params) : a[i].params[j].cp = "TYPDEFNAM"
              /\ \A j \in 1..Len(a[i].params) :
                    a[i].params[j].cp = "TYPDEFNAM" => a[i].params[j].val = o
BY AnswersAssumption

\* The objects still to be read are a sequence
AnswerInSeq == answer \in Seq({answer[i] : i \in 1..Len(answer)})

LEMMA TailOfAnswer ==
    ASSUME AnswerInSeq, answer # <<>>
    PROVE  /\ Len(answer) \in Nat \ {0} /\ Len(Tail(answer)) = Len(answer) - 1
           /\ \A i \in 1..Len(Tail(answer)) : /\ Tail(answer)[i] = answer[i + 1]
                                              /\ i + 1 \in 1..Len(answer)
           /\ Head(answer) = answer[1]
           /\ Tail(answer) \in Seq({Tail(answer)[i] : i \in 1..Len(Tail(answer))})
<1> DEFINE S == {answer[i] : i \in 1..Len(answer)}
<1>1. answer \in Seq(S)
  BY DEF AnswerInSeq
<1>2. Len(answer) \in Nat \ {0}
  BY <1>1, EmptySeq
<1>3. /\ Tail(answer) \in Seq(S) /\ Head(answer) = answer[1]
      /\ Len(Tail(answer)) = Len(answer) - 1
      /\ \A i \in 1..Len(Tail(answer)) : Tail(answer)[i] = answer[i + 1]
  <2> HIDE DEF S
  <2> QED
    BY <1>1, HeadTailProperties
<1>4. \A i \in 1..Len(Tail(answer)) : i + 1 \in 1..Len(answer)
  BY <1>2, <1>3
<1>5. Tail(answer) \in Seq({Tail(answer)[i] : i \in 1..Len(Tail(answer))})
  <2> DEFINE t == Tail(answer)
             T == {t[i] : i \in 1..Len(t)}
  <2>1. t \in Seq(S)
    BY <1>3
  <2> HIDE DEF S
  <2>2. t \in [1..Len(t) -> S] /\ Len(t) \in Nat
    BY <2>1, LenProperties
  <2>3. t \in [1..Len(t) -> T]
    BY <2>2
  <2> HIDE DEF t, T
  <2>4. t \in Seq(T)
    BY <2>2, <2>3, SeqDef
  <2> QED
    BY <2>4 DEF t, T
<1> QED
  BY <1>2, <1>3, <1>4, <1>5

SessionInv == IInv /\ AnswerInSeq

LEMMA SessionStarts == Init => SessionInv
<1> SUFFICES ASSUME Init PROVE SessionInv
  OBVIOUS
<1>1. FramingInv /\ ReplyTypeOK
  BY FramingStarts, ReplyStarts DEF Init
<1>2. Len(answer) = 0 /\ Len(object.params) = 0 /\ object.obj = "none"
  BY EmptySeq DEF Init, ReplyInit, NoObject
<1>3. TypeOK
  <2>1. cmds \in 0..MaxCmds /\ sessions \in 0..MaxSessions
    BY SessionBounds DEF Init
  <2>2. answer = <<>> /\ object = NoObject /\ order \in Orders
        /\ phase = "closed" /\ cmd = "none" /\ granted = FALSE
    BY DEF Init, ReplyInit
  <2>3. \A i \in 1..Len(answer) : IsObject(answer[i])
    BY <1>2
  <2> QED
    BY <1>1, <2>1, <2>2, <2>3 DEF TypeOK, FramingInv
<1>4. OrderAhead
  BY <1>2 DEF Init, OrderAhead, OrderNamed, Sends
<1>5. OnlyPointUnmarked
  BY DEF Init, ReplyInit, OnlyPointUnmarked, NoError
<1>6. AnswerInSeq
  BY <1>2, EmptySeq DEF AnswerInSeq, Init
<1> QED
  BY <1>1, <1>3, <1>4, <1>5, <1>6 DEF SessionInv, IInv

(* A reader of parameters keeps error details and err_set together.        *)
LEMMA ReadKeepsNoError == ASSUME ReplyTypeOK, OnlyPointUnmarked, ReadParameter PROVE OnlyPointUnmarked'
<1> DEFINE E == [set : BOOLEAN, severity : Levels \cup {0}, code : Levels \cup {0},
                 point : Levels \cup {0}, diag : Text \cup {Unset}]
<1>1. err \in E
  BY DEF ReplyTypeOK
<1>2. err' \in {err, Severity(err, FirstPlace), Code(err, param), Point(err, param),
                Diagnostic(err, param)}
  <2>1. CASE ReplyMessageParameter
    BY <2>1 DEF ReplyMessageParameter
  <2>2. CASE AttributesParameter \/ UNCHANGED <<err, level, name, typdefnam>>
    BY <2>2 DEF AttributesParameter
  <2> QED
    BY <2>1, <2>2 DEF ReadParameter
<1>3. \A q : Severity(err, q) = err \/ Severity(err, q).set
  BY <1>1 DEF Severity
<1>4. \A q : Code(err, q) = err \/ Code(err, q).set
  BY <1>1 DEF Code
<1>5. \A q : Diagnostic(err, q).set
  BY <1>1 DEF Diagnostic
<1>6. \A q : /\ Point(err, q).set = err.set /\ Point(err, q).severity = err.severity
             /\ Point(err, q).code = err.code /\ Point(err, q).diag = err.diag
  BY <1>1 DEF Point
<1> QED
  BY <1>2, <1>3, <1>4, <1>5, <1>6 DEF OnlyPointUnmarked

LEMMA ReadKeepsOrder ==
    ASSUME SessionInv, ReadNextParameter PROVE OrderAhead'
<1>1. /\ object' = object /\ answer' = answer /\ order' = order /\ granted' = granted
      /\ pos' = pos + 1
  BY DEF ReadNextParameter, ReadParameter, session
<1>2. /\ OrderNamed(object, order)
      /\ pos \in Nat /\ Len(object.params) \in Nat /\ pos + 1 \in 1..Len(object.params)
  <2>1. OrderNamed(object, order) /\ ReplyTypeOK /\ pos < Len(object.params)
    BY DEF SessionInv, IInv, TypeOK, OrderAhead, ReadNextParameter, ReadParameter
  <2>2. Len(object.params) \in Nat
    BY <2>1, LenProperties, EmptySeq DEF ReplyTypeOK, NoObject, IsObject
  <2> QED
    BY <2>1, <2>2 DEF ReplyTypeOK
<1>3. /\ typdefnam' \in {typdefnam, order}
      /\ object.obj = "ACCRDBRM" /\ param.cp = "TYPDEFNAM" => typdefnam' = order
  <2>1. param.cp = "TYPDEFNAM" => param.val = order
    BY <1>2 DEF OrderNamed, param
  <2>2. typdefnam' = typdefnam \/ (param.cp = "TYPDEFNAM" /\ typdefnam' = param.val)
    BY DEF ReadNextParameter, ReadParameter, ReplyMessageParameter, AttributesParameter, Stored
  <2>3. object.obj = "ACCRDBRM" /\ param.cp = "TYPDEFNAM" => typdefnam' = param.val
    <3>1. ASSUME object.obj = "ACCRDBRM" PROVE ReplyMessageParameter
      BY <3>1 DEF ReadNextParameter, ReadParameter, Unknown
    <3> QED
      BY <3>1 DEF ReplyMessageParameter, Stored
  <2>4. typdefnam' = typdefnam \/ typdefnam' = order
    BY <2>1, <2>2
  <2>5. object.obj = "ACCRDBRM" /\ param.cp = "TYPDEFNAM" => typdefnam' = order
    BY <2>1, <2>3
  <2> QED
    BY <2>4, <2>5
<1>4. typdefnam = order => typdefnam' = order
  BY <1>3
<1>5. ASSUME object.obj = "ACCRDBRM", \E q \in Ahead : q.cp = "TYPDEFNAM"
      PROVE  typdefnam' = order \/ \E q \in Ahead' : q.cp = "TYPDEFNAM"
  <2>1. PICK j \in (pos + 1)..Len(object.params) : object.params[j].cp = "TYPDEFNAM"
    BY <1>5 DEF Ahead
  <2>2. CASE j = pos + 1
    <3>1. param.cp = "TYPDEFNAM"
      BY <2>1, <2>2 DEF param
    <3> QED
      BY <3>1, <1>3, <1>5
  <2>3. CASE j # pos + 1
    <3>1. j \in (pos' + 1)..Len(object'.params)
      BY <2>1, <2>3, <1>1, <1>2
    <3>2. object'.params[j] \in Ahead'
      BY <3>1 DEF Ahead
    <3> QED
      BY <3>2, <2>1, <1>1
  <2> QED
    BY <2>2, <2>3
<1>6. granted => typdefnam' = order \/ Sends(answer, "ACCRDBRM")
                 \/ (object.obj = "ACCRDBRM" /\ \E q \in Ahead' : q.cp = "TYPDEFNAM")
  BY <1>4, <1>5 DEF SessionInv, IInv, OrderAhead
<1>7. Sends(answer, "SQLDARD") \/ object.obj = "SQLDARD" => typdefnam' = order
  BY <1>4 DEF SessionInv, IInv, OrderAhead
<1>9. \A i \in 1..Len(answer) : OrderNamed(answer[i], order)
  BY DEF SessionInv, IInv, OrderAhead
<1> QED
  BY <1>1, <1>2, <1>6, <1>7, <1>9 DEF OrderAhead, Sends, OrderNamed
(* Sending a request: what comes back was checked against the server's     *)
(* byte order, and a description comes only with access granted.           *)
LEMMA SendKeepsOrder == ASSUME SessionInv, Send PROVE OrderAhead' /\ AnswerInSeq'
<1>1. /\ phase = "writing" /\ cmd \in Commands /\ order \in Orders
      /\ answer = <<>> /\ object = NoObject
  BY DEF SessionInv, IInv, TypeOK, Send
<1>2. /\ answer' \in Answers(cmd, order) /\ order' = order /\ typdefnam' = typdefnam
      /\ object' = object /\ pos' = pos
      /\ Sends(answer', "SQLDARD") => granted
      /\ granted' = (granted \/ Sends(answer', "ACCRDBRM"))
  BY DEF Send, replyState
<1>3. \A i \in 1..Len(answer') : OrderNamed(answer'[i], order')
  BY <1>1, <1>2, AnswerObjects DEF OrderNamed
<1>4. Len(NoObject.params) = 0 /\ NoObject.obj = "none"
  BY EmptySeq DEF NoObject
<1>5. OrderNamed(object', order')
  BY <1>1, <1>2, <1>4 DEF OrderNamed
<1>6. Len(answer) = 0
  BY <1>1, EmptySeq
<1>7. granted => typdefnam = order
  BY <1>1, <1>4, <1>6 DEF SessionInv, IInv, OrderAhead, Sends
<1>8. AnswerInSeq'
  BY <1>1, <1>2, AnswersAssumption DEF AnswerInSeq
<1>9. granted' => typdefnam' = order' \/ Sends(answer', "ACCRDBRM")
  BY <1>2, <1>7
<1>10. Sends(answer', "SQLDARD") \/ object'.obj = "SQLDARD" => typdefnam' = order'
  BY <1>1, <1>2, <1>4, <1>7
<1> QED
  BY <1>3, <1>5, <1>8, <1>9, <1>10 DEF OrderAhead, Sends

LEMMA NextObjectKeepsOrder ==
    ASSUME SessionInv, ReadNextObject PROVE OrderAhead' /\ AnswerInSeq'
<1>1. /\ object' = Head(answer) /\ answer' = Tail(answer) /\ pos' = 0 /\ answer # <<>>
      /\ order' = order /\ granted' = granted /\ typdefnam' = typdefnam
      /\ WholeRead
  BY DEF ReadNextObject, ReadObject
<1>2. /\ Len(answer) \in Nat \ {0} /\ Len(answer') = Len(answer) - 1
      /\ \A i \in 1..Len(answer') : answer'[i] = answer[i + 1] /\ i + 1 \in 1..Len(answer)
      /\ object' = answer[1] /\ 1 \in 1..Len(answer)
      /\ AnswerInSeq'
  <2>1. /\ Len(answer) \in Nat \ {0} /\ Len(Tail(answer)) = Len(answer) - 1
        /\ \A i \in 1..Len(Tail(answer)) : /\ Tail(answer)[i] = answer[i + 1]
                                           /\ i + 1 \in 1..Len(answer)
        /\ Head(answer) = answer[1]
        /\ Tail(answer) \in Seq({Tail(answer)[i] : i \in 1..Len(Tail(answer))})
    BY <1>1, TailOfAnswer DEF SessionInv
  <2> QED
    <3>1. /\ Len(answer') = Len(Tail(answer)) /\ \A i : answer'[i] = Tail(answer)[i]
          /\ AnswerInSeq' /\ 1 \in 1..Len(answer)
      BY <1>1, <2>1 DEF AnswerInSeq
    <3> QED
      BY <1>1, <2>1, <3>1
<1>3. \A i \in 1..Len(answer) : OrderNamed(answer[i], order)
  BY <1>1 DEF SessionInv, IInv, OrderAhead, OrderNamed
<1>4. (\A i \in 1..Len(answer') : OrderNamed(answer'[i], order')) /\ OrderNamed(object', order')
  BY <1>1, <1>2, <1>3 DEF OrderNamed
<1>5. ASSUME NEW obj PROVE Sends(answer, obj) <=> Sends(answer', obj) \/ object'.obj = obj
  <2>1. ASSUME NEW i \in 1..Len(answer), answer[i].obj = obj
        PROVE  Sends(answer', obj) \/ object'.obj = obj
    <3>1. CASE i = 1
      BY <3>1, <2>1, <1>2
    <3>2. CASE i # 1
      <4>1. i - 1 \in 1..Len(answer') /\ answer'[i - 1] = answer[i]
        <5>1. i - 1 \in 1..Len(answer')
          BY <3>2, <1>2
        <5> QED
          BY <5>1, <1>2
      <4> QED
        BY <4>1, <2>1 DEF Sends
    <3> QED
      BY <3>1, <3>2
  <2>2. Sends(answer', obj) \/ object'.obj = obj => Sends(answer, obj)
    BY <1>2 DEF Sends
  <2> QED
    BY <2>1, <2>2 DEF Sends
<1>6. Ahead = {}
  BY <1>1 DEF WholeRead, Ahead, SessionInv, IInv, TypeOK, ReplyTypeOK
<1>7. granted => typdefnam = order \/ Sends(answer, "ACCRDBRM")
  BY <1>6 DEF SessionInv, IInv, OrderAhead
<1>8. object'.obj = "ACCRDBRM" => \E q \in Ahead' : q.cp = "TYPDEFNAM"
  <2> SUFFICES ASSUME object'.obj = "ACCRDBRM" PROVE \E q \in Ahead' : q.cp = "TYPDEFNAM"
    OBVIOUS
  <2>1. PICK j \in 1..Len(object'.params) : object'.params[j].cp = "TYPDEFNAM"
    BY <1>4 DEF OrderNamed
  <2>2. object'.params[j] \in Ahead'
    BY <1>1 DEF Ahead
  <2> QED
    BY <2>1, <2>2
<1>9. Sends(answer, "SQLDARD") => typdefnam = order
  BY DEF SessionInv, IInv, OrderAhead
<1>10. granted' => \/ typdefnam' = order'
                   \/ Sends(answer', "ACCRDBRM")
                   \/ object'.obj = "ACCRDBRM" /\ \E q \in Ahead' : q.cp = "TYPDEFNAM"
  BY <1>1, <1>5, <1>7, <1>8
<1>11. Sends(answer', "SQLDARD") \/ object'.obj = "SQLDARD" => typdefnam' = order'
  BY <1>1, <1>5, <1>9
<1> QED
  BY <1>2, <1>4, <1>10, <1>11 DEF OrderAhead, Sends, OrderNamed

LEMMA ReturnKeepsOrder == ASSUME SessionInv, Return PROVE OrderAhead'
<1>1. /\ object' = NoObject /\ answer' = answer /\ answer = <<>> /\ pos' = 0
      /\ order' = order /\ granted' = granted /\ typdefnam' = typdefnam
      /\ WholeRead
  BY DEF Return, ReadObject
<1>2. Len(answer) = 0 /\ Len(NoObject.params) = 0 /\ NoObject.obj = "none"
  BY <1>1, EmptySeq DEF NoObject
<1>3. Ahead = {}
  BY <1>1 DEF WholeRead, Ahead, SessionInv, IInv, TypeOK, ReplyTypeOK
<1>4. granted => typdefnam = order
  BY <1>2, <1>3 DEF SessionInv, IInv, OrderAhead, Sends
<1> QED
  BY <1>1, <1>2, <1>4 DEF OrderAhead, Sends, OrderNamed

(* Closing, opening and releasing a connection: nothing is being read, and *)
(* access has to be granted anew.                                          *)
LEMMA ConnectionKeepsOrder ==
    ASSUME SessionInv, Connect \/ Release PROVE OrderAhead' /\ AnswerInSeq'
<1>1. answer = <<>> /\ object = NoObject
  BY DEF SessionInv, IInv, TypeOK, Connect, Release
<1>2. answer' = <<>> /\ object' = NoObject /\ granted' = FALSE
  BY <1>1 DEF Connect, Release, replyState
<1>3. Len(answer') = 0 /\ Len(object'.params) = 0 /\ object'.obj = "none"
  BY <1>2, EmptySeq DEF NoObject
<1>4. AnswerInSeq'
  BY <1>2, <1>3, EmptySeq DEF AnswerInSeq
<1> QED
  BY <1>2, <1>3, <1>4 DEF OrderAhead, Sends, OrderNamed

LEMMA NothingReadKeepsOrder ==
    ASSUME SessionInv, UNCHANGED <<replyState, order, granted, answer>>
    PROVE  OrderAhead' /\ AnswerInSeq'
BY DEF SessionInv, IInv, OrderAhead, OrderNamed, AnswerInSeq, Sends, Ahead, replyState
(* Every step preserves the invariant.                                     *)
LEMMA SessionStep == SessionInv /\ [Next]_vars => SessionInv'
<1> SUFFICES ASSUME SessionInv, [Next]_vars PROVE SessionInv'
  OBVIOUS
<1>1. FramingInv'
  BY FramingStep DEF SessionInv, IInv
<1>2. /\ FramingTypeOK' /\ ReplyTypeOK /\ TypeOK /\ OnlyPointUnmarked
      /\ MaxCmds \in Nat /\ MaxSessions \in Nat
  BY <1>1, SessionBounds DEF FramingInv, SessionInv, IInv, TypeOK
<1>3. CASE Connect
  <2>1. ReplyTypeOK' /\ OnlyPointUnmarked'
    BY <1>2, <1>3 DEF Connect, replyState, ReplyTypeOK, OnlyPointUnmarked
  <2>2. TypeOK'
    <3>1. cmds' \in 0..MaxCmds /\ sessions' \in 0..MaxSessions
      BY <1>2, <1>3 DEF Connect, TypeOK
    <3>2. /\ answer' = answer /\ object' = object /\ answer = <<>> /\ object = NoObject
          /\ \A i \in 1..Len(answer) : IsObject(answer[i])
      BY <1>2, <1>3 DEF Connect, replyState, TypeOK
    <3>3. phase' = "idle" /\ cmd' = "none" /\ order' \in Orders /\ granted' = FALSE
      BY <1>3 DEF Connect
    <3> QED
      BY <1>2, <2>1, <3>1, <3>2, <3>3 DEF TypeOK
  <2> QED
    BY <1>1, <1>3, <2>1, <2>2, ConnectionKeepsOrder DEF SessionInv, IInv
<1>4. CASE Release
  <2>1. ReplyInit'
    BY <1>4 DEF Release, ReplyInit
  <2>2. ReplyInit' => ReplyTypeOK'
    BY ReplyStarts, PTL
  <2>3. OnlyPointUnmarked'
    BY <2>1 DEF ReplyInit, OnlyPointUnmarked, NoError
  <2>4. TypeOK'
    <3>1. cmds' \in 0..MaxCmds /\ sessions' \in 0..MaxSessions
      BY <1>2, <1>4 DEF Release, TypeOK
    <3>2. /\ answer' = answer /\ object' = NoObject /\ answer = <<>>
          /\ \A i \in 1..Len(answer) : IsObject(answer[i])
      BY <1>2, <1>4 DEF Release, TypeOK
    <3>3. phase' = "closed" /\ cmd' = "none" /\ order' = order /\ granted' = FALSE
          /\ order \in Orders
      BY <1>2, <1>4 DEF Release, TypeOK
    <3> QED
      BY <1>2, <2>1, <2>2, <3>1, <3>2, <3>3 DEF TypeOK
  <2> QED
    BY <1>1, <1>4, <2>3, <2>4, ConnectionKeepsOrder DEF SessionInv, IInv
<1>5. ASSUME NEW c \in Commands, Issue(c) PROVE SessionInv'
  <2>1. ReplyTypeOK' /\ OnlyPointUnmarked'
    BY <1>2, <1>5 DEF Issue, replyState, ReplyTypeOK, OnlyPointUnmarked
  <2>2. c # "none"
    BY DEF Commands
  <2>3. cmds' \in 0..MaxCmds
    BY <1>2, <1>5 DEF Issue, TypeOK
  <2>4. TypeOK'
    BY <1>2, <1>5, <2>1, <2>2, <2>3 DEF Issue, replyState, TypeOK
  <2> QED
    BY <1>1, <1>5, <2>1, <2>4, NothingReadKeepsOrder DEF SessionInv, IInv, Issue
<1>6. CASE Build
  <2>1. ReplyTypeOK' /\ OnlyPointUnmarked'
    BY <1>2, <1>6 DEF Build, replyState, ReplyTypeOK, OnlyPointUnmarked
  <2>2. TypeOK'
    BY <1>2, <1>6, <2>1 DEF Build, replyState, session, TypeOK
  <2> QED
    BY <1>1, <1>6, <2>1, <2>2, NothingReadKeepsOrder DEF SessionInv, IInv, Build, session
<1>7. CASE Send
  <2>1. ReplyTypeOK' /\ OnlyPointUnmarked'
    BY <1>2, <1>7 DEF Send, replyState, ReplyTypeOK, OnlyPointUnmarked
  <2>2. \A i \in 1..Len(answer') : IsObject(answer'[i])
    BY <1>2, <1>7, AnswerObjects DEF Send, TypeOK
  <2>3. granted' \in BOOLEAN
    BY <1>7 DEF Send
  <2>4. TypeOK'
    BY <1>2, <1>7, <2>1, <2>2, <2>3 DEF Send, replyState, TypeOK
  <2> QED
    BY <1>1, <1>7, <2>1, <2>4, SendKeepsOrder DEF SessionInv, IInv
<1>8. CASE ReadNextObject
  <2>1. /\ \A i \in 1..Len(answer') : answer'[i] = answer[i + 1] /\ i + 1 \in 1..Len(answer)
        /\ Head(answer) = answer[1] /\ 1 \in 1..Len(answer)
    BY <1>8, TailOfAnswer DEF ReadNextObject, SessionInv
  <2>2. (\A i \in 1..Len(answer') : IsObject(answer'[i])) /\ IsObject(Head(answer))
    BY <1>2, <2>1 DEF TypeOK
  <2>3. ReplyTypeOK'
    BY <1>2, <1>8, <2>2, ReadObjectTyped DEF ReadNextObject
  <2>4. OnlyPointUnmarked'
    BY <1>2, <1>8 DEF ReadNextObject, ReadObject, OnlyPointUnmarked
  <2>5. TypeOK'
    BY <1>2, <1>8, <2>2, <2>3 DEF ReadNextObject, framing, TypeOK
  <2> QED
    BY <1>1, <1>8, <2>4, <2>5, NextObjectKeepsOrder DEF SessionInv, IInv
<1>9. CASE ReadNextParameter
  <2>1. ReplyTypeOK' /\ OnlyPointUnmarked'
    BY <1>2, <1>9, ReadParameterTyped, ReadKeepsNoError DEF ReadNextParameter
  <2>2. TypeOK'
    BY <1>2, <1>9, <2>1 DEF ReadNextParameter, framing, session, TypeOK
  <2>3. AnswerInSeq'
    BY <1>9 DEF ReadNextParameter, session, AnswerInSeq, SessionInv
  <2> QED
    BY <1>1, <1>9, <2>1, <2>2, <2>3, ReadKeepsOrder DEF SessionInv, IInv
<1>10. CASE Return
  <2>1. ReplyTypeOK'
    BY <1>2, <1>10, ReadObjectTyped DEF Return
  <2>2. OnlyPointUnmarked'
    BY <1>2, <1>10 DEF Return, ReadObject, OnlyPointUnmarked
  <2>3. TypeOK'
    BY <1>2, <1>10, <2>1 DEF Return, ReadObject, framing, TypeOK
  <2>4. AnswerInSeq'
    BY <1>10 DEF Return, AnswerInSeq, SessionInv
  <2> QED
    BY <1>1, <1>10, <2>2, <2>3, <2>4, ReturnKeepsOrder DEF SessionInv, IInv
<1>11. CASE UNCHANGED vars
  <2>1. ReplyTypeOK' /\ OnlyPointUnmarked'
    BY <1>2, <1>11 DEF vars, replyState, ReplyTypeOK, OnlyPointUnmarked
  <2>2. TypeOK'
    BY <1>2, <1>11, <2>1 DEF vars, replyState, session, TypeOK
  <2> QED
    BY <1>1, <1>11, <2>1, <2>2, NothingReadKeepsOrder DEF SessionInv, IInv, vars, session
<1> QED
  BY <1>3, <1>4, <1>5, <1>6, <1>7, <1>8, <1>9, <1>10, <1>11 DEF Next

(* The inductive invariant of a DRDA structure in use: requests, replies   *)
(* and the byte order of the server.                                       *)
THEOREM SessionCorrect == Spec => []IInv
<1>1. SessionInv => IInv
  BY DEF SessionInv
<1> QED
  BY <1>1, SessionStarts, SessionStep, PTL DEF Spec

THEOREM TypesCorrect == Spec => []TypeOK
<1>1. IInv => TypeOK
  BY DEF IInv
<1> QED
  BY <1>1, SessionCorrect, PTL

(* A clear err_set means that there is nothing drda_clear_error() would    *)
(* have to clear, after any number of replies.                             *)
THEOREM ErrorsMarked == Spec => []OnlyPointUnmarked
<1>1. IInv => OnlyPointUnmarked
  BY DEF IInv
<1> QED
  BY <1>1, SessionCorrect, PTL

(* Descriptions of columns are decoded in the byte order of the server     *)
(* they come from, also when the structure was connected to another one    *)
(* before.                                                                 *)
THEOREM ByteOrderKnown == Spec => []ByteOrderOfServer
<1>1. IInv => ByteOrderOfServer
  BY DEF IInv, OrderAhead, ByteOrderOfServer
<1> QED
  BY <1>1, SessionCorrect, PTL
=============================================================================
