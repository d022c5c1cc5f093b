-------------------------- MODULE ReplyChain_proofs --------------------------
(***************************************************************************)
(* Proofs about ReplyChain: the safety properties of the exchange, and     *)
(* that it implements stop-and-wait (RequestReply) while it is in sync.    *)
(***************************************************************************)
EXTENDS ReplyChain, SequenceTheorems, TLAPS

(* Extending "by" keeps it a sequence of commands.                         *)
LEMMA ByPlusLemma ==
    ASSUME by \in Seq(Nat), cmd \in Nat, NEW j \in Nat
    PROVE  /\ ByPlus(j) \in Seq(Nat)
           /\ Len(ByPlus(j)) = Len(by) + j
           /\ \A i \in 1..Len(by) : ByPlus(j)[i] = by[i]
           /\ \A i \in (Len(by) + 1)..(Len(by) + j) : ByPlus(j)[i] = cmd
<1> DEFINE n == Len(by) + j
<1>1. n \in Nat /\ Len(by) \in Nat
  BY LenProperties
<1>2. ByPlus(j) \in [1..n -> Nat]
  BY <1>1, LenProperties DEF ByPlus
<1>3. ByPlus(j) \in Seq(Nat)
  BY <1>1, <1>2, SeqDef, SMTT(30)
<1>4. Len(ByPlus(j)) = n
  BY <1>1, <1>2, <1>3, LenProperties
<1>5. \A i \in 1..n : ByPlus(j)[i] = IF i <= Len(by) THEN by[i] ELSE cmd
  BY DEF ByPlus
<1> QED
  BY <1>1, <1>3, <1>4, <1>5, SMTT(30)
  
(* Types: every step keeps every variable in its range.                    *)
LEMMA TypeInit == Init => TypeOK
<1>1. <<>> \in Seq(Nat) /\ <<>> \in Seq(DSS)
  BY EmptySeq
<1> QED
  <2> SUFFICES ASSUME Init PROVE TypeOK
    OBVIOUS
  <2>1. cmd \in 0..MaxCmds /\ answered \in 0..MaxCmds
    BY BoundsAssumption DEF Init
  <2>2. by \in Seq(Nat) /\ stream \in Seq(DSS)
    BY <1>1 DEF Init
  <2> QED
    BY <2>1, <2>2 DEF Init, TypeOK

LEMMA TypeStep == TypeOK /\ answered <= cmd /\ [Next]_vars => TypeOK'
<1> SUFFICES ASSUME TypeOK, answered <= cmd, [Next]_vars PROVE TypeOK'
  OBVIOUS
<1> USE BoundsAssumption
<1>1. CASE Send
  BY <1>1 DEF Send, TypeOK, server, FrontOfRequest
<1>2. ASSUME NEW j \in 1..Unread, ReadSegment(j) PROVE TypeOK'
  <2>1. Len(by) \in Nat /\ Len(stream) \in Nat /\ j \in Nat
    BY <1>2, LenProperties DEF TypeOK, Unread
  <2>2. by' \in Seq(Nat)
    BY <1>2, <2>1, ByPlusLemma DEF ReadSegment, TypeOK
  <2>3. front' \in Formats
    <3>1. Len(by) + 1 \in 1..Len(stream)
      BY <2>1 DEF Unread
    <3>2. stream[Len(by) + 1] \in DSS
      BY <3>1, ElementOfSeq DEF TypeOK
    <3> QED
      BY <1>2, <3>2 DEF ReadSegment, DSS
  <2> QED
    BY <1>2, <2>2, <2>3 DEF ReadSegment, AfterSegment, Results, TypeOK, server
<1>3. ASSUME NEW j \in 0..Unread, NEW m \in BOOLEAN, ReadGarbled(j, m)
      PROVE  TypeOK'
  <2>1. Len(by) \in Nat /\ Len(stream) \in Nat /\ j \in Nat
    BY <1>3, LenProperties DEF TypeOK, Unread
  <2>2. by' \in Seq(Nat)
    BY <1>3, <2>1, ByPlusLemma DEF ReadGarbled, TypeOK
  <2> QED
    BY <1>3, <2>2 DEF ReadGarbled, Results, TypeOK, server
<1>4. CASE ReadNothing
  BY <1>4 DEF ReadNothing, AfterSegment, Results, TypeOK, server
<1>5. ASSUME NEW f \in Formats, ServerSend(f) PROVE TypeOK'
  <2>1. answered + 1 \in 0..MaxCmds
    BY <1>5 DEF ServerSend, TypeOK
  <2>2. stream' \in Seq(DSS)
    BY <1>5, <2>1 DEF ServerSend, TypeOK, DSS
  <2> QED
    BY <1>5, <2>1, <2>2 DEF ServerSend, TypeOK, client
<1>6. ASSUME NEW k \in Len(by)..Len(stream), NEW how \in {"closed", "reset"},
             ConnectionLost(k, how)
      PROVE  TypeOK'
  <2>1. Len(by) \in Nat /\ Len(stream) \in Nat
    BY LenProperties DEF TypeOK
  <2>2. stream' \in Seq(DSS)
    <3>1. k \in Nat /\ k <= Len(stream)
      BY <2>1
    <3>2. \A i \in 1..k : stream[i] \in DSS
      <4>1. stream \in Seq(DSS)
        BY DEF TypeOK
      <4> QED
        BY <4>1, <2>1, <3>1, ElementOfSeq
    <3>3. SubSeq(stream, 1, k) \in Seq(DSS)
      BY <3>1, <3>2, SubSeqProperties
    <3> QED
      BY <1>6, <3>3 DEF ConnectionLost
  <2> QED
    BY <1>6, <2>2 DEF ConnectionLost, TypeOK, client
<1>7. CASE UNCHANGED vars
  BY <1>7 DEF TypeOK, vars, client, server
<1> QED
  BY <1>1, <1>2, <1>3, <1>4, <1>5, <1>6, <1>7 DEF Next

-----------------------------------------------------------------------------
(* A DSS of the current reply that ends it is the last one of the stream:  *)
(* what follows would answer a command that was never issued.              *)
LEMMA EndIsLast ==
    ASSUME TypeOK, Positions, RepliesInOrder,
           NEW i \in 1..Len(stream), stream[i].cmd = cmd, EndsReply(stream[i].fmt)
    PROVE  i = Len(stream)
<1>1. Len(stream) \in Nat /\ cmd \in Nat
  BY LenProperties DEF TypeOK
<1>2. SUFFICES ASSUME i < Len(stream) PROVE FALSE
  BY <1>1
<1>3. stream[i+1].cmd = cmd + 1
  BY <1>1, <1>2 DEF RepliesInOrder
<1>4. stream[i+1].cmd \in 1..cmd
  BY <1>1, <1>2 DEF Positions
<1> QED
  BY <1>1, <1>3, <1>4

(* While the server is up and has answered everything, the stream ends     *)
(* with the end of the current reply; while it has not, it does not.       *)
LEMMA StreamEnd ==
    ASSUME TypeOK, Positions, ServerPosition, conn = "up",
           Len(stream) > 0, Last(stream).cmd = cmd
    PROVE  /\ EndsReply(Last(stream).fmt) => answered = cmd
           /\ ~EndsReply(Last(stream).fmt) => answered = cmd - 1
BY LenProperties DEF TypeOK, ServerPosition

LEMMA InvInit == Init => IInv
<1> SUFFICES ASSUME Init PROVE IInv
  OBVIOUS
<1>1. TypeOK
  BY TypeInit
<1>2. Len(by) = 0 /\ Len(stream) = 0
  BY EmptySeq DEF Init
<1> QED
  BY <1>1, <1>2 DEF Init, IInv, Positions, RepliesInOrder, ServerPosition,
       OwnReply, OwnReplyAhead, FrontSound, NothingLeftOver, ServerOwes,
       ResultSound, Drained, Unread, cut

LEMMA SendStep == IInv /\ TypeOK' /\ Send => IInv'
<1> SUFFICES ASSUME IInv, TypeOK', Send PROVE IInv'
  OBVIOUS
<1> USE DEF IInv
<1>1. /\ Len(by) \in Nat /\ Len(stream) \in Nat /\ cmd \in Nat
      /\ answered \in Nat
  BY LenProperties DEF TypeOK
<1>2. /\ by' = by /\ stream' = stream /\ answered' = answered /\ sent' = sent
      /\ conn' = conn /\ mid' = mid /\ torn' = torn /\ objcut' = objcut
      /\ cmd' = cmd + 1 /\ front' = 0 /\ pc = "idle" /\ pc' \in {"reading", "dead"}
  BY DEF Send, server, FrontOfRequest
<1>3. Positions'
  BY <1>1, <1>2 DEF Positions
<1>4. RepliesInOrder' /\ ServerPosition' /\ OwnReply'
  BY <1>2 DEF RepliesInOrder, ServerPosition, OwnReply, cut, Last
<1>5. OwnReplyAhead' /\ ServerOwes'
  BY <1>1, <1>2 DEF OwnReplyAhead, ServerOwes, NothingLeftOver, Drained, Unread, cut
<1>6. FrontSound'
  <2> SUFFICES ASSUME ~cut, NEW i \in 1..Len(by) PROVE by[i] # cmd + 1
    BY <1>2 DEF FrontSound, cut
  <2>1. i \in 1..Len(stream)
    BY <1>1 DEF Positions
  <2> QED
    BY <1>1, <2>1 DEF OwnReply, Positions
<1>7. NothingLeftOver' /\ ResultSound'
  BY <1>2 DEF NothingLeftOver, ResultSound
<1> QED
  BY <1>3, <1>4, <1>5, <1>6, <1>7

LEMMA ReadSegmentStep ==
    ASSUME IInv, TypeOK', NEW j \in 1..Unread, ReadSegment(j)
    PROVE  IInv'
<1> USE DEF IInv
<1> DEFINE e == Len(by) + j
           f == stream[e].fmt
<1>1. /\ Len(by) \in Nat /\ Len(stream) \in Nat /\ cmd \in Nat
      /\ answered \in Nat /\ j \in Nat /\ e \in 1..Len(stream)
      /\ Len(by) + 1 \in 1..Len(stream)
  BY LenProperties DEF TypeOK, Unread
<1>2. /\ stream' = stream /\ answered' = answered /\ sent' = sent
      /\ conn' = conn /\ mid' = mid /\ torn' = torn /\ cmd' = cmd
      /\ front' = stream[Len(by) + 1].fmt
      /\ objcut' = (objcut \/ f = OBJDSS_CHAIN)
      /\ pc = "reading" /\ pc' = IF KeepsReading(f) THEN "reading" ELSE "idle"
      /\ KeepsReading(f) \/ ret' \in {"pos", "sqlca"}
  BY DEF ReadSegment, server, AfterSegment, Results
<1>3. /\ Len(by') = e
      /\ \A i \in 1..Len(by) : by'[i] = by[i]
      /\ \A i \in (Len(by) + 1)..e : by'[i] = cmd
  BY <1>1, ByPlusLemma DEF ReadSegment, TypeOK
<1>4. f \in DSSFormats /\ front' # 0
  <2>1. f \in Formats /\ front' \in Formats
    <3>1. stream \in Seq(DSS)
      BY DEF TypeOK
    <3>2. stream[e] \in DSS /\ stream[Len(by) + 1] \in DSS
      BY <1>1, <3>1, ElementOfSeq
    <3> QED
      BY <1>2, <3>2 DEF DSS
  <2>2. Formats \subseteq DSSFormats
    BY FormatsAssumption
  <2>3. 0 \notin DSSFormats
    BY DEF DSSFormats, RPYDSS, OBJDSS, RPYDSS_CHAIN, RPYDSS_CHAIN_RC, OBJDSS_CHAIN
  <2> QED
    BY <2>1, <2>2, <2>3
<1>5. ~cut' => ~cut /\ (KeepsReading(f) <=> ~EndsReply(f))
  <2> SUFFICES ASSUME ~cut' PROVE ~cut /\ (KeepsReading(f) <=> ~EndsReply(f))
    OBVIOUS
  <2>1. ~torn /\ ~objcut /\ f # OBJDSS_CHAIN
    BY <1>2 DEF cut
  <2>2. f \in {RPYDSS, OBJDSS, RPYDSS_CHAIN, RPYDSS_CHAIN_RC}
    BY <1>4, <2>1 DEF DSSFormats
  <2>3. KeepsReading(f) <=> ~EndsReply(f)
    BY <2>2 DEF KeepsReading, EndsReply, RPYDSS, OBJDSS, RPYDSS_CHAIN,
         RPYDSS_CHAIN_RC
  <2> QED
    BY <2>1, <2>3 DEF cut
<1>6. ~cut' => stream[e].cmd = cmd
  BY <1>1, <1>2, <1>5 DEF OwnReplyAhead
<1>7. ~cut' /\ EndsReply(f) => e = Len(stream)
  BY <1>1, <1>6, EndIsLast
<1>8. Positions'
  BY <1>1, <1>2, <1>3 DEF Positions
<1>9. RepliesInOrder' /\ ServerPosition'
  BY <1>2 DEF RepliesInOrder, ServerPosition, Last
<1>10. OwnReply'
  <2> SUFFICES ASSUME ~cut', NEW i \in 1..e PROVE by'[i] = stream[i].cmd
    BY <1>2, <1>3 DEF OwnReply
  <2>1. CASE i <= Len(by)
    BY <1>1, <1>3, <1>5, <2>1 DEF OwnReply
  <2>2. CASE i > Len(by)
    <3>1. i \in (Len(by) + 1)..Len(stream) /\ i \in (Len(by) + 1)..e
      BY <1>1, <2>2
    <3> QED
      BY <1>2, <1>3, <1>5, <3>1 DEF OwnReplyAhead
  <2> QED
    BY <1>1, <2>1, <2>2
<1>11. OwnReplyAhead'
  BY <1>1, <1>2, <1>3, <1>5 DEF OwnReplyAhead
<1>12. FrontSound'
  BY <1>1, <1>2, <1>3, <1>4 DEF FrontSound
<1>13. NothingLeftOver'
  <2> SUFFICES ASSUME ~cut', pc' = "idle"
               PROVE  e = Len(stream) /\ (conn = "up" => answered = cmd)
    BY <1>1, <1>2, <1>3 DEF NothingLeftOver, Drained, Unread
  <2>1. EndsReply(f) /\ e = Len(stream)
    BY <1>2, <1>5, <1>7
  <2> QED
    BY <1>1, <1>6, <2>1, StreamEnd DEF Last
<1>14. ServerOwes'
  <2> SUFFICES ASSUME ~cut', pc' = "reading", e = Len(stream), conn = "up"
               PROVE  answered < cmd
    BY <1>1, <1>2, <1>3 DEF ServerOwes, Drained, Unread
  <2>1. ~EndsReply(f)
    BY <1>2, <1>5
  <2> QED
    BY <1>1, <1>6, <2>1, StreamEnd DEF Last
<1>15. ResultSound'
  BY <1>1, <1>2, <1>3 DEF ResultSound
<1> QED
  BY <1>8, <1>9, <1>10, <1>11, <1>12, <1>13, <1>14, <1>15

LEMMA ReadGarbledStep ==
    ASSUME IInv, TypeOK', NEW j \in 0..Unread, NEW m \in BOOLEAN,
           ReadGarbled(j, m)
    PROVE  IInv'
<1> USE DEF IInv
<1>1. /\ Len(by) \in Nat /\ Len(stream) \in Nat /\ cmd \in Nat
      /\ j \in Nat /\ Len(by) + j <= Len(stream)
  BY LenProperties DEF TypeOK, Unread, Positions
<1>2. /\ stream' = stream /\ answered' = answered /\ conn' = conn /\ cmd' = cmd
      /\ torn' = TRUE /\ cut'
  BY DEF ReadGarbled, server, cut
<1>3. Len(by') = Len(by) + j
  BY <1>1, ByPlusLemma DEF ReadGarbled, TypeOK
<1>4. Positions'
  BY <1>1, <1>2, <1>3 DEF Positions
<1>5. RepliesInOrder' /\ ServerPosition'
  BY <1>2 DEF RepliesInOrder, ServerPosition, Last
<1> QED
  BY <1>2, <1>4, <1>5 DEF OwnReply, OwnReplyAhead, FrontSound, NothingLeftOver,
       ServerOwes, ResultSound

LEMMA ReadNothingStep == IInv /\ TypeOK' /\ ReadNothing => IInv'
<1> SUFFICES ASSUME IInv, TypeOK', ReadNothing PROVE IInv'
  OBVIOUS
<1> USE DEF IInv
<1>1. /\ Len(by) \in Nat /\ Len(stream) \in Nat /\ cmd \in Nat
  BY LenProperties DEF TypeOK
<1>2. /\ by' = by /\ stream' = stream /\ answered' = answered /\ cmd' = cmd
      /\ front' = front /\ mid' = mid /\ torn' = torn /\ objcut' = objcut
      /\ pc = "reading" /\ pc' \in {"reading", "idle"}
      /\ conn # "up" /\ conn' = "closed" /\ Drained
      /\ pc' = "idle" => ret' \in {"pos", "sqlca"} \/ front = 0
      /\ front = 0 => ret' # "pos"
  BY DEF ReadNothing, server, AfterSegment, Results
<1>3. Positions' /\ RepliesInOrder' /\ ServerPosition' /\ OwnReply'
  BY <1>2 DEF Positions, RepliesInOrder, ServerPosition, OwnReply, cut
<1>4. OwnReplyAhead' /\ FrontSound' /\ ServerOwes' /\ NothingLeftOver'
  BY <1>2 DEF OwnReplyAhead, FrontSound, ServerOwes, NothingLeftOver, cut,
       Drained, Unread
<1>5. ResultSound'
  BY <1>2 DEF ResultSound, FrontSound, cut
<1> QED
  BY <1>3, <1>4, <1>5

LEMMA ServerSendStep ==
    ASSUME IInv, TypeOK', NEW g \in Formats, ServerSend(g)
    PROVE  IInv'
<1> USE DEF IInv
<1> DEFINE new == [cmd |-> answered + 1, fmt |-> g]
<1>1. /\ Len(by) \in Nat /\ Len(stream) \in Nat /\ cmd \in Nat
      /\ answered \in Nat /\ answered < cmd
  BY LenProperties DEF TypeOK, ServerSend
<1>2. /\ by' = by /\ cmd' = cmd /\ pc' = pc /\ ret' = ret /\ front' = front
      /\ mid' = mid /\ torn' = torn /\ objcut' = objcut
      /\ conn = "up" /\ conn' = "up"
      /\ answered' = IF EndsReply(g) THEN answered + 1 ELSE answered
  BY DEF ServerSend, client
<1>3. /\ Len(stream') = Len(stream) + 1
      /\ \A i \in 1..Len(stream) : stream'[i] = stream[i]
      /\ stream'[Len(stream) + 1] = new
      /\ new.cmd = answered + 1 /\ new.fmt = g
  BY <1>1 DEF ServerSend, TypeOK
<1>4. Positions'
  BY <1>1, <1>2, <1>3 DEF Positions
<1>5. RepliesInOrder'
  <2> SUFFICES ASSUME NEW i \in 1..Len(stream)
               PROVE  stream'[i+1].cmd =
                        IF EndsReply(stream'[i].fmt) THEN stream'[i].cmd + 1
                                                     ELSE stream'[i].cmd
    BY <1>1, <1>3 DEF RepliesInOrder
  <2>1. CASE i < Len(stream)
    BY <1>1, <1>3, <2>1 DEF RepliesInOrder
  <2>2. CASE i = Len(stream)
    <3>1. stream[i].cmd \in Nat
      BY <1>1 DEF Positions
    <3>2. answered = IF EndsReply(stream[i].fmt) THEN stream[i].cmd
                                                 ELSE stream[i].cmd - 1
      BY <1>1, <1>2, <2>2 DEF ServerPosition, Last
    <3> QED
      BY <1>1, <1>3, <2>2, <3>1, <3>2
  <2> QED
    BY <1>1, <2>1, <2>2
<1>6. ServerPosition'
  BY <1>1, <1>2, <1>3 DEF ServerPosition, Last
<1>7. OwnReply'
  BY <1>1, <1>2, <1>3 DEF OwnReply, Positions, cut
<1>8. OwnReplyAhead'
  <2> SUFFICES ASSUME ~cut, pc = "reading"
               PROVE  /\ \A i \in (Len(by) + 1)..(Len(stream) + 1) :
                            stream'[i].cmd = cmd
                      /\ answered' >= cmd - 1
    BY <1>2, <1>3 DEF OwnReplyAhead, cut
  <2>1. answered = cmd - 1
    BY <1>1, <1>2 DEF OwnReplyAhead
  <2>2. \A i \in (Len(by) + 1)..Len(stream) : stream'[i].cmd = cmd
    BY <1>1, <1>3 DEF OwnReplyAhead
  <2> QED
    BY <1>1, <1>2, <1>3, <2>1, <2>2
<1>9. FrontSound' /\ ResultSound'
  BY <1>2 DEF FrontSound, ResultSound, cut
<1>10. NothingLeftOver' /\ ServerOwes'
  BY <1>1, <1>2, <1>3 DEF NothingLeftOver, ServerOwes, Positions, Drained, Unread, cut
<1> QED
  BY <1>4, <1>5, <1>6, <1>7, <1>8, <1>9, <1>10

LEMMA ConnectionLostStep ==
    ASSUME IInv, TypeOK', NEW k \in Len(by)..Len(stream),
           NEW how \in {"closed", "reset"}, ConnectionLost(k, how)
    PROVE  IInv'
<1> USE DEF IInv
<1>1. /\ Len(by) \in Nat /\ Len(stream) \in Nat /\ cmd \in Nat
      /\ k \in Nat /\ Len(by) <= k /\ k <= Len(stream)
  BY LenProperties DEF TypeOK
<1>2. /\ by' = by /\ cmd' = cmd /\ pc' = pc /\ ret' = ret /\ front' = front
      /\ mid' = mid /\ torn' = torn /\ objcut' = objcut
      /\ conn = "up" /\ conn' # "up" /\ answered' = answered
  BY DEF ConnectionLost, client
<1>3. Len(stream') = k /\ \A i \in 1..k : stream'[i] = stream[i]
  <2>1. \A i \in 1..k : stream[i] \in DSS
    <3>1. stream \in Seq(DSS)
      BY DEF TypeOK
    <3> QED
      BY <3>1, <1>1, ElementOfSeq
  <2>2. stream' = SubSeq(stream, 1, k)
    BY DEF ConnectionLost
  <2>3. /\ Len(SubSeq(stream, 1, k)) = IF 1 <= k THEN k - 1 + 1 ELSE 0
        /\ \A i \in 1..(k - 1 + 1) : SubSeq(stream, 1, k)[i] = stream[1 + i - 1]
    BY <1>1, <2>1, SubSeqProperties
  <2> QED
    BY <1>1, <2>2, <2>3
<1>4. Positions' /\ RepliesInOrder' /\ ServerPosition'
  <2>1. Positions'
    BY <1>1, <1>2, <1>3 DEF Positions
  <2>2. \A i \in 1..(k - 1) : i \in 1..(Len(stream) - 1)
                              /\ stream'[i] = stream[i] /\ stream'[i+1] = stream[i+1]
    BY <1>1, <1>3
  <2>3. RepliesInOrder'
    BY <1>3, <2>2 DEF RepliesInOrder
  <2>4. ServerPosition'
    BY <1>2 DEF ServerPosition
  <2> QED
    BY <2>1, <2>3, <2>4
<1>5. OwnReply' /\ OwnReplyAhead' /\ FrontSound'
  BY <1>1, <1>2, <1>3 DEF OwnReply, OwnReplyAhead, FrontSound, cut
<1>6. NothingLeftOver' /\ ServerOwes' /\ ResultSound'
  BY <1>1, <1>2, <1>3 DEF NothingLeftOver, ServerOwes, ResultSound, Drained,
       Unread, cut
<1> QED
  BY <1>4, <1>5, <1>6

(* The invariant is inductive: one step per action of the specification.   *)
LEMMA InvStep == IInv /\ [Next]_vars => IInv'
<1> SUFFICES ASSUME IInv, [Next]_vars PROVE IInv'
  OBVIOUS
<1>1. TypeOK'
  BY TypeStep DEF IInv, Positions
<1>2. CASE Send
  BY <1>1, <1>2, SendStep
<1>3. CASE \E j \in 1..Unread : ReadSegment(j)
  BY <1>1, <1>3, ReadSegmentStep
<1>4. CASE \E j \in 0..Unread, m \in BOOLEAN : ReadGarbled(j, m)
  BY <1>1, <1>4, ReadGarbledStep
<1>5. CASE ReadNothing
  BY <1>1, <1>5, ReadNothingStep
<1>6. CASE \E f \in Formats : ServerSend(f)
  BY <1>1, <1>6, ServerSendStep
<1>7. CASE \E k \in Len(by)..Len(stream), how \in {"closed", "reset"} :
              ConnectionLost(k, how)
  BY <1>1, <1>7, ConnectionLostStep
<1>8. CASE UNCHANGED vars
  BY <1>8 DEF IInv, TypeOK, Positions, RepliesInOrder, ServerPosition, OwnReply,
       OwnReplyAhead, FrontSound, NothingLeftOver, ServerOwes, ResultSound,
       Drained, Unread, Last, cut, vars, client, server
<1> QED
  BY <1>2, <1>3, <1>4, <1>5, <1>6, <1>7, <1>8 DEF Next

(* The inductive invariant holds in every reachable state.                 *)
THEOREM Invariance == Spec => []IInv
<1>1. Init => IInv
  BY InvInit
<1>2. IInv /\ [Next]_vars => IInv'
  BY InvStep
<1> QED
  BY <1>1, <1>2, PTL DEF Spec

(* The state of client and server keeps its types through chain_read().    *)
THEOREM TypesHold == Spec => []TypeOK
<1>1. IInv => TypeOK
  BY DEF IInv
<1> QED
  BY <1>1, Invariance, PTL

(* Whatever a command consumes is its own reply (while reads respect the   *)
(* framing), for any number of commands and any length of reply.           *)
THEOREM OwnReplyHolds == Spec => []OwnReply
BY Invariance, PTL DEF IInv

(* A command that returned left nothing of its reply on the socket.        *)
THEOREM NothingLeftOverHolds == Spec => []NothingLeftOver
BY Invariance, PTL DEF IInv

(* chain_read() never waits for a DSS the server will not send.            *)
THEOREM ServerOwesHolds == Spec => []ServerOwes
BY Invariance, PTL DEF IInv

(* The sign of the result tells whether a reply was heard, of every        *)
(* command but PRPSQLSTT.                                                  *)
THEOREM ResultSoundHolds == Spec => []ResultSound
BY Invariance, PTL DEF IInv

-----------------------------------------------------------------------------
(* Refinement.                                                             *)

LEMMA RefineInit == Init => RR!Init
BY EmptySeq DEF Init, RR!Init, cut, heard

(* A command is issued only after the previous reply was wholly heard.     *)
LEMMA RefineSend == IInv /\ Send => [RR!Next]_RR!vars
<1> SUFFICES ASSUME IInv, Send PROVE RR!Next
  OBVIOUS
<1> USE DEF IInv
<1>1. /\ Len(by) \in Nat /\ Len(stream) \in Nat /\ cmd \in Nat
      /\ answered \in Nat /\ Len(by) <= Len(stream)
  BY LenProperties DEF TypeOK, Positions
<1>2. /\ by' = by /\ stream' = stream /\ conn' = conn /\ cut' = cut
      /\ cmd' = cmd + 1 /\ pc = "idle"
      /\ pc' \in {"reading"} \cup (IF conn # "up" THEN {"dead"} ELSE {})
  BY DEF Send, server, cut
<1>3. CASE cut
  BY <1>2, <1>3 DEF RR!Next, RR!Astray
<1>4. CASE ~cut
  <2>1. heard' = "none"
    <3>1. Len(by) > 0 => stream[Len(by)].cmd \in 1..cmd
      BY <1>1 DEF Positions
    <3> QED
      BY <1>1, <1>2, <3>1 DEF heard
  <2>2. cmd = 0 \/ heard = "whole" \/ conn # "up"
    <3> SUFFICES ASSUME cmd > 0, conn = "up" PROVE heard = "whole"
      BY <1>1
    <3>1. Len(by) = Len(stream) /\ answered = cmd
      BY <1>1, <1>2, <1>4 DEF NothingLeftOver, Drained, Unread
    <3>2. Len(stream) > 0
      BY <1>1, <3>1 DEF ServerPosition
    <3>3. Last(stream).cmd \in 1..cmd
      BY <1>1, <3>2 DEF Positions, Last
    <3>4. EndsReply(Last(stream).fmt) /\ Last(stream).cmd = cmd
      BY <1>1, <3>1, <3>2, <3>3 DEF ServerPosition
    <3> QED
      BY <3>1, <3>2, <3>4 DEF heard, Last
  <2> QED
    BY <1>2, <1>4, <2>1, <2>2 DEF RR!Next, RR!Call
<1> QED
  BY <1>3, <1>4

(* A segment that keeps the framing is a part of the reply, or its end.    *)
LEMMA RefineReadSegment ==
    ASSUME IInv, IInv', NEW j \in 1..Unread, ReadSegment(j)
    PROVE  [RR!Next]_RR!vars
<1> USE DEF IInv
<1> DEFINE e == Len(by) + j
           f == stream[e].fmt
<1>1. /\ Len(by) \in Nat /\ Len(stream) \in Nat /\ cmd \in Nat
      /\ j \in Nat /\ e \in 1..Len(stream) /\ Len(by) + 1 \in 1..Len(stream)
  BY LenProperties DEF TypeOK, Unread
<1>2. /\ stream' = stream /\ conn' = conn /\ cmd' = cmd /\ torn' = torn
      /\ objcut' = (objcut \/ f = OBJDSS_CHAIN)
      /\ pc = "reading" /\ pc' = IF KeepsReading(f) THEN "reading" ELSE "idle"
  BY DEF ReadSegment, server, AfterSegment
<1>3. Len(by') = e
  BY <1>1, ByPlusLemma DEF ReadSegment, TypeOK
<1>4. CASE cut
  BY <1>2, <1>4 DEF RR!Next, RR!Astray, cut
<1>5. CASE ~cut /\ cut'
  BY <1>2, <1>5 DEF RR!Next, RR!LoseSync
<1>6. CASE ~cut /\ ~cut'
  <2>1. f \in {RPYDSS, OBJDSS, RPYDSS_CHAIN, RPYDSS_CHAIN_RC}
    <3>1. stream \in Seq(DSS)
      BY DEF TypeOK
    <3>2. stream[e] \in DSS
      BY <1>1, <3>1, ElementOfSeq
    <3>3. f \in Formats /\ f # OBJDSS_CHAIN
      BY <1>2, <1>6, <3>2 DEF DSS, cut
    <3> QED
      BY <3>3, FormatsAssumption DEF DSSFormats
  <2>2. KeepsReading(f) <=> ~EndsReply(f)
    BY <2>1 DEF KeepsReading, EndsReply, RPYDSS, OBJDSS, RPYDSS_CHAIN,
         RPYDSS_CHAIN_RC
  <2>3. stream[e].cmd = cmd /\ stream[Len(by) + 1].cmd = cmd
    BY <1>1, <1>2, <1>6 DEF OwnReplyAhead
  <2>4. heard' = IF EndsReply(f) THEN "whole" ELSE "part"
    BY <1>1, <1>2, <1>3, <2>3 DEF heard
  <2>5. heard \in {"none", "part"}
    <3> SUFFICES ASSUME Len(by) > 0, stream[Len(by)].cmd = cmd,
                        EndsReply(stream[Len(by)].fmt)
                 PROVE  FALSE
      BY DEF heard
    <3>1. Len(by) \in 1..Len(stream)
      BY <1>1
    <3>2. Len(by) = Len(stream)
      BY <3>1, EndIsLast
    <3> QED
      BY <1>1, <3>2
  <2>6. CASE EndsReply(f)
    BY <1>2, <1>6, <2>2, <2>4, <2>5, <2>6 DEF RR!Next, RR!HearAll
  <2>7. CASE ~EndsReply(f)
    BY <1>2, <1>6, <2>2, <2>4, <2>5, <2>7 DEF RR!Next, RR!HearPart
  <2> QED
    BY <2>6, <2>7
<1> QED
  BY <1>4, <1>5, <1>6

(* A read that breaks the framing loses the synchronization.               *)
LEMMA RefineReadGarbled ==
    ASSUME NEW j, NEW m, ReadGarbled(j, m)
    PROVE  [RR!Next]_RR!vars
BY DEF ReadGarbled, cut, RR!Next, RR!LoseSync, RR!Astray

(* Nothing more to read: the call gives up, or spins without effect.       *)
LEMMA RefineReadNothing == ReadNothing => [RR!Next]_RR!vars
<1> SUFFICES ASSUME ReadNothing PROVE [RR!Next]_RR!vars
  OBVIOUS
<1>1. /\ by' = by /\ stream' = stream /\ cmd' = cmd /\ cut' = cut
      /\ conn # "up" /\ conn' # "up" /\ pc = "reading" /\ pc' \in {"reading", "idle"}
  BY DEF ReadNothing, AfterSegment, server, cut
<1>2. heard' = heard /\ (conn' # "up") = (conn # "up")
  BY <1>1 DEF heard
<1>3. CASE pc' = "reading"
  BY <1>1, <1>2, <1>3 DEF RR!vars
<1>4. CASE pc' = "idle" /\ cut
  BY <1>1, <1>4 DEF RR!Next, RR!Astray
<1>5. CASE pc' = "idle" /\ ~cut
  BY <1>1, <1>2, <1>5 DEF RR!Next, RR!GiveUp
<1> QED
  BY <1>1, <1>3, <1>4, <1>5

(* What the server sends is not heard yet.                                 *)
LEMMA RefineServerSend ==
    ASSUME IInv, NEW g \in Formats, ServerSend(g)
    PROVE  [RR!Next]_RR!vars
<1>1. /\ by' = by /\ cmd' = cmd /\ pc' = pc /\ cut' = cut /\ conn' = conn
  BY DEF ServerSend, client, cut
<1>2. Len(by) > 0 => stream'[Len(by)] = stream[Len(by)]
  <2>1. Len(by) \in Nat /\ Len(stream) \in Nat /\ Len(by) <= Len(stream)
    BY LenProperties DEF IInv, TypeOK, Positions
  <2> QED
    BY <2>1 DEF ServerSend, IInv, TypeOK
<1>3. heard' = heard
  <2>1. Len(by) \in Nat
    BY LenProperties DEF IInv, TypeOK
  <2> QED
    BY <1>1, <1>2, <2>1 DEF heard
<1> QED
  BY <1>1, <1>3 DEF RR!vars

(* Losing the connection takes nothing back that was heard.                *)
LEMMA RefineConnectionLost ==
    ASSUME IInv, NEW k \in Len(by)..Len(stream),
           NEW how \in {"closed", "reset"}, ConnectionLost(k, how)
    PROVE  [RR!Next]_RR!vars
<1>1. /\ by' = by /\ cmd' = cmd /\ pc' = pc /\ cut' = cut
      /\ conn = "up" /\ conn' # "up"
  BY DEF ConnectionLost, client, cut
<1>2. Len(by) \in Nat /\ Len(stream) \in Nat /\ k \in Nat /\ Len(by) <= k
      /\ k <= Len(stream)
  BY LenProperties DEF IInv, TypeOK
<1>3. \A i \in 1..k : stream'[i] = stream[i]
  <2>1. stream \in Seq(DSS)
    BY DEF IInv, TypeOK
  <2>2. \A i \in 1..k : stream[i] \in DSS
    BY <1>2, <2>1, ElementOfSeq
  <2>3. \A i \in 1..(k - 1 + 1) : SubSeq(stream, 1, k)[i] = stream[1 + i - 1]
    BY <1>2, <2>2, SubSeqProperties
  <2> QED
    BY <1>2, <2>3 DEF ConnectionLost
<1>4. heard' = heard
  BY <1>1, <1>2, <1>3 DEF heard
<1> QED
  BY <1>1, <1>4 DEF RR!Next, RR!Lose

(* The exchange implements stop-and-wait: every call hears its own reply,  *)
(* all of it, before it returns and before the next call begins, until the *)
(* connection is lost or a read breaks the framing.                        *)
THEOREM Refinement == Spec => StopAndWait
<1>1. Init => RR!Init
  BY RefineInit
<1>2. IInv /\ IInv' /\ [Next]_vars => [RR!Next]_RR!vars
  <2> SUFFICES ASSUME IInv, IInv', [Next]_vars PROVE [RR!Next]_RR!vars
    OBVIOUS
  <2>1. CASE Send
    BY <2>1, RefineSend
  <2>2. CASE \E j \in 1..Unread : ReadSegment(j)
    BY <2>2, RefineReadSegment
  <2>3. CASE \E j \in 0..Unread, m \in BOOLEAN : ReadGarbled(j, m)
    BY <2>3, RefineReadGarbled
  <2>4. CASE ReadNothing
    BY <2>4, RefineReadNothing
  <2>5. CASE \E f \in Formats : ServerSend(f)
    BY <2>5, RefineServerSend
  <2>6. CASE \E k \in Len(by)..Len(stream), how \in {"closed", "reset"} :
                ConnectionLost(k, how)
    BY <2>6, RefineConnectionLost
  <2>7. CASE UNCHANGED vars
    BY <2>7 DEF RR!vars, vars, client, server, heard, cut
  <2> QED
    BY <2>1, <2>2, <2>3, <2>4, <2>5, <2>6, <2>7 DEF Next
<1> QED
  BY <1>1, <1>2, Invariance, PTL DEF Spec, StopAndWait, RR!Spec
=============================================================================
