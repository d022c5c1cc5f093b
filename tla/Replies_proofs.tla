--------------------------- MODULE Replies_proofs ---------------------------
(***************************************************************************)
(* Proofs that the structure holds what a reply says: ReplyRecorded and    *)
(* AttributesRecorded of ReplyParams, for the specification of Session.    *)
(* The invariant says of each thing stored that it is what the last        *)
(* parameter read so far says; that there is a last one is carried along   *)
(* from one parameter to the next.                                         *)
(***************************************************************************)
EXTENDS Session_proofs

Places == 1..Len(object.params)

\* Parameters of the object with one of these code points, of the right length
Giving(cps) == {i \in Places : object.params[i].cp \in cps /\ object.params[i].sized}

\* Those that give the level of a manager
GivingLevel(m) == {i \in Places : /\ object.params[i].cp = "MGRLVLLS"
                                  /\ m \in DOMAIN object.params[i].val}

\* Of the places I up to p the last one, if there is one, is in G
LastHeld(I, G, p) ==
    I \cap (1..p) # {} => \E i \in I \cap (1..p) : /\ i \in G
                                                   /\ \A j \in I \cap (1..p) : j <= i

\* Places of parameters whose value the structure holds
CodeHeld      == {i \in Places : err.code = object.params[i].val}
PointHeld     == {i \in Places : err.point = object.params[i].val}
DiagHeld      == {i \in Places : err.diag = object.params[i].val}
SeverityHeld  == {i \in Places : err.severity = object.params[i].val}
OrderHeld     == {i \in Places : typdefnam = object.params[i].val}
NameHeld(cp)  == {i \in Places : /\ name[NameOf[cp]] # Unset
                                 /\ name[NameOf[cp]].stem = object.params[i].val.stem}
LevelHeld(m)  == {i \in Places : level[m] = object.params[i].val[m]}

ReplyHeld ==
    object.obj \in ReplyMessages =>
        /\ LastHeld(Giving({"SECCHKCD", "SYNERRCD"}), CodeHeld, pos)
        /\ LastHeld(Giving({"CODPNT"}), PointHeld, pos)
        /\ LastHeld(Giving({"SRVDGN"}), DiagHeld, pos)
        /\ LastHeld(Giving({"TYPDEFNAM"}), OrderHeld, pos)
        /\ ServerCodeLeads => LastHeld(Giving({"SVRCOD"}), SeverityHeld, pos)

AttributesHeld ==
    object.obj = "EXCSATRD" =>
        /\ \A cp \in DOMAIN NameOf : LastHeld(Giving({cp}), NameHeld(cp), pos)
        /\ \A m \in Managers : LastHeld(GivingLevel(m), LevelHeld(m), pos)

Held == ReplyHeld /\ AttributesHeld

-----------------------------------------------------------------------------
LEMMA NothingHeld == \A I, G : LastHeld(I, G, 0)
<1>1. 1..0 = {}
  OBVIOUS
<1> QED
  BY <1>1 DEF LastHeld

(* One parameter more: either it is the last now, and held, or the last is *)
(* the one it was, and still held.                                         *)
LEMMA LastMoves ==
    ASSUME NEW p \in Nat, NEW I, NEW G, NEW H, LastHeld(I, G, p),
           p + 1 \in I => p + 1 \in H,
           p + 1 \notin I => G \subseteq H
    PROVE  LastHeld(I, H, p + 1)
<1>1. CASE p + 1 \in I
  <2>1. p + 1 \in I \cap (1..(p + 1)) /\ \A j \in I \cap (1..(p + 1)) : j <= p + 1
    BY <1>1
  <2> QED
    BY <1>1, <2>1 DEF LastHeld
<1>2. CASE p + 1 \notin I
  <2>1. I \cap (1..(p + 1)) = I \cap (1..p)
    <3>1. \A j \in I : j \in 1..(p + 1) <=> j \in 1..p
      <4>1. \A j : j \in 1..(p + 1) <=> j \in 1..p \/ j = p + 1
        OBVIOUS
      <4> QED
        BY <4>1, <1>2
    <3> QED
      BY <3>1
  <2> QED
    BY <1>2, <2>1 DEF LastHeld
<1> QED
  BY <1>1, <1>2

(* When all of an object has been read, the last one is that of LastOf.    *)
LEMMA LastIsLastOf ==
    ASSUME NEW cps, NEW G, Len(object.params) \in Nat, WholeRead,
           LastHeld(Giving(cps), G, pos), Says(cps)
    PROVE  LastOf(cps) \in G /\ LastOf(cps) \in Giving(cps)
<1> DEFINE I == Giving(cps)
<1>1. I \cap (1..pos) = I
  BY DEF WholeRead, Giving, Places
<1>2. I # {} /\ LastOf(cps) = CHOOSE i \in I : \A j \in I : j <= i
  BY DEF Says, LastOf, Giving, Places
<1>3. PICK i \in I : i \in G /\ \A j \in I : j <= i
  BY <1>1, <1>2 DEF LastHeld
<1>4. LastOf(cps) \in I /\ \A j \in I : j <= LastOf(cps)
  <2> HIDE DEF I
  <2> QED
    BY <1>2, <1>3
<1>5. \A j \in I : j \in Nat
  BY DEF Giving, Places
<1>6. LastOf(cps) = i
  BY <1>3, <1>4, <1>5
<1> QED
  BY <1>3, <1>6

(* The reader of a text, byte order or code point accepts any length.      *)
LEMMA TextsSized ==
    ASSUME NEW q \in Parameters, q.cp \in DOMAIN NameOf \cup {"CODPNT", "SRVDGN", "TYPDEFNAM"}
    PROVE  q.sized
<1>1. DOMAIN NameOf = {"EXTNAM", "SRVCLSNM", "SRVNAM", "SRVRLSLV"}
  BY DEF NameOf
<1> QED
  BY <1>1 DEF Parameters, Numbers, Logged

(* The parameter being read.                                               *)
LEMMA Reading ==
    ASSUME ReplyTypeOK, ReadParameter
    PROVE  /\ object' = object /\ pos' = pos + 1 /\ pos \in Nat
           /\ Len(object.params) \in Nat /\ pos + 1 \in Places
           /\ param \in Parameters /\ param = object.params[pos + 1]
           /\ Places' = Places
<1>1. IsObject(object) /\ object' = object /\ pos' = pos + 1
  <2>1. Len(NoObject.params) = 0 /\ 0..0 = {0}
    BY EmptySeq DEF NoObject
  <2> QED
    BY <2>1 DEF ReplyTypeOK, ReadParameter
<1>2. object.params \in Seq(Parameters) /\ Len(object.params) \in Nat /\ pos \in Nat
      /\ pos + 1 \in 1..Len(object.params)
  BY <1>1, LenProperties DEF IsObject, ReplyTypeOK, ReadParameter
<1>3. param \in Parameters
  BY <1>2, ElementOfSeq DEF param
<1> QED
  BY <1>1, <1>2, <1>3 DEF Places, param

-----------------------------------------------------------------------------
(* A reply message.                                                        *)

LEMMA ReplyMessageKeeps ==
    ASSUME ReplyTypeOK, ReplyHeld, ReadParameter, object.obj \in ReplyMessages
    PROVE  ReplyHeld'
<1>1. /\ object' = object /\ pos' = pos + 1 /\ pos \in Nat
      /\ pos + 1 \in Places /\ Places' = Places
      /\ param \in Parameters /\ param = object.params[pos + 1]
  BY Reading
<1>2. ReplyMessageParameter
  BY DEF ReadParameter, ReplyMessages, Unknown
<1>3. /\ \A cps : Giving(cps)' = Giving(cps)
      /\ ServerCodeLeads' = ServerCodeLeads
  BY <1>1 DEF Giving, ServerCodeLeads
<1>4. \A cps : pos + 1 \in Giving(cps) <=> param.cp \in cps /\ param.sized
  BY <1>1 DEF Giving
<1>5. err \in [set : BOOLEAN, severity : Levels \cup {0}, code : Levels \cup {0},
               point : Levels \cup {0}, diag : Text \cup {Unset}]
  BY DEF ReplyTypeOK
<1>6. LastHeld(Giving({"SECCHKCD", "SYNERRCD"}), CodeHeld', pos + 1)
  <2>1. /\ param.cp \in {"SECCHKCD", "SYNERRCD"} /\ param.sized => err'.code = param.val
        /\ ~(param.cp \in {"SECCHKCD", "SYNERRCD"} /\ param.sized) => err'.code = err.code
    BY <1>2, <1>5 DEF ReplyMessageParameter, Severity, Code, Point, Diagnostic
  <2>2. pos + 1 \in Giving({"SECCHKCD", "SYNERRCD"}) => pos + 1 \in CodeHeld'
    BY <1>1, <1>4, <2>1 DEF CodeHeld
  <2>3. pos + 1 \notin Giving({"SECCHKCD", "SYNERRCD"}) => CodeHeld \subseteq CodeHeld'
    BY <1>1, <1>4, <2>1 DEF CodeHeld
  <2>4. LastHeld(Giving({"SECCHKCD", "SYNERRCD"}), CodeHeld, pos)
    BY DEF ReplyHeld
  <2> QED
    BY <1>1, <2>2, <2>3, <2>4, LastMoves
<1>7. LastHeld(Giving({"SRVDGN"}), DiagHeld', pos + 1)
  <2>1. /\ param.cp = "SRVDGN" => err'.diag = param.val
        /\ param.cp # "SRVDGN" => err'.diag = err.diag
    BY <1>2, <1>5 DEF ReplyMessageParameter, Severity, Code, Point, Diagnostic
  <2>2. pos + 1 \in Giving({"SRVDGN"}) <=> param.cp = "SRVDGN"
    BY <1>1, <1>4, TextsSized
  <2>3. pos + 1 \in Giving({"SRVDGN"}) => pos + 1 \in DiagHeld'
    BY <1>1, <2>1, <2>2 DEF DiagHeld
  <2>4. pos + 1 \notin Giving({"SRVDGN"}) => DiagHeld \subseteq DiagHeld'
    BY <1>1, <2>1, <2>2 DEF DiagHeld
  <2>5. LastHeld(Giving({"SRVDGN"}), DiagHeld, pos)
    BY DEF ReplyHeld
  <2> QED
    BY <1>1, <2>3, <2>4, <2>5, LastMoves
<1>8. LastHeld(Giving({"TYPDEFNAM"}), OrderHeld', pos + 1)
  <2>1. typdefnam' = IF param.cp = "TYPDEFNAM" THEN param.val ELSE typdefnam
    BY <1>2 DEF ReplyMessageParameter, Stored
  <2>2. pos + 1 \in Giving({"TYPDEFNAM"}) <=> param.cp = "TYPDEFNAM"
    BY <1>1, <1>4, TextsSized
  <2>3. pos + 1 \in Giving({"TYPDEFNAM"}) => pos + 1 \in OrderHeld'
    BY <1>1, <2>1, <2>2 DEF OrderHeld
  <2>4. pos + 1 \notin Giving({"TYPDEFNAM"}) => OrderHeld \subseteq OrderHeld'
    BY <1>1, <2>1, <2>2 DEF OrderHeld
  <2>5. LastHeld(Giving({"TYPDEFNAM"}), OrderHeld, pos)
    BY DEF ReplyHeld
  <2> QED
    BY <1>1, <2>3, <2>4, <2>5, LastMoves
<1>9. LastHeld(Giving({"CODPNT"}), PointHeld', pos + 1)
  <2>1. /\ param.cp = "CODPNT" => err'.point = param.val
        /\ param.cp # "CODPNT" => err'.point = err.point
    BY <1>2, <1>5 DEF ReplyMessageParameter, Severity, Code, Point, Diagnostic
  <2>2. pos + 1 \in Giving({"CODPNT"}) <=> param.cp = "CODPNT"
    BY <1>1, <1>4, TextsSized
  <2>3. pos + 1 \in Giving({"CODPNT"}) => pos + 1 \in PointHeld'
    BY <1>1, <2>1, <2>2 DEF PointHeld
  <2>4. pos + 1 \notin Giving({"CODPNT"}) => PointHeld \subseteq PointHeld'
    BY <1>1, <2>1, <2>2 DEF PointHeld
  <2>5. LastHeld(Giving({"CODPNT"}), PointHeld, pos)
    BY DEF ReplyHeld
  <2> QED
    BY <1>1, <2>3, <2>4, <2>5, LastMoves
<1>10. ASSUME ServerCodeLeads PROVE LastHeld(Giving({"SVRCOD"}), SeverityHeld', pos + 1)
  <2>1. param.cp = "SVRCOD" => FirstPlace = param
    BY <1>1, <1>10 DEF ServerCodeLeads, Places, FirstPlace
  <2>2. /\ param.cp = "SVRCOD" /\ param.sized => err'.severity = param.val
        /\ ~(param.cp = "SVRCOD" /\ param.sized) => err'.severity = err.severity
    BY <1>2, <1>5, <2>1 DEF ReplyMessageParameter, Severity, Code, Point, Diagnostic
  <2>3. pos + 1 \in Giving({"SVRCOD"}) => pos + 1 \in SeverityHeld'
    BY <1>1, <1>4, <2>2 DEF SeverityHeld
  <2>4. pos + 1 \notin Giving({"SVRCOD"}) => SeverityHeld \subseteq SeverityHeld'
    BY <1>1, <1>4, <2>2 DEF SeverityHeld
  <2>5. LastHeld(Giving({"SVRCOD"}), SeverityHeld, pos)
    BY <1>10 DEF ReplyHeld
  <2> QED
    BY <1>1, <2>3, <2>4, <2>5, LastMoves
<1> QED
  BY <1>1, <1>3, <1>6, <1>7, <1>8, <1>9, <1>10 DEF ReplyHeld, LastHeld

-----------------------------------------------------------------------------
(* EXCSATRD.                                                               *)

LEMMA AttributesKeep ==
    ASSUME ReplyTypeOK, AttributesHeld, ReadParameter, object.obj = "EXCSATRD"
    PROVE  AttributesHeld'
<1>1. /\ object' = object /\ pos' = pos + 1 /\ pos \in Nat
      /\ pos + 1 \in Places /\ Places' = Places
      /\ param \in Parameters /\ param = object.params[pos + 1]
  BY Reading
<1>2. AttributesParameter
  BY DEF ReadParameter, ReplyMessages, Unknown
<1>3. /\ \A cps : Giving(cps)' = Giving(cps)
      /\ \A m : GivingLevel(m)' = GivingLevel(m)
  BY <1>1 DEF Giving, GivingLevel
<1>4. DOMAIN NameOf = {"EXTNAM", "SRVCLSNM", "SRVNAM", "SRVRLSLV"}
  BY DEF NameOf
<1>5. ASSUME NEW cp \in DOMAIN NameOf
      PROVE  LastHeld(Giving({cp}), NameHeld(cp)', pos + 1)
  <2>1. NameOf[cp] \in Names /\ name \in [Names -> Text \cup {Unset}]
    BY <1>4, <1>5 DEF NameOf, Names, ReplyTypeOK
  <2>2. ASSUME param.cp = cp
        PROVE  name'[NameOf[cp]] # Unset /\ name'[NameOf[cp]].stem = param.val.stem
    <3>1. param.val \in Text
      BY <1>1, <1>5, <2>2, ParameterValues
    <3>2. Cut(param) \in Text /\ Cut(param).stem = param.val.stem
      BY <3>1 DEF Cut, Text
    <3>3. name'[NameOf[cp]] = Cut(param)
      BY <1>2, <1>5, <2>1, <2>2 DEF AttributesParameter, Stored
    <3> QED
      BY <3>2, <3>3, ParamsAssumption
  <2>3. ASSUME param.cp # cp PROVE name'[NameOf[cp]] = name[NameOf[cp]]
    <3>1. param.cp \in DOMAIN NameOf => NameOf[param.cp] # NameOf[cp]
      BY <1>4, <1>5, <2>3 DEF NameOf
    <3> QED
      BY <1>2, <2>1, <3>1 DEF AttributesParameter
  <2>4. pos + 1 \in Giving({cp}) <=> param.cp = cp
    BY <1>1, <1>5, TextsSized DEF Giving
  <2>5. pos + 1 \in Giving({cp}) => pos + 1 \in NameHeld(cp)'
    BY <1>1, <2>2, <2>4 DEF NameHeld
  <2>6. pos + 1 \notin Giving({cp}) => NameHeld(cp) \subseteq NameHeld(cp)'
    BY <1>1, <2>3, <2>4 DEF NameHeld
  <2>7. LastHeld(Giving({cp}), NameHeld(cp), pos)
    BY <1>5 DEF AttributesHeld
  <2> QED
    BY <1>1, <2>5, <2>6, <2>7, LastMoves
<1>6. ASSUME NEW m \in Managers
      PROVE  LastHeld(GivingLevel(m), LevelHeld(m)', pos + 1)
  <2>1. level'[m] = IF param.cp = "MGRLVLLS" /\ m \in DOMAIN param.val
                    THEN param.val[m] ELSE level[m]
    BY <1>2, <1>6 DEF AttributesParameter, Listed
  <2>2. pos + 1 \in GivingLevel(m) <=> param.cp = "MGRLVLLS" /\ m \in DOMAIN param.val
    BY <1>1 DEF GivingLevel
  <2>3. pos + 1 \in GivingLevel(m) => pos + 1 \in LevelHeld(m)'
    BY <1>1, <2>1, <2>2 DEF LevelHeld
  <2>4. pos + 1 \notin GivingLevel(m) => LevelHeld(m) \subseteq LevelHeld(m)'
    BY <1>1, <2>1, <2>2 DEF LevelHeld
  <2>5. LastHeld(GivingLevel(m), LevelHeld(m), pos)
    BY <1>6 DEF AttributesHeld
  <2> QED
    BY <1>1, <2>3, <2>4, <2>5, LastMoves
<1> QED
  BY <1>1, <1>3, <1>5, <1>6 DEF AttributesHeld, LastHeld

-----------------------------------------------------------------------------
(* The invariant.                                                          *)

LEMMA HeldStarts ==
    ASSUME object = NoObject PROVE Held
BY DEF Held, ReplyHeld, AttributesHeld, NoObject, ReplyMessages

LEMMA HeldStep == IInv /\ Held /\ [Next]_vars => Held'
<1> SUFFICES ASSUME IInv, Held, [Next]_vars PROVE Held'
  OBVIOUS
<1>1. ReplyTypeOK
  BY DEF IInv, TypeOK
<1>2. CASE ReadNextParameter
  <2>1. ReadParameter /\ object' = object
    BY <1>2 DEF ReadNextParameter, ReadParameter
  <2>2. object.obj \in ReplyMessages => ReplyHeld'
    BY <1>1, <2>1, ReplyMessageKeeps DEF Held
  <2>3. object.obj = "EXCSATRD" => AttributesHeld'
    BY <1>1, <2>1, AttributesKeep DEF Held
  <2> QED
    BY <2>1, <2>2, <2>3 DEF Held, ReplyHeld, AttributesHeld
<1>3. ASSUME NEW o, ReadObject(o) PROVE Held'
  <2>1. pos' = 0
    BY <1>3 DEF ReadObject
  <2> QED
    BY <2>1, NothingHeld DEF Held, ReplyHeld, AttributesHeld
<1>4. CASE Release
  <2>1. object' = NoObject
    BY <1>4 DEF Release
  <2> QED
    BY <2>1 DEF Held, ReplyHeld, AttributesHeld, NoObject, ReplyMessages
<1>5. CASE UNCHANGED replyState
  BY <1>5 DEF replyState, Held, ReplyHeld, AttributesHeld, LastHeld, Giving, GivingLevel, Places,
     CodeHeld, PointHeld, DiagHeld, SeverityHeld, OrderHeld, NameHeld, LevelHeld, ServerCodeLeads
<1> QED
  BY <1>2, <1>3, <1>4, <1>5 DEF Next, Connect, Issue, Build, Send, ReadNextObject, Return, vars

LEMMA AlwaysHeld == Spec => []Held
<1>1. Init => Held
  BY HeldStarts DEF Init, ReplyInit
<1> QED
  BY <1>1, HeldStep, SessionCorrect, PTL DEF Spec

LEMMA ObjectLength == ASSUME TypeOK PROVE Len(object.params) \in Nat
BY LenProperties, EmptySeq DEF TypeOK, ReplyTypeOK, IsObject, NoObject

(* A reply message that has been read is in the handle, in whatever order  *)
(* its parameters came: code, code point, diagnostic, byte order, and the  *)
(* severity if the server code came first.                                 *)
THEOREM RepliesRecorded == Spec => []ReplyRecorded
<1>1. TypeOK /\ Held => ReplyRecorded
  <2> SUFFICES ASSUME TypeOK, Held, object.obj \in ReplyMessages, WholeRead
               PROVE  ReplyRecorded
    BY DEF ReplyRecorded
  <2>1. Len(object.params) \in Nat
    BY ObjectLength
  <2>2. Says({"SECCHKCD", "SYNERRCD"}) => LastOf({"SECCHKCD", "SYNERRCD"}) \in CodeHeld
    BY <2>1, LastIsLastOf DEF Held, ReplyHeld
  <2>3. Says({"SRVDGN"}) => LastOf({"SRVDGN"}) \in DiagHeld
    BY <2>1, LastIsLastOf DEF Held, ReplyHeld
  <2>4. Says({"TYPDEFNAM"}) => LastOf({"TYPDEFNAM"}) \in OrderHeld
    BY <2>1, LastIsLastOf DEF Held, ReplyHeld
  <2>5. Says({"SVRCOD"}) /\ ServerCodeLeads => LastOf({"SVRCOD"}) \in SeverityHeld
    BY <2>1, LastIsLastOf DEF Held, ReplyHeld
  <2>6. Says({"CODPNT"}) => LastOf({"CODPNT"}) \in PointHeld
    BY <2>1, LastIsLastOf DEF Held, ReplyHeld
  <2> QED
    BY <2>2, <2>3, <2>4, <2>5, <2>6
       DEF ReplyRecorded, Said, CodeHeld, PointHeld, DiagHeld, OrderHeld, SeverityHeld
<1> QED
  BY <1>1, AlwaysHeld, TypesCorrect, PTL

(* The names and manager levels of the server are those of the last        *)
(* parameter that gives them, for any number of them in any order.         *)
THEOREM AttributesHold == Spec => []AttributesRecorded
<1>1. TypeOK /\ Held => AttributesRecorded
  <2> SUFFICES ASSUME TypeOK, Held, object.obj = "EXCSATRD", WholeRead
               PROVE  AttributesRecorded
    BY DEF AttributesRecorded
  <2>1. Len(object.params) \in Nat
    BY ObjectLength
  <2>2. ASSUME NEW cp \in DOMAIN NameOf, Says({cp})
        PROVE  name[NameOf[cp]] # Unset /\ name[NameOf[cp]].stem = Said({cp}).stem
    <3>1. LastHeld(Giving({cp}), NameHeld(cp), pos)
      BY <2>2 DEF Held, AttributesHeld
    <3>2. LastOf({cp}) \in NameHeld(cp)
      BY <2>1, <2>2, <3>1, LastIsLastOf
    <3> QED
      BY <3>2 DEF NameHeld, Said
  <2>3. ASSUME NEW m \in Managers, GivingLevel(m) # {}
        PROVE  \E i \in GivingLevel(m) : /\ \A j \in GivingLevel(m) : j <= i
                                         /\ level[m] = object.params[i].val[m]
    <3>1. LastHeld(GivingLevel(m), LevelHeld(m), pos)
      BY <2>3 DEF Held, AttributesHeld
    <3>2. GivingLevel(m) \cap (1..pos) = GivingLevel(m)
      BY DEF WholeRead, GivingLevel, Places
    <3> QED
      BY <2>3, <3>1, <3>2 DEF LastHeld, LevelHeld
  <2> QED
    BY <2>2, <2>3 DEF AttributesRecorded, GivingLevel, Places
<1> QED
  BY <1>1, AlwaysHeld, TypesCorrect, PTL
=============================================================================
