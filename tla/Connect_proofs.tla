--------------------------- MODULE Connect_proofs ---------------------------
(***************************************************************************)
(* Proofs about Connect, for any number of handles, data sources and       *)
(* attempts: its types, the handshake, the diagnostics, and the session a  *)
(* handle gets that has only asked for one data source.                    *)
(***************************************************************************)
EXTENDS Connect, TLAPS

ParamsType == [url : DOMAIN Ini \cup {None},
               uid : Creds \cup {None}, pwd : Creds \cup {None}]
DrdaType == [user : Creds \cup {None, LocalUser},
             passwd : Passwords,
             target : Targets \cup {None}]

\* TypeOK in two: the count of attempts, and all the rest
TriesOK == tries \in 0..MaxTries
Types ==
    /\ params \in [Dbcs -> ParamsType]
    /\ drda \in DrdaType
    /\ session \in Session \cup {NoSession}
    /\ step \in Steps \cup {"idle"}
    /\ step # "idle" => session # NoSession /\ session.dbc = call.dbc
    /\ lastError \in Messages \cup {""}
    /\ call \in [op : {"none", "connect", "driverconnect"}, dbc : Dbcs \cup {None},
                 name : Names \cup {None},
                 ret : {"none", "pending", "SUCCESS", "ERROR", "crash"}]
    /\ connected \subseteq Dbcs
    /\ looked \in [Dbcs -> Names \cup {None, Several, Given}]

LEMMA TypeParts == TypeOK <=> Types /\ TriesOK
BY DEF TypeOK, Types, TriesOK, ParamsType, DrdaType

LEMMA OneSession == NoSession \notin Session
BY ValuesAssumption DEF NoSession, Session

LEMMA OneMoreTry == ASSUME TriesOK, tries < MaxTries, tries' = tries + 1 PROVE TriesOK'
BY BoundAssumption DEF TriesOK

LEMMA NoMoreTry == ASSUME TriesOK, tries' = tries PROVE TriesOK'
BY DEF TriesOK

-----------------------------------------------------------------------------
(* The inductive invariant.                                                *)

\* A command is pending exactly while do_connect() runs, and the server has
\* accepted those before it unless it refused one or left
Handshaking ==
    /\ step # "idle" <=> call.ret = "pending"
    /\ \A i \in 1..4 : step = Handshake[i] =>
          session.accepted = i - 1 \/ session.server # "willing"

HInv == Types /\ TriesOK /\ Handshaking /\ HandshakeComplete /\ DiagnosticsFresh

-----------------------------------------------------------------------------
LEMMA StepNames ==
    /\ Handshake[1] = "excsat" /\ Handshake[2] = "accsec"
    /\ Handshake[3] = "secchk" /\ Handshake[4] = "accrdb"
    /\ Steps = {"excsat", "accsec", "secchk", "accrdb"}
    /\ \A i, j \in 1..4 : Handshake[i] = Handshake[j] => i = j
    /\ \A i \in 1..4 : NextStep(i) \in Steps \cup {"idle"} /\ Handshake[i] \in Steps
    /\ \A i \in 1..4 : NextStep(i) = IF i = 4 THEN "idle" ELSE Handshake[i + 1]
    /\ "idle" \notin Steps /\ "" \notin Steps
    /\ Messages \cap Steps = Steps
<1>1. /\ Handshake[1] = "excsat" /\ Handshake[2] = "accsec"
      /\ Handshake[3] = "secchk" /\ Handshake[4] = "accrdb"
  BY DEF Handshake
<1>2. Steps = {"excsat", "accsec", "secchk", "accrdb"}
  BY <1>1 DEF Steps
<1>3. \A i \in 1..4 : i = 1 \/ i = 2 \/ i = 3 \/ i = 4
  OBVIOUS
<1> QED
  BY <1>1, <1>2, <1>3 DEF NextStep, Messages

LEMMA HandshakeStarts == Init => HInv
<1> SUFFICES ASSUME Init PROVE HInv
  OBVIOUS
<1>1. step = "idle" /\ call.ret = "none" /\ lastError = "" /\ call.op = "none"
      /\ call = [op |-> "none", dbc |-> None, name |-> None, ret |-> "none"]
      /\ session = NoSession
  BY DEF Init
<1>2. Types
  <2>1. NoParams \in ParamsType /\ None \in Creds \cup {None, LocalUser} /\ None \in Passwords
    BY DEF NoParams, ParamsType, Passwords
  <2>2. params \in [Dbcs -> ParamsType] /\ drda \in DrdaType
    BY <2>1 DEF Init, DrdaType
  <2>3. looked \in [Dbcs -> Names \cup {None, Several, Given}]
    BY DEF Init
  <2>4. connected \subseteq Dbcs
    BY DEF Init
  <2> QED
    BY <1>1, <2>2, <2>3, <2>4 DEF Types
<1>5. TriesOK
  <2>1. tries = 0
    BY DEF Init
  <2> QED
    BY <2>1, BoundAssumption DEF TriesOK
<1>3. Handshaking /\ HandshakeComplete
  BY <1>1, StepNames DEF Handshaking, HandshakeComplete
<1>4. DiagnosticsFresh
  BY <1>1, StepNames DEF DiagnosticsFresh
<1> QED
  BY <1>2, <1>3, <1>4, <1>5 DEF HInv

-----------------------------------------------------------------------------
(* The beginning of an attempt.                                            *)

LEMMA SettingsTyped ==
    ASSUME drda \in DrdaType, NEW u \in Url,
           NEW uid \in Creds \cup {None}, NEW pwd \in Creds \cup {None}
    PROVE  Settings(u, uid, pwd) \in DrdaType
<1>1. u.cred \in Creds \cup {None} /\ u.target \in Targets \cup {None}
  BY DEF Url
<1>2. SetByUrl(drda, u) \in DrdaType
  BY <1>1 DEF SetByUrl, DrdaType, Passwords
<1> QED
  BY <1>2 DEF Settings, Over, DrdaType, Passwords

LEMMA LookupTyped ==
    ASSUME params \in [Dbcs -> ParamsType], NEW c \in Dbcs, NEW d \in DOMAIN Ini
    PROVE  LookupDSN(c, d) \in ParamsType
<1>1. Ini[d] \in Section /\ params[c] \in ParamsType
  BY IniAssumption
<1>2. /\ Ini[d].uid \in Creds \cup {None} /\ Ini[d].pwd \in Creds \cup {None}
      /\ params[c].url \in DOMAIN Ini \cup {None}
      /\ params[c].uid \in Creds \cup {None} /\ params[c].pwd \in Creds \cup {None}
  BY <1>1 DEF Section, ParamsType
<1> QED
  BY <1>2 DEF LookupDSN, Over, ParamsType

(* Whatever an attempt finds, it leaves the invariant: it fails at once, or *)
(* drda_connect() has opened a socket or not.                              *)
LEMMA AttemptKeeps ==
    ASSUME HInv, NEW c \in Dbcs, NEW d \in Names,
           NEW op \in {"connect", "driverconnect"},
           Idle, tries < MaxTries, tries' = tries + 1, UNCHANGED connected,
           params' \in [Dbcs -> ParamsType],
           looked' \in [Dbcs -> Names \cup {None, Several, Given}],
           \/ \E msg \in {"dsn", "url", "uid"} :
                 FailsAtOnce(op, c, d, msg) /\ (msg = "dsn" => d \notin DOMAIN Ini)
           \/ \E dr \in DrdaType : DoConnect(op, c, d, dr)
    PROVE  HInv'
<1>1. TriesOK' /\ connected' \subseteq Dbcs
  BY OneMoreTry DEF HInv, Types
<1>2. CASE \E msg \in {"dsn", "url", "uid"} :
              FailsAtOnce(op, c, d, msg) /\ (msg = "dsn" => d \notin DOMAIN Ini)
  <2>1. PICK msg \in {"dsn", "url", "uid"} :
           FailsAtOnce(op, c, d, msg) /\ (msg = "dsn" => d \notin DOMAIN Ini)
    BY <1>2
  <2>2. /\ lastError' = msg /\ call' = [op |-> op, dbc |-> c, name |-> d, ret |-> "ERROR"]
        /\ step = "idle" /\ UNCHANGED <<drda, session, step>>
    BY <2>1 DEF FailsAtOnce, Begin, Idle
  <2>3. Types'
    <3>1. lastError' \in Messages
      BY <2>2 DEF Messages
    <3> QED
      BY <1>1, <2>2, <3>1 DEF HInv, Types, ParamsType
  <2>4. Handshaking' /\ HandshakeComplete'
    BY <2>2, StepNames DEF Handshaking, HandshakeComplete
  <2>5. DiagnosticsFresh'
    BY <2>1, <2>2, StepNames DEF DiagnosticsFresh
  <2> QED
    BY <1>1, <2>3, <2>4, <2>5 DEF HInv
<1>3. CASE \E dr \in DrdaType : DoConnect(op, c, d, dr)
  <2>1. PICK dr \in DrdaType : DoConnect(op, c, d, dr)
    BY <1>3
  <2>2. drda' \in DrdaType /\ step = "idle"
    BY <2>1 DEF DoConnect, Idle
  <2>3. CASE \E msg \in {"", "connect"}, ret \in {"crash", "ERROR"} :
                /\ lastError' = msg
                /\ call' = [op |-> op, dbc |-> c, name |-> d, ret |-> ret]
                /\ UNCHANGED <<session, step>>
    <3>1. PICK msg \in {"", "connect"}, ret \in {"crash", "ERROR"} :
             /\ lastError' = msg
             /\ call' = [op |-> op, dbc |-> c, name |-> d, ret |-> ret]
             /\ UNCHANGED <<session, step>>
      BY <2>3
    <3>2. Types'
      <4>1. lastError' \in Messages \cup {""}
        BY <3>1 DEF Messages
      <4> QED
        BY <1>1, <2>2, <3>1, <4>1 DEF HInv, Types
    <3>3. Handshaking' /\ HandshakeComplete' /\ DiagnosticsFresh'
      BY <2>2, <3>1, StepNames DEF Handshaking, HandshakeComplete, DiagnosticsFresh
    <3> QED
      BY <1>1, <3>2, <3>3 DEF HInv
  <2>4. CASE /\ dr.target # None
             /\ session' = Opened(dr, c)
             /\ lastError' = ""
             /\ call' = [op |-> op, dbc |-> c, name |-> d, ret |-> "pending"]
             /\ step' = Handshake[1]
    <3>1. session' \in Session /\ session'.accepted = 0 /\ session'.dbc = c
      <4>1. dr.target \in Targets
        BY <2>1, <2>4 DEF DrdaType
      <4>2. session' = [dbc |-> c, target |-> dr.target, user |-> None, passwd |-> None,
                        accepted |-> 0, server |-> "willing"]
        BY <2>4 DEF Opened
      <4> QED
        BY <4>1, <4>2 DEF Session, Passwords
    <3>2. Types'
      BY <1>1, <2>2, <2>4, <3>1, StepNames, ZenonT(60) DEF HInv, Types, ParamsType, DrdaType, NoSession, Session
    <3>3. /\ step' # "idle" /\ call'.ret = "pending"
          /\ \A i \in 1..4 : step' = Handshake[i] => i = 1
      <4>1. 1 \in 1..4
        OBVIOUS
      <4>2. step' = Handshake[1]
        BY <2>4
      <4>3. call'.ret = "pending"
        BY <2>4
      <4>4. \A i \in 1..4 : Handshake[1] = Handshake[i] => 1 = i
        BY <4>1, StepNames
      <4>5. Handshake[1] # "idle"
        BY StepNames
      <4> QED
        BY <4>2, <4>3, <4>4, <4>5
    <3>4. \A i \in 1..4 : step' = Handshake[i] => session'.accepted = i - 1
      BY <3>1, <3>3
    <3>5. Handshaking' /\ HandshakeComplete'
      BY <3>3, <3>4 DEF Handshaking, HandshakeComplete
    <3>6. DiagnosticsFresh'
      BY <2>4, <3>3, StepNames DEF DiagnosticsFresh
    <3> QED
      BY <1>1, <3>2, <3>5, <3>6 DEF HInv
  <2> QED
    BY <2>1, <2>3, <2>4 DEF DoConnect, Begin, ErrorCleared
<1> QED
  BY <1>2, <1>3

LEMMA SQLConnectKeeps ==
    ASSUME HInv, NEW c \in Dbcs, NEW d \in Names, SQLConnect(c, d)
    PROVE  HInv'
<1>1. /\ Idle /\ tries < MaxTries /\ tries' = tries + 1 /\ UNCHANGED connected
      /\ params \in [Dbcs -> ParamsType] /\ drda \in DrdaType
      /\ looked \in [Dbcs -> Names \cup {None, Several, Given}]
  BY DEF SQLConnect, MayConnect, HInv, Types
<1>2. CASE d \notin DOMAIN Ini
  BY <1>1, <1>2, AttemptKeeps DEF SQLConnect
<1>3. CASE d \in DOMAIN Ini
  <2> DEFINE p == LookupDSN(c, d)
  <2>1. p \in ParamsType
    BY <1>1, <1>3, LookupTyped
  <2>2. params' \in [Dbcs -> ParamsType]
    BY <1>1, <1>3, <2>1 DEF SQLConnect
  <2>3. looked' \in [Dbcs -> Names \cup {None, Several, Given}]
    BY <1>1, <1>3 DEF SQLConnect, Looks
  <2>4. CASE p.url = None
    <3>1. FailsAtOnce("connect", c, d, "url")
      BY <1>3, <2>4 DEF SQLConnect
    <3> QED
      BY <1>1, <2>2, <2>3, <3>1, AttemptKeeps
  <2>5. CASE p.url # None
    <3>1. DoConnect("connect", c, d, Settings(Ini[p.url].url, p.uid, p.pwd))
      BY <1>3, <2>5 DEF SQLConnect
    <3>2. /\ p.url \in DOMAIN Ini
          /\ p.uid \in Creds \cup {None} /\ p.pwd \in Creds \cup {None}
      BY <2>1, <2>5 DEF ParamsType
    <3>3. Ini[p.url].url \in Url
      BY <3>2, IniAssumption DEF Section
    <3>4. Settings(Ini[p.url].url, p.uid, p.pwd) \in DrdaType
      BY <1>1, <3>2, <3>3, SettingsTyped
    <3> QED
      BY <1>1, <2>2, <2>3, <3>1, <3>4, AttemptKeeps
  <2> QED
    BY <2>4, <2>5
<1> QED
  BY <1>2, <1>3

LEMMA SQLDriverConnectKeeps ==
    ASSUME HInv, NEW c \in Dbcs, NEW d \in Names, NEW cred \in Creds \cup {None},
           SQLDriverConnect(c, d, cred)
    PROVE  HInv'
<1>1. /\ Idle /\ tries < MaxTries /\ tries' = tries + 1 /\ UNCHANGED connected
      /\ params \in [Dbcs -> ParamsType] /\ drda \in DrdaType
      /\ looked \in [Dbcs -> Names \cup {None, Several, Given}]
  BY DEF SQLDriverConnect, MayConnect, HInv, Types
<1>2. CASE d \notin DOMAIN Ini
  BY <1>1, <1>2, AttemptKeeps DEF SQLDriverConnect
<1>3. CASE d \in DOMAIN Ini
  <2> DEFINE l == LookupDSN(c, d)
             p == [l EXCEPT !.uid = Over(@, cred), !.pwd = Over(@, cred)]
  <2>1. l \in ParamsType
    BY <1>1, <1>3, LookupTyped
  <2>2. p \in ParamsType
    BY <2>1 DEF Over, ParamsType
  <2>3. params' \in [Dbcs -> ParamsType]
    BY <1>1, <1>3, <2>2 DEF SQLDriverConnect
  <2>4. looked' \in [Dbcs -> Names \cup {None, Several, Given}]
    BY <1>1, <1>3 DEF SQLDriverConnect, Looks
  <2>5. CASE p.url = None \/ p.uid = None \/ p.pwd = None
    <3>1. \E msg \in {"url", "uid"} : FailsAtOnce("driverconnect", c, d, msg)
      BY <1>3, <2>5 DEF SQLDriverConnect
    <3> QED
      BY <1>1, <2>3, <2>4, <3>1, AttemptKeeps
  <2>6. CASE ~(p.url = None \/ p.uid = None \/ p.pwd = None)
    <3>1. DoConnect("driverconnect", c, d, Settings(UidAsUrl, None, p.pwd))
      BY <1>3, <2>6 DEF SQLDriverConnect
    <3>2. p.pwd \in Creds \cup {None} /\ UidAsUrl \in Url
      BY <2>2 DEF ParamsType, UidAsUrl, Url
    <3>3. Settings(UidAsUrl, None, p.pwd) \in DrdaType
      BY <1>1, <3>2, SettingsTyped
    <3> QED
      BY <1>1, <2>3, <2>4, <3>1, <3>3, AttemptKeeps
  <2> QED
    BY <2>5, <2>6
<1> QED
  BY <1>2, <1>3

-----------------------------------------------------------------------------
(* The handshake.                                                          *)

LEMMA ExchangeKeeps ==
    ASSUME HInv, NEW i \in 1..4, NEW reply \in {"accepted", "refused", "gone", "failed"},
           Exchange(i, reply)
    PROVE  HInv'
<1>1. /\ step = Handshake[i] /\ step \in Steps /\ call.ret = "pending" /\ lastError = ""
      /\ session \in Session /\ session.dbc = call.dbc
      /\ drda \in DrdaType
      /\ UNCHANGED <<params, drda, looked>> /\ TriesOK'
  <2>1. step = Handshake[i] /\ step \in Steps /\ step # "idle"
    BY StepNames DEF Exchange
  <2>2. UNCHANGED <<params, drda, looked, tries>>
    BY DEF Exchange
  <2>3. call.ret = "pending" /\ lastError = ""
    BY <2>1 DEF HInv, Handshaking, DiagnosticsFresh
  <2>4. session \in Session /\ session.dbc = call.dbc /\ drda \in DrdaType
    BY <2>1 DEF HInv, Types
  <2>5. TriesOK'
    BY <2>2, NoMoreTry DEF HInv
  <2> QED
    BY <2>1, <2>2, <2>3, <2>4, <2>5
<1>2. session' = [session EXCEPT
            !.accepted = IF reply = "accepted" THEN i ELSE @,
            !.server = CASE reply = "accepted" -> @
                         [] reply = "refused"  -> "refused"
                         [] OTHER              -> "gone",
            !.user = IF step = "secchk" THEN drda.user ELSE @,
            !.passwd = IF step = "secchk" THEN drda.passwd ELSE @]
  BY DEF Exchange
<1>3. /\ session' \in Session /\ session'.dbc = call.dbc
      /\ reply = "accepted" => session'.accepted = i
      /\ reply # "accepted" => session'.server # "willing"
      /\ reply = "failed" => session'.server = "gone"
  <2> DEFINE n == IF reply = "accepted" THEN i ELSE session.accepted
             sv == CASE reply = "accepted" -> session.server
                     [] reply = "refused"  -> "refused"
                     [] OTHER              -> "gone"
             us == IF step = "secchk" THEN drda.user ELSE session.user
             pw == IF step = "secchk" THEN drda.passwd ELSE session.passwd
  <2>1. session' = [session EXCEPT !.accepted = n, !.server = sv, !.user = us, !.passwd = pw]
    BY <1>2
  <2>2. /\ session.accepted \in 0..4 /\ session.server \in {"willing", "refused", "gone"}
        /\ session.user \in Creds \cup {None, LocalUser}
        /\ session.passwd \in Passwords
        /\ drda.user \in Creds \cup {None, LocalUser}
        /\ drda.passwd \in Passwords
    BY <1>1 DEF Session, DrdaType
  <2>3. i \in 0..4
    OBVIOUS
  <2>4. n \in 0..4 /\ sv \in {"willing", "refused", "gone"}
    BY <2>2, <2>3
  <2>5. us \in Creds \cup {None, LocalUser} /\ pw \in Passwords
    BY <2>2
  <2>6. /\ reply = "accepted" => n = i
        /\ reply # "accepted" => sv # "willing"
        /\ reply = "failed" => sv = "gone"
    OBVIOUS
  <2> HIDE DEF n, sv, us, pw
  <2>7. session'.accepted = n /\ session'.server = sv /\ session'.dbc = session.dbc
    BY <1>1, <2>1 DEF Session
  <2>8. session' \in Session
    BY <1>1, <2>1, <2>4, <2>5 DEF Session
  <2> QED
    BY <1>1, <2>6, <2>7, <2>8
<1>4. CASE reply = "failed"
  <2>1. /\ lastError' = step /\ call' = [call EXCEPT !.ret = "ERROR"]
        /\ step' = "idle" /\ UNCHANGED connected
    BY <1>4 DEF Exchange, Fails
  <2>2. Types'
    BY <1>1, <1>3, <2>1, StepNames DEF HInv, Types, Messages
  <2>3. call'.ret = "ERROR" /\ call'.dbc = call.dbc
    BY <2>1 DEF HInv, Types
  <2>4. Handshaking' /\ HandshakeComplete'
    BY <2>1, <2>3, StepNames DEF Handshaking, HandshakeComplete
  <2>5. DiagnosticsFresh'
    BY <1>1, <1>3, <1>4, <2>1, <2>3, StepNames DEF DiagnosticsFresh
  <2> QED
    BY <1>1, <2>2, <2>4, <2>5 DEF HInv
<1>5. CASE reply # "failed" /\ i # 4
  <2>1. /\ step' = Handshake[i + 1] /\ UNCHANGED <<call, connected, lastError>>
    BY <1>5, StepNames DEF Exchange
  <2>2. step' \in Steps /\ \A j \in 1..4 : step' = Handshake[j] => j = i + 1
    BY <1>5, <2>1, StepNames
  <2>3. Types'
    BY <1>1, <1>3, <2>1, <2>2, StepNames, OneSession DEF HInv, Types
  <2>4. \A j \in 1..4 : step' = Handshake[j] => \/ session'.accepted = j - 1
                                              \/ session'.server # "willing"
    BY <1>3, <2>2
  <2>5. Handshaking' /\ HandshakeComplete'
    BY <1>1, <2>1, <2>2, <2>4, StepNames DEF Handshaking, HandshakeComplete
  <2>6. DiagnosticsFresh'
    BY <1>1, <2>1, StepNames DEF DiagnosticsFresh
  <2> QED
    BY <1>1, <2>3, <2>5, <2>6 DEF HInv
<1>6. CASE reply # "failed" /\ i = 4
  <2>1. /\ step' = "idle" /\ lastError' = lastError
        /\ call' = [call EXCEPT !.ret = "SUCCESS"]
        /\ connected' = connected \cup {call.dbc}
    BY <1>6, StepNames DEF Exchange
  <2>2. call'.ret = "SUCCESS" /\ call.dbc \in Dbcs
    BY <1>1, <2>1 DEF HInv, Types, Session
  <2>3. Types'
    BY <1>1, <1>3, <2>1, <2>2 DEF HInv, Types
  <2>4. Handshaking' /\ HandshakeComplete' /\ DiagnosticsFresh'
    BY <1>1, <1>3, <1>6, <2>1, <2>2, StepNames DEF Handshaking, HandshakeComplete, DiagnosticsFresh
  <2> QED
    BY <1>1, <2>3, <2>4 DEF HInv
<1> QED
  BY <1>4, <1>5, <1>6

LEMMA KilledKeeps == ASSUME HInv, Killed PROVE HInv'
<1>1. /\ step' = "idle" /\ call' = [call EXCEPT !.ret = "crash"]
      /\ UNCHANGED <<params, drda, session, lastError, connected, looked, tries>>
      /\ lastError = "" /\ TriesOK'
  BY NoMoreTry DEF Killed, HInv, Handshaking, DiagnosticsFresh
<1>2. Types' /\ call'.ret = "crash"
  BY <1>1 DEF HInv, Types
<1>3. Handshaking' /\ HandshakeComplete' /\ DiagnosticsFresh'
  BY <1>1, <1>2, StepNames DEF Handshaking, HandshakeComplete, DiagnosticsFresh
<1> QED
  BY <1>1, <1>2, <1>3 DEF HInv

LEMMA HandshakeStep == HInv /\ [Next]_vars => HInv'
<1> SUFFICES ASSUME HInv, [Next]_vars PROVE HInv'
  OBVIOUS
<1>1. ASSUME NEW c \in Dbcs, NEW d \in Names, SQLConnect(c, d) PROVE HInv'
  BY <1>1, SQLConnectKeeps
<1>2. ASSUME NEW c \in Dbcs, NEW d \in Names, NEW cred \in Creds \cup {None},
             SQLDriverConnect(c, d, cred)
      PROVE  HInv'
  BY <1>2, SQLDriverConnectKeeps
<1>3. ASSUME NEW i \in 1..4, NEW reply \in {"accepted", "refused", "gone", "failed"},
             Exchange(i, reply)
      PROVE  HInv'
  BY <1>3, ExchangeKeeps
<1>4. CASE Killed
  BY <1>4, KilledKeeps
<1>5. ASSUME NEW c \in Dbcs, SQLDisconnect(c) PROVE HInv'
  BY <1>5, NoMoreTry, ZenonT(60) DEF SQLDisconnect, HInv, Types, Handshaking, HandshakeComplete, DiagnosticsFresh
<1>6. ASSUME NEW c \in Dbcs, SQLFreeConnect(c) PROVE HInv'
  <2>1. /\ params' = [params EXCEPT ![c] = NoParams]
        /\ looked' = [looked EXCEPT ![c] = None]
        /\ UNCHANGED <<drda, session, step, lastError, call, connected, tries>>
    BY <1>6 DEF SQLFreeConnect
  <2>2. params' \in [Dbcs -> ParamsType]
    <3>1. NoParams \in ParamsType
      BY DEF NoParams, ParamsType
    <3> QED
      BY <2>1, <3>1 DEF HInv, Types
  <2>4. looked' \in [Dbcs -> Names \cup {None, Several, Given}]
    BY <2>1 DEF HInv, Types
  <2>3. Types'
    BY <2>1, <2>2, <2>4 DEF HInv, Types
  <2> QED
    BY <2>1, <2>3, NoMoreTry DEF HInv, Handshaking, HandshakeComplete, DiagnosticsFresh
<1>7. CASE SQLError
  <2>1. lastError' = "" /\ UNCHANGED <<params, drda, session, step, call, connected, looked, tries>>
    BY <1>7 DEF SQLError
  <2> QED
    BY <2>1, StepNames, NoMoreTry DEF HInv, Types, Handshaking, HandshakeComplete, DiagnosticsFresh
<1>8. CASE UNCHANGED vars
  BY <1>8, NoMoreTry, ZenonT(60) DEF vars, HInv, Types, Handshaking, HandshakeComplete, DiagnosticsFresh
<1> QED
  BY <1>1, <1>2, <1>3, <1>4, <1>5, <1>6, <1>7, <1>8 DEF Next

LEMMA HandshakeInvariant == Spec => []HInv
BY HandshakeStarts, HandshakeStep, PTL DEF Spec

(* Each variable of an environment keeps its type, whatever the sections   *)
(* of odbc.ini say and however many handles connect.                       *)
THEOREM TypesHold == Spec => []TypeOK
<1>1. HInv => TypeOK
  BY TypeParts DEF HInv
<1> QED
  BY HandshakeInvariant, <1>1, PTL

(* do_connect() reports success only after a server that neither refused   *)
(* nor left has accepted each of its four commands.                        *)
THEOREM HandshakeHolds == Spec => []HandshakeComplete
<1>1. HInv => HandshakeComplete
  BY DEF HInv
<1> QED
  BY HandshakeInvariant, <1>1, PTL

(* What SQLError() says is about the latest attempt.                       *)
THEOREM DiagnosticsHold == Spec => []DiagnosticsFresh
<1>1. HInv => DiagnosticsFresh
  BY DEF HInv
<1> QED
  BY HandshakeInvariant, <1>1, PTL
-----------------------------------------------------------------------------
(* A handle that has asked for one data source only.                       *)

\* The parameters of a data source, and of nothing else
ParamsOf(d) == [url |-> IF Ini[d].hasurl THEN d ELSE None,
                uid |-> Ini[d].uid, pwd |-> Ini[d].pwd]

\* Its table holds that data source's parameters
Looking == \A c \in Dbcs :
    /\ looked[c] = None => params[c] = NoParams
    /\ looked[c] \in Names => looked[c] \in DOMAIN Ini /\ params[c] = ParamsOf(looked[c])

Owner(d) == IF Ini[d].url.cred = None THEN LocalUser ELSE Ini[d].url.cred
UserOf(d) == IF Ini[d].uid = None THEN Owner(d) ELSE Ini[d].uid
Secret(d) == IF Ini[d].url.cred # None /\ Ini[d].url.secret THEN Ini[d].url.cred ELSE Typed
PasswdOf(d) == IF Ini[d].pwd = None THEN Secret(d) ELSE Ini[d].pwd

\* The settings reach the DRDA when do_connect() begins, and the session in
\* its third command
Configured ==
    call.op = "connect" =>
        /\ call.dbc \in Dbcs /\ call.name \in Names
        /\ call.ret \in {"pending", "SUCCESS"} /\ looked[call.dbc] = call.name
           /\ WellFormed(call.name) =>
              /\ session.dbc = call.dbc
              /\ session.target = Ini[call.name].url.target
              /\ drda.user = UserOf(call.name) /\ drda.passwd = PasswdOf(call.name)
              /\ step \in {"accrdb", "idle"} =>
                    session.user = UserOf(call.name) /\ session.passwd = PasswdOf(call.name)

SInv == HInv /\ Looking /\ Configured

LEMMA NotNames == {None, Several, Given} \cap Names = {}
BY ValuesAssumption

LEMMA LookupAgain ==
    ASSUME SInv, NEW c \in Dbcs, NEW d \in DOMAIN Ini, looked[c] \in {None, d}
    PROVE  LookupDSN(c, d) = ParamsOf(d)
<1>1. d \in Names /\ Ini[d] \in Section
  BY IniAssumption
<1>2. CASE looked[c] = None
  <2>1. params[c] = NoParams
    BY <1>2 DEF SInv, Looking
  <2>2. params[c].url = None /\ params[c].uid = None /\ params[c].pwd = None
    BY <2>1 DEF NoParams
  <2> QED
    BY <2>2 DEF LookupDSN, ParamsOf, Over
<1>3. CASE looked[c] = d
  <2>1. params[c] = ParamsOf(d)
    BY <1>1, <1>3 DEF SInv, Looking
  <2>2. /\ params[c].url = IF Ini[d].hasurl THEN d ELSE None
        /\ params[c].uid = Ini[d].uid /\ params[c].pwd = Ini[d].pwd
    BY <2>1 DEF ParamsOf
  <2> QED
    BY <2>2 DEF LookupDSN, ParamsOf, Over
<1> QED
  BY <1>2, <1>3

(* drda_set_by_url() on a well-formed URL, and UID and PWD over it.        *)
LEMMA SettingsOf ==
    ASSUME HInv, NEW d \in DOMAIN Ini, WellFormed(d)
    PROVE  LET dr == Settings(Ini[d].url, Ini[d].uid, Ini[d].pwd)
           IN  /\ dr.user = UserOf(d) /\ dr.passwd = PasswdOf(d)
               /\ dr.target = Ini[d].url.target
<1> DEFINE u == Ini[d].url
           s == SetByUrl(drda, u)
           dr == Settings(u, Ini[d].uid, Ini[d].pwd)
<1>1. drda \in DrdaType /\ u.scheme /\ u.target # None
  BY DEF HInv, Types, WellFormed
<1>2. s = [drda EXCEPT !.user = Owner(d), !.passwd = Secret(d), !.target = u.target]
  BY <1>1 DEF SetByUrl, Owner, Secret, DrdaType
<1>3. s.user = Owner(d) /\ s.passwd = Secret(d) /\ s.target = u.target
      /\ s \in [user : {s.user}, passwd : {s.passwd}, target : {s.target}]
  BY <1>1, <1>2 DEF DrdaType
<1>4. dr = [s EXCEPT !.user = Over(@, Ini[d].uid), !.passwd = Over(@, Ini[d].pwd)]
  BY DEF Settings
<1> HIDE DEF s, dr
<1>5. /\ dr.user = Over(s.user, Ini[d].uid) /\ dr.passwd = Over(s.passwd, Ini[d].pwd)
      /\ dr.target = s.target
  BY <1>3, <1>4
<1>6. dr.user = UserOf(d) /\ dr.passwd = PasswdOf(d) /\ dr.target = u.target
  BY <1>3, <1>5 DEF Over, UserOf, PasswdOf
<1> QED
  BY <1>6 DEF dr

LEMMA ConfiguredStarts == Init => SInv
<1> SUFFICES ASSUME Init PROVE SInv
  OBVIOUS
<1>1. Looking
  BY NotNames DEF Init, Looking
<1>2. call.op = "none"
  BY DEF Init
<1> QED
  BY <1>1, <1>2, HandshakeStarts DEF SInv, Configured

LEMMA ConnectConfigures ==
    ASSUME SInv, NEW c \in Dbcs, NEW d \in Names, SQLConnect(c, d)
    PROVE  Looking' /\ Configured'
<1>1. /\ looked \in [Dbcs -> Names \cup {None, Several, Given}]
      /\ params \in [Dbcs -> ParamsType] /\ Idle
  BY DEF SInv, HInv, Types, SQLConnect, MayConnect
<1>2. CASE d \notin DOMAIN Ini
  <2>1. /\ call' = [op |-> "connect", dbc |-> c, name |-> d, ret |-> "ERROR"]
        /\ UNCHANGED <<params, looked>>
    BY <1>2 DEF SQLConnect, FailsAtOnce, Begin
  <2> QED
    BY <2>1 DEF SInv, Looking, Configured
<1>3. CASE d \in DOMAIN Ini
  <2> DEFINE p == LookupDSN(c, d)
  <2>1. params' = [params EXCEPT ![c] = p] /\ looked' = Looks(c, d, None)
    BY <1>3 DEF SQLConnect
  <2>2. looked'[c] = IF looked[c] = Given THEN Given
                     ELSE IF looked[c] \in {None, d} THEN d ELSE Several
    BY <1>1, <2>1 DEF Looks
  <2>3. \A e \in Dbcs : e # c => looked'[e] = looked[e] /\ params'[e] = params[e]
    BY <1>1, <2>1 DEF Looks
  <2>4. looked'[c] \in Names => looked'[c] = d /\ looked[c] \in {None, d}
    BY <2>2, NotNames
  <2>5. looked'[c] = d => p = ParamsOf(d)
    BY <1>3, <2>4, LookupAgain
  <2>6. looked'[c] # None
    BY <2>2, NotNames DEF None, Given, Several
  <2>7. Looking'
    <3>1. params'[c] = p
      BY <1>1, <2>1
    <3> QED
      BY <1>3, <2>3, <2>4, <2>5, <2>6, <3>1 DEF SInv, Looking, ParamsOf, NoParams
  <2>8. call'.op = "connect" /\ call'.dbc = c /\ call'.name = d
    BY <1>3 DEF SQLConnect, FailsAtOnce, DoConnect, Begin
  <2>9. ASSUME call'.ret \in {"pending", "SUCCESS"}, looked'[c] = d, WellFormed(d)
        PROVE  /\ session'.dbc = c
               /\ session'.target = Ini[d].url.target
               /\ drda'.user = UserOf(d) /\ drda'.passwd = PasswdOf(d)
               /\ step' = "excsat"
    <3> DEFINE dr == Settings(Ini[d].url, Ini[d].uid, Ini[d].pwd)
    <3>1. p.url = d /\ p.uid = Ini[d].uid /\ p.pwd = Ini[d].pwd
      BY <2>5, <2>9 DEF ParamsOf, WellFormed
    <3>2. p.url # None
      BY <3>1, NotNames
    <3>3. DoConnect("connect", c, d, dr)
      BY <1>3, <3>1, <3>2 DEF SQLConnect
    <3>4. drda' = dr /\ session' = Opened(dr, c) /\ step' = Handshake[1]
      BY <2>9, <3>3 DEF DoConnect, Begin
    <3>5. dr.user = UserOf(d) /\ dr.passwd = PasswdOf(d) /\ dr.target = Ini[d].url.target
      BY <1>3, <2>9, SettingsOf DEF SInv
    <3>6. session'.dbc = c /\ session'.target = dr.target
      BY <3>4 DEF Opened
    <3> QED
      BY <3>4, <3>5, <3>6, StepNames
  <2> QED
    BY <2>7, <2>8, <2>9 DEF Configured
<1> QED
  BY <1>2, <1>3

LEMMA DriverConnectConfigures ==
    ASSUME SInv, NEW c \in Dbcs, NEW d \in Names, NEW cred \in Creds \cup {None},
           SQLDriverConnect(c, d, cred)
    PROVE  Looking' /\ Configured'
<1>1. /\ looked \in [Dbcs -> Names \cup {None, Several, Given}]
      /\ params \in [Dbcs -> ParamsType]
  BY DEF SInv, HInv, Types
<1>2. call'.op = "driverconnect"
  BY DEF SQLDriverConnect, FailsAtOnce, DoConnect, Begin
<1>3. CASE d \notin DOMAIN Ini
  BY <1>2, <1>3 DEF SQLDriverConnect, SInv, Looking, Configured
<1>4. CASE d \in DOMAIN Ini
  <2> DEFINE l == LookupDSN(c, d)
             p == [l EXCEPT !.uid = Over(@, cred), !.pwd = Over(@, cred)]
  <2>1. params' = [params EXCEPT ![c] = p] /\ looked' = Looks(c, d, cred)
    BY <1>4 DEF SQLDriverConnect
  <2>2. looked'[c] = IF looked[c] = Given \/ cred # None THEN Given
                     ELSE IF looked[c] \in {None, d} THEN d ELSE Several
    BY <1>1, <2>1 DEF Looks
  <2>3. \A e \in Dbcs : e # c => looked'[e] = looked[e] /\ params'[e] = params[e]
    BY <1>1, <2>1 DEF Looks
  <2>4. looked'[c] \in Names => looked'[c] = d /\ looked[c] \in {None, d} /\ cred = None
    BY <2>2, NotNames
  <2>5. looked'[c] = d => p = ParamsOf(d)
    <3>1. SUFFICES ASSUME looked'[c] = d PROVE p = ParamsOf(d)
      OBVIOUS
    <3>2. cred = None /\ l = ParamsOf(d)
      BY <1>4, <2>4, <3>1, LookupAgain
    <3> QED
      BY <3>2 DEF Over, ParamsOf
  <2>6. looked'[c] # None
    BY <2>2, NotNames DEF None, Given, Several
  <2>7. params'[c] = p
    BY <1>1, <2>1
  <2>8. Looking'
    BY <1>4, <2>3, <2>4, <2>5, <2>6, <2>7 DEF SInv, Looking, ParamsOf, NoParams
  <2> QED
    BY <1>2, <2>8 DEF Configured
<1> QED
  BY <1>3, <1>4

LEMMA ExchangeConfigures ==
    ASSUME SInv, NEW i \in 1..4, NEW reply \in {"accepted", "refused", "gone", "failed"},
           Exchange(i, reply)
    PROVE  Looking' /\ Configured'
<1>1. UNCHANGED <<params, drda, looked>> /\ step = Handshake[i]
  BY DEF Exchange
<1>2. Looking'
  BY <1>1 DEF SInv, Looking
<1>3. step # "idle" /\ session \in Session
  BY <1>1, StepNames DEF SInv, HInv, Types
<1>4. /\ session'.dbc = session.dbc /\ session'.target = session.target
      /\ session'.user = IF step = "secchk" THEN drda.user ELSE session.user
      /\ session'.passwd = IF step = "secchk" THEN drda.passwd ELSE session.passwd
  BY <1>3 DEF Exchange, Session
<1>5. /\ call'.op = call.op /\ call'.dbc = call.dbc /\ call'.name = call.name
      /\ call.ret = "pending"
  BY <1>3 DEF Exchange, Fails, SInv, HInv, Types, Handshaking
<1>6. /\ call'.ret \in {"pending", "SUCCESS"} => step' = NextStep(i)
      /\ NextStep(i) \in {"accrdb", "idle"} => step \in {"secchk", "accrdb"}
  <2>1. reply = "failed" => call'.ret = "ERROR"
    BY DEF Exchange, Fails, SInv, HInv, Types
  <2>2. reply # "failed" => step' = NextStep(i)
    BY DEF Exchange
  <2>3. i = 1 \/ i = 2 \/ i = 3 \/ i = 4
    OBVIOUS
  <2>4. NextStep(i) \in {"accrdb", "idle"} => step \in {"secchk", "accrdb"}
    BY <1>1, <2>3, StepNames
  <2> QED
    BY <2>1, <2>2, <2>4
<1>7. Configured'
  BY <1>1, <1>4, <1>5, <1>6 DEF SInv, Configured
<1> QED
  BY <1>2, <1>7

LEMMA ConfiguredStep == SInv /\ [Next]_vars => SInv'
<1> SUFFICES ASSUME SInv, [Next]_vars PROVE Looking' /\ Configured'
  BY HandshakeStep DEF SInv
<1>1. ASSUME NEW c \in Dbcs, NEW d \in Names, SQLConnect(c, d) PROVE Looking' /\ Configured'
  BY <1>1, ConnectConfigures
<1>2. ASSUME NEW c \in Dbcs, NEW d \in Names, NEW cred \in Creds \cup {None},
             SQLDriverConnect(c, d, cred)
      PROVE  Looking' /\ Configured'
  BY <1>2, DriverConnectConfigures
<1>3. ASSUME NEW i \in 1..4, NEW reply \in {"accepted", "refused", "gone", "failed"},
             Exchange(i, reply)
      PROVE  Looking' /\ Configured'
  BY <1>3, ExchangeConfigures
<1>4. CASE Killed
  <2>1. call'.ret = "crash" /\ call'.op = call.op /\ call'.dbc = call.dbc /\ call'.name = call.name
    BY <1>4 DEF Killed, SInv, HInv, Types
  <2> QED
    BY <1>4, <2>1 DEF Killed, SInv, Looking, Configured
<1>5. ASSUME NEW c \in Dbcs, SQLDisconnect(c) PROVE Looking' /\ Configured'
  BY <1>5 DEF SQLDisconnect, SInv, Looking, Configured
<1>6. ASSUME NEW c \in Dbcs, SQLFreeConnect(c) PROVE Looking' /\ Configured'
  <2>1. /\ params' = [params EXCEPT ![c] = NoParams]
        /\ looked' = [looked EXCEPT ![c] = None]
        /\ UNCHANGED <<drda, session, step, call>>
    BY <1>6 DEF SQLFreeConnect
  <2>2. looked'[c] = None /\ params'[c] = NoParams
    BY <2>1 DEF SInv, HInv, Types
  <2>3. \A e \in Dbcs : e # c => looked'[e] = looked[e] /\ params'[e] = params[e]
    BY <2>1 DEF SInv, HInv, Types
  <2>4. Looking'
    BY <2>2, <2>3, NotNames DEF SInv, Looking
  <2>5. call.op = "connect" /\ looked'[call.dbc] = call.name => looked[call.dbc] = call.name
    BY <2>2, <2>3, NotNames DEF SInv, Configured
  <2>6. Configured'
    BY <2>1, <2>5 DEF SInv, Configured
  <2> QED
    BY <2>4, <2>6
<1>7. CASE SQLError
  BY <1>7 DEF SQLError, SInv, Looking, Configured
<1>8. CASE UNCHANGED vars
  BY <1>8 DEF vars, SInv, Looking, Configured
<1> QED
  BY <1>1, <1>2, <1>3, <1>4, <1>5, <1>6, <1>7, <1>8 DEF Next

(* A handle that has only asked for one data source gets its database and  *)
(* its credentials, whatever other handles left in the shared DRDA.        *)
THEOREM SessionsConfigured == Spec => []SessionAsConfigured
<1>1. SInv => SessionAsConfigured
  <2> SUFFICES ASSUME SInv, Succeeded("connect"), looked[call.dbc] = call.name,
                      WellFormed(call.name)
               PROVE  LET d == Ini[call.name]
                          owner == IF d.url.cred = None THEN LocalUser ELSE d.url.cred
                          secret == IF d.url.cred # None /\ d.url.secret
                                    THEN d.url.cred ELSE Typed
                      IN  /\ session.dbc = call.dbc
                          /\ session.target = d.url.target
                          /\ session.user   = IF d.uid = None THEN owner ELSE d.uid
                          /\ session.passwd = IF d.pwd = None THEN secret ELSE d.pwd
    BY DEF SessionAsConfigured
  <2>1. step = "idle"
    BY DEF Succeeded, SInv, HInv, Handshaking
  <2> QED
    BY <2>1 DEF Succeeded, SInv, Configured, UserOf, PasswdOf, Owner, Secret
<1> QED
  BY ConfiguredStarts, ConfiguredStep, <1>1, PTL DEF Spec
=============================================================================
