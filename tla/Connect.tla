------------------------------ MODULE Connect -------------------------------
(***************************************************************************)
(* Connecting an ODBC handle to a database: SQLConnect and                 *)
(* SQLDriverConnect of src/src/odbc/odbc.c, the parameters of a data       *)
(* source (connectparams.c), the URL (libdrda/user.c), the socket          *)
(* (libdrda/handle.c) and the four commands that open a session.           *)
(*                                                                         *)
(* Three stores keep values from one attempt to the next: the parameter    *)
(* table of each connection handle, the one DRDA structure that all        *)
(* handles of the environment share, and the one lastError string.         *)
(***************************************************************************)
EXTENDS Naturals, Sequences

CONSTANTS
    Dbcs,       \* connection handles of one environment
    Names,      \* data source names the application asks for
    Ini,        \* odbc.ini: the sections among Names
    Creds,      \* user names; a password is named after its user
    Targets,    \* host, port and database
    MaxTries    \* bound: calls of SQLConnect and SQLDriverConnect

None == "none"
Several == "several"
Given == "given"
LocalUser == "localuser"      \* the user getpwent() gives
Typed == "typed"              \* the password getpass() reads from the terminal

(* A URL: whether its scheme is drda (or absent), the user before the "@", *)
(* whether a password comes with it, and what follows if it has the "/"    *)
(* that precedes the database.                                             *)
Url == [scheme : BOOLEAN, cred : Creds \cup {None}, secret : BOOLEAN,
        target : Targets \cup {None}]

\* The passwords the environment may hold
Passwords == Creds \cup {None, Typed}
Section == [hasurl : BOOLEAN, url : Url,
            uid : Creds \cup {None}, pwd : Creds \cup {None}]

ASSUME IniAssumption == DOMAIN Ini \subseteq Names
                        /\ \A d \in DOMAIN Ini : Ini[d] \in Section
ASSUME ValuesAssumption == {None, Several, Given, LocalUser, Typed} \cap (Creds \cup Targets \cup Names) = {}
ASSUME BoundAssumption == MaxTries \in Nat

VARIABLES
    params,     \* per handle, the table: url (the section it is from), uid, pwd
    drda,       \* the environment's DRDA: user, passwd, target
    session,    \* what is behind drda->s, the socket opened last
    step,       \* the command do_connect is about to issue, or "idle"
    lastError,  \* the message SQLError will give, or ""
    call,       \* the latest SQLConnect or SQLDriverConnect and its outcome
    connected,  \* handles the driver manager holds to be connected
    looked,     \* history: the section a handle has looked up, Several, or
                \* Given if a connect string gave it credentials
    tries       \* calls of SQLConnect and SQLDriverConnect

vars == <<params, drda, session, step, lastError, call, connected, looked, tries>>

Handshake == <<"excsat", "accsec", "secchk", "accrdb">>
Steps == {Handshake[i] : i \in 1..4}
Messages == Steps \cup {"dsn", "url", "uid", "connect"}

(* A session: what it was opened for, the credentials of its SECCHK, how   *)
(* many commands the server accepted, and whether it refused one or left.  *)
Session == [dbc : Dbcs, target : Targets,
            user : Creds \cup {None, LocalUser}, passwd : Passwords,
            accepted : 0..4, server : {"willing", "refused", "gone"}]

NoSession == [dbc |-> None]
NoParams == [url |-> None, uid |-> None, pwd |-> None]

TypeOK ==
    /\ params \in [Dbcs -> [url : DOMAIN Ini \cup {None},
                            uid : Creds \cup {None}, pwd : Creds \cup {None}]]
    /\ drda \in [user : Creds \cup {None, LocalUser},
                 passwd : Passwords,
                 target : Targets \cup {None}]
    /\ session \in Session \cup {NoSession}
    /\ step \in Steps \cup {"idle"}
    /\ (step # "idle" => session # NoSession /\ session.dbc = call.dbc)
    /\ lastError \in Messages \cup {""}
    /\ call \in [op : {"none", "connect", "driverconnect"}, dbc : Dbcs \cup {None},
                 name : Names \cup {None},
                 ret : {"none", "pending", "SUCCESS", "ERROR", "crash"}]
    /\ connected \subseteq Dbcs
    /\ tries \in 0..MaxTries
    /\ looked \in [Dbcs -> Names \cup {None, Several, Given}]

Init ==
    /\ params = [c \in Dbcs |-> NoParams]
    /\ drda = [user |-> None, passwd |-> None, target |-> None]
    /\ session = NoSession
    /\ step = "idle"
    /\ lastError = ""
    /\ call = [op |-> "none", dbc |-> None, name |-> None, ret |-> "none"]
    /\ connected = {}
    /\ looked = [c \in Dbcs |-> None]
    /\ tries = 0

Idle == step = "idle" /\ call.ret # "crash"

-----------------------------------------------------------------------------
(* The pieces of a connection attempt.                                     *)

\* mutant: a value that is there already is kept
KeepOld(old, new) == IF old = None THEN new ELSE old

\* A parameter keeps its value where the section does not give one
Over(old, new) == IF new = None THEN old ELSE new

\* LookupDSN() adds the section's lines to the handle's table
LookupDSN(c, d) ==
    [url |-> IF Ini[d].hasurl THEN d ELSE params[c].url,
     uid |-> Over(params[c].uid, Ini[d].uid),
     pwd |-> Over(params[c].pwd, Ini[d].pwd)]

(* drda_set_by_url() sets what it has parsed before it fails: nothing for  *)
(* another scheme; the user, and a password in the URL, when there is no   *)
(* database, for which the terminal is not asked for a password.           *)
SetByUrl(dr, u) ==
    IF ~u.scheme THEN dr
    ELSE [dr EXCEPT
            !.user   = IF u.cred = None THEN LocalUser ELSE u.cred,
            !.passwd = IF u.cred # None /\ u.secret THEN u.cred
                       ELSE IF u.target = None THEN @ ELSE Typed,
            !.target = IF u.target = None THEN @ ELSE u.target]

\* do_connect() sets the user and password it was given over those of the
\* URL, and does not look at what drda_set_by_url() returned
Settings(u, uid, pwd) ==
    [SetByUrl(drda, u) EXCEPT !.user = Over(@, uid), !.passwd = Over(@, pwd)]

Fails(msg) ==
    /\ lastError' = msg
    /\ call' = [call EXCEPT !.ret = "ERROR"]
    /\ step' = "idle"

Begin(op, c, d, ret) == call' = [op |-> op, dbc |-> c, name |-> d, ret |-> ret]

\* mutant: the diagnostics of an earlier attempt stay
ErrorKept == lastError

\* Both functions start with strcpy(lastError, "")
ErrorCleared == ""

FailsAtOnce(op, c, d, msg) ==
    /\ lastError' = msg
    /\ Begin(op, c, d, "ERROR")
    /\ UNCHANGED <<drda, session, step>>

\* mutant: drda->s is not set
SocketUnset(dr, c) == session

\* drda_connect() puts the new socket into drda->s, whatever was there
Opened(dr, c) ==
    [dbc |-> c, target |-> dr.target, user |-> None, passwd |-> None,
     accepted |-> 0, server |-> "willing"]

(* do_connect() up to the first command.  Without a server drda_connect()  *)
(* dereferences NULL.  When it fails it returns 0, and drda->s stays.      *)
DoConnect(op, c, d, dr) ==
    /\ drda' = dr
    /\ \/ /\ dr.target = None
          /\ lastError' = ErrorCleared
          /\ Begin(op, c, d, "crash")
          /\ UNCHANGED <<session, step>>
       \/ /\ dr.target # None
          /\ lastError' = "connect"
          /\ Begin(op, c, d, "ERROR")
          /\ UNCHANGED <<session, step>>
       \/ /\ dr.target # None
          /\ session' = Opened(dr, c)
          /\ lastError' = ErrorCleared
          /\ Begin(op, c, d, "pending")
          /\ step' = Handshake[1]

\* The history of a handle that looks up d, given credentials or not
Looks(c, d, cred) ==
    [looked EXCEPT ![c] = IF @ = Given \/ cred # None THEN Given
                          ELSE IF @ \in {None, d} THEN d ELSE Several]

MayConnect(c) == Idle /\ c \notin connected /\ tries < MaxTries

-----------------------------------------------------------------------------
(* The calls.                                                              *)

SQLConnect(c, d) ==
    /\ MayConnect(c)
    /\ tries' = tries + 1
    /\ UNCHANGED connected
    /\ \/ /\ d \notin DOMAIN Ini
          /\ FailsAtOnce("connect", c, d, "dsn")
          /\ UNCHANGED <<params, looked>>
       \/ /\ d \in DOMAIN Ini
          /\ params' = [params EXCEPT ![c] = LookupDSN(c, d)]
          /\ looked' = Looks(c, d, None)
          /\ LET p == LookupDSN(c, d) IN
             IF p.url = None THEN FailsAtOnce("connect", c, d, "url")
             ELSE DoConnect("connect", c, d, Settings(Ini[p.url].url, p.uid, p.pwd))

(* A user name taken for a URL: it has no scheme, no "@" and no "/".       *)
UidAsUrl == [scheme |-> TRUE, cred |-> None, secret |-> FALSE, target |-> None]

(* The connect string names the section, and may give UID and PWD; one     *)
(* without a DSN counts as one that names no section.  The URL is looked   *)
(* up, and then overwritten with the UID.                                  *)
SQLDriverConnect(c, d, cred) ==
    /\ MayConnect(c)
    /\ tries' = tries + 1
    /\ UNCHANGED connected
    /\ \/ /\ d \notin DOMAIN Ini
          /\ FailsAtOnce("driverconnect", c, d, "dsn")
          /\ UNCHANGED <<params, looked>>
       \/ /\ d \in DOMAIN Ini
          /\ LET l == LookupDSN(c, d)
                 p == [l EXCEPT !.uid = Over(@, cred), !.pwd = Over(@, cred)]
             IN /\ params' = [params EXCEPT ![c] = p]
                /\ looked' = Looks(c, d, cred)
                /\ IF p.url = None THEN FailsAtOnce("driverconnect", c, d, "url")
                   ELSE IF p.uid = None \/ p.pwd = None
                        THEN FailsAtOnce("driverconnect", c, d, "uid")
                   ELSE DoConnect("driverconnect", c, d,
                                  Settings(UidAsUrl, None, p.pwd))

\* mutant: the last command is left out
NoAccrdb(i) == IF i < 3 THEN Handshake[i + 1] ELSE "idle"

\* The command do_connect() issues after the i-th
NextStep(i) == IF i < 4 THEN Handshake[i + 1] ELSE "idle"

(* One command of the handshake and its reply: "accepted"; "refused", by a *)
(* reply message; "gone", end of file; "failed", -1.  The server accepts   *)
(* nothing after a refusal.  Only "failed" is negative: after any other    *)
(* reply do_connect() goes on.                                             *)
Exchange(i, reply) ==
    /\ step = Handshake[i]
    /\ reply = "accepted" => session.server = "willing"
    /\ reply = "refused" => session.server # "gone"
    /\ session' = [session EXCEPT
            !.accepted = IF reply = "accepted" THEN i ELSE @,
            !.server = CASE reply = "accepted" -> @
                         [] reply = "refused"  -> "refused"
                         [] OTHER              -> "gone",
            !.user = IF step = "secchk" THEN drda.user ELSE @,
            !.passwd = IF step = "secchk" THEN drda.passwd ELSE @]
    /\ IF reply = "failed" THEN Fails(step) /\ UNCHANGED connected
       ELSE /\ step' = NextStep(i)
            /\ IF NextStep(i) # "idle" THEN UNCHANGED <<call, connected>>
               ELSE /\ call' = [call EXCEPT !.ret = "SUCCESS"]
                    /\ connected' = connected \cup {call.dbc}
            /\ UNCHANGED lastError
    /\ UNCHANGED <<params, drda, looked, tries>>

(* write() to a connection the peer has left raises SIGPIPE.               *)
Killed ==
    /\ step # "idle" /\ session.server = "gone"
    /\ step' = "idle"
    /\ call' = [call EXCEPT !.ret = "crash"]
    /\ UNCHANGED <<params, drda, session, lastError, connected, looked, tries>>

\* SQLDisconnect() does nothing: the socket stays open, and in drda->s
SQLDisconnect(c) ==
    /\ Idle /\ c \in connected
    /\ connected' = connected \ {c}
    /\ UNCHANGED <<params, drda, session, step, lastError, call, looked, tries>>

\* SQLFreeConnect(), and SQLAllocConnect() in its place
SQLFreeConnect(c) ==
    /\ Idle /\ c \notin connected
    /\ params' = [params EXCEPT ![c] = NoParams]
    /\ looked' = [looked EXCEPT ![c] = None]
    /\ UNCHANGED <<drda, session, step, lastError, call, connected, tries>>

\* SQLError() gives the message once
SQLError ==
    /\ Idle /\ lastError # ""
    /\ lastError' = ""
    /\ UNCHANGED <<params, drda, session, step, call, connected, looked, tries>>

Next ==
    \/ \E c \in Dbcs, d \in Names : SQLConnect(c, d)
    \/ \E c \in Dbcs, d \in Names, cred \in Creds \cup {None} :
          SQLDriverConnect(c, d, cred)
    \/ \E i \in 1..4, reply \in {"accepted", "refused", "gone", "failed"} :
          Exchange(i, reply)
    \/ Killed
    \/ \E c \in Dbcs : SQLDisconnect(c) \/ SQLFreeConnect(c)
    \/ SQLError

Spec == Init /\ [][Next]_vars

-----------------------------------------------------------------------------
(* What a connection promises.                                             *)

Succeeded(op) == call.ret = "SUCCESS" /\ call.op = op

\* The section's URL can be parsed to its end
WellFormed(d) == Ini[d].hasurl /\ Ini[d].url.scheme /\ Ini[d].url.target # None

(* A handle that has only ever asked for one data source gets a session    *)
(* with its database, logged on as its UID, else as the user of the URL,   *)
(* else as the local one, with its PWD, else the password of the URL, else *)
(* that of the terminal, whatever other handles did to the shared DRDA.    *)
SessionAsConfigured ==
    Succeeded("connect") /\ looked[call.dbc] = call.name /\ WellFormed(call.name) =>
        LET d == Ini[call.name]
            owner == IF d.url.cred = None THEN LocalUser ELSE d.url.cred
            secret == IF d.url.cred # None /\ d.url.secret THEN d.url.cred ELSE Typed
        IN  /\ session.dbc = call.dbc
            /\ session.target = d.url.target
            /\ session.user   = IF d.uid = None THEN owner ELSE d.uid
            /\ session.passwd = IF d.pwd = None THEN secret ELSE d.pwd

(* A successful connect went through all four commands: only a server that *)
(* refused one or left in between has not accepted each of them.           *)
HandshakeComplete ==
    call.ret = "SUCCESS" => session.accepted = 4 \/ session.server # "willing"

(* SQLError() speaks of the latest attempt: it has nothing to say of one   *)
(* that succeeded, and its message names what that attempt failed at.      *)
DiagnosticsFresh ==
    /\ call.ret \in {"pending", "SUCCESS"} => lastError = ""
    /\ lastError = "dsn" => call.name \notin DOMAIN Ini
    /\ lastError \in Steps => call.dbc = session.dbc /\ session.server = "gone"

-----------------------------------------------------------------------------
(* What the repository says of the program and the code does not do.       *)

(* do_connect() knows "Failed to logon to server." and "Failed to access   *)
(* database.": a connect that succeeds was accepted by the server.         *)
LoginMeansAccepted == call.ret = "SUCCESS" => session.accepted = 4

(* LookupDSN(): "Find the settings for the specified ODBC DSN", that is    *)
(* not those of another one: with the credentials in the URL, "these are   *)
(* optional", the session is opened with the credentials of the URL.       *)
CredentialsOfDsn ==
    Succeeded("connect") /\ WellFormed(call.name) =>
        LET d == Ini[call.name] IN
        d.uid = None /\ d.pwd = None /\ d.url.cred # None /\ d.url.secret
        /\ looked[call.dbc] # Given =>
            session.user = d.url.cred /\ session.passwd = d.url.cred

(* README: the URL line of the odbc.ini entry names the database.          *)
TargetOfUrl ==
    Succeeded("driverconnect") /\ looked[call.dbc] = call.name /\ WellFormed(call.name) =>
        session.target = Ini[call.name].url.target

=============================================================================
