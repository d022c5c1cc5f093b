---------------------------- MODULE ReplyParams ----------------------------
(***************************************************************************)
(* What a reply leaves in the DRDA structure: ddm_read_dss() hands each    *)
(* object of a reply to its reader, which walks the parameters in it and   *)
(* stores those it knows (src/src/libdrda/ddmread.c).  There is one reader *)
(* for reply messages, ddm_read_rpymsg_subclass(), one for EXCSATRD and    *)
(* one for ACCSECRD; SQLDARD is decoded in the byte order announced by     *)
(* TYPDEFNAM.  Nothing is cleared between replies: each leaves its own     *)
(* mark on what is there.                                                  *)
(***************************************************************************)
EXTENDS Integers, Sequences

CONSTANTS
    Levels,     \* manager levels, severities and error codes: small numbers
    Stems,      \* names and texts the server sends, by their first 8 characters
    Orders,     \* type definition names: each stands for a byte order
    Unset       \* NULL

(* A text, and whether it goes on after the first 8 characters.            *)
Text == [stem : Stems, more : BOOLEAN]

ASSUME ParamsAssumption == /\ Levels \subseteq Nat \ {0}
                           /\ Unset \notin Orders \cup Text

Managers == {"agent", "secmgr", "cmntcpip", "sqlam", "ccsidmgr", "rdb"}
Names    == {"extnam", "srvclsnm", "srvnam", "srvrlslv"}

VARIABLES
    err,        \* err_set, severity_code, err_code, err_code_pt, err_diag_msg
    level,      \* sat_agent .. sat_rdb
    name,       \* sat_extnam .. sat_srvrlslv
    typdefnam,  \* the server's byte order, Unset: NULL
    object,     \* the object being read, or NoObject
    pos         \* parameters of it that have been read

replyState == <<err, level, name, typdefnam, object, pos>>

(* A parameter: its code point, whether its length is one the reader       *)
(* accepts, and its value: a number, a text, a byte order, or levels of    *)
(* some managers.                                                          *)
Numbers  == {"SVRCOD", "SECCHKCD", "SYNERRCD"}
Logged   == {"PRDID", "TYPDEFOVR", "QRYPRCTYP", "SQLCSRHLD", "SECMEC"}
NameOf   == [EXTNAM |-> "extnam", SRVCLSNM |-> "srvclsnm",
             SRVNAM |-> "srvnam", SRVRLSLV |-> "srvrlslv"]
Parameters ==
    [cp : Numbers, sized : BOOLEAN, val : Levels]
    \cup [cp : {"CODPNT"}, sized : {TRUE}, val : Levels]
    \cup [cp : DOMAIN NameOf \cup {"SRVDGN"}, sized : {TRUE}, val : Text]
    \cup [cp : {"TYPDEFNAM"}, sized : {TRUE}, val : Orders]
    \cup [cp : {"MGRLVLLS"}, sized : {TRUE},
          val : UNION {[S -> Levels] : S \in SUBSET Managers}]
    \cup [cp : Logged, sized : BOOLEAN, val : {0}]

ReplyMessages == {"SYNTAXRM", "PRMNSPRM", "MGRLVLRM", "SECCHKRM", "ACCRDBRM",
                  "PRCCNVRM", "OPNQRYRM", "ENDQRYRM"}
Data == {"QRYDSC", "QRYDTA", "SQLDARD", "SQLCARD"}
Unknown == "RDBNFNRM"     \* one of those ddm_read_dss() does not handle

IsObject(o) == /\ o.obj \in ReplyMessages \cup Data \cup {"EXCSATRD", "ACCSECRD", Unknown}
               /\ o.params \in Seq(Parameters)
NoObject == [obj |-> "none", params |-> <<>>]

NoError == [set |-> FALSE, severity |-> 0, code |-> 0, point |-> 0, diag |-> Unset]

ReplyTypeOK ==
    /\ err \in [set : BOOLEAN, severity : Levels \cup {0}, code : Levels \cup {0},
                point : Levels \cup {0}, diag : Text \cup {Unset}]
    /\ level \in [Managers -> Levels \cup {0}]
    /\ name \in [Names -> Text \cup {Unset}]
    /\ typdefnam \in Orders \cup {Unset}
    /\ object = NoObject \/ IsObject(object)
    /\ pos \in 0..Len(object.params)

ReplyInit ==
    /\ err = NoError
    /\ level = [m \in Managers |-> 0]
    /\ name = [n \in Names |-> Unset]
    /\ typdefnam = Unset
    /\ object = NoObject /\ pos = 0

-----------------------------------------------------------------------------
(* The readers of single parameters.                                       *)

param == object.params[pos + 1]

\* mutant: a diagnostic text alone is no error
DiagnosticUnmarked(e, q) == [e EXCEPT !.diag = q.val]

\* mutant: the text is kept with its length and code point in front
WithHeader(e, q) == [e EXCEPT !.diag = q, !.set = TRUE]

(* SRVDGN *)
Diagnostic(e, q) == [e EXCEPT !.diag = q.val, !.set = TRUE]

\* mutant: whatever its length, the code is taken
CodeUnchecked(e, q) == [e EXCEPT !.code = q.val, !.set = TRUE]

\* SECCHKCD and SYNERRCD of another length than 5 are left out
Code(e, q) == IF q.sized THEN [e EXCEPT !.code = q.val, !.set = TRUE] ELSE e

\* CODPNT is stored whatever its length, but does not count as an error
Point(e, q) == [e EXCEPT !.point = q.val]

\* SVRCOD must have length 6
Severity(e, q) ==
    IF q.cp = "SVRCOD" /\ q.sized
    THEN [e EXCEPT !.severity = q.val, !.set = TRUE] ELSE e

\* MGRLVLLS sets the levels it lists; managers it does not know are skipped
Listed(old, listed) ==
    [m \in Managers |-> IF m \in DOMAIN listed THEN listed[m] ELSE old[m]]

\* Instance and server names are cut to 8 characters
Cut(q) == IF q.cp \in {"EXTNAM", "SRVNAM"} THEN [q.val EXCEPT !.more = FALSE]
          ELSE q.val

\* mutant: what is there already is kept
KeepFirst(old, new) == IF old = Unset THEN new ELSE old

\* A name, of the server or of its byte order, replaces the one that was there
Stored(old, new) == new

\* Each server code of a reply message is read from its first parameter
FirstPlace == object.params[1]

(* One turn of ddm_read_rpymsg_subclass() *)
ReplyMessageParameter ==
    /\ err' = CASE param.cp = "SVRCOD" -> Severity(err, FirstPlace)
                [] param.cp \in {"SECCHKCD", "SYNERRCD"} -> Code(err, param)
                [] param.cp = "CODPNT" -> Point(err, param)
                [] param.cp = "SRVDGN" -> Diagnostic(err, param)
                [] OTHER -> err
    /\ typdefnam' = IF param.cp = "TYPDEFNAM" THEN Stored(typdefnam, param.val)
                   ELSE typdefnam
    /\ level' = IF param.cp = "MGRLVLLS" THEN Listed(level, param.val) ELSE level
    /\ UNCHANGED name

(* One turn of ddm_read_excsatrd() *)
AttributesParameter ==
    /\ name' = IF param.cp \in DOMAIN NameOf
               THEN [name EXCEPT ![NameOf[param.cp]] = Stored(@, Cut(param))]
               ELSE name
    /\ level' = IF param.cp = "MGRLVLLS" THEN Listed(level, param.val) ELSE level
    /\ UNCHANGED <<err, typdefnam>>

(* One turn of the loop of the reader ddm_read_dss() calls; ACCSECRD only  *)
(* logs, and the data objects have no parameters.                          *)
ReadParameter ==
    /\ pos < Len(object.params)
    /\ pos' = pos + 1
    /\ UNCHANGED object
    /\ \/ object.obj \in ReplyMessages /\ ReplyMessageParameter
       \/ object.obj = "EXCSATRD" /\ AttributesParameter
       \/ object.obj \in {"ACCSECRD", Unknown} /\ UNCHANGED <<err, level, name, typdefnam>>

\* ddm_read_dss() comes to an object
ReadObject(o) ==
    /\ object' = o /\ pos' = 0
    /\ UNCHANGED <<err, level, name, typdefnam>>

WholeRead == pos = Len(object.params)

-----------------------------------------------------------------------------
(* What a reply that has been read promises.                               *)

\* The last parameter of the object with one of these code points and the
\* right length, 0 if there is none
LastOf(cps) ==
    LET I == {i \in 1..Len(object.params) :
                 object.params[i].cp \in cps /\ object.params[i].sized}
    IN  IF I = {} THEN 0 ELSE CHOOSE i \in I : \A j \in I : j <= i

Says(cps) == LastOf(cps) # 0
Said(cps) == object.params[LastOf(cps)].val

\* The server code is where the reader looks for it
ServerCodeLeads ==
    \A i \in 1..Len(object.params) : object.params[i].cp = "SVRCOD" => i = 1

(* A reply message that has been read is in the handle: its error code,    *)
(* code point, diagnostic, byte order, and its severity if the server code *)
(* came first, in whatever order the other parameters came and whatever    *)
(* replies before it have left.                                            *)
ReplyRecorded ==
    object.obj \in ReplyMessages /\ WholeRead =>
        /\ Says({"SECCHKCD", "SYNERRCD"}) => err.code = Said({"SECCHKCD", "SYNERRCD"})
        /\ Says({"CODPNT"}) => err.point = Said({"CODPNT"})
        /\ Says({"SRVDGN"}) => err.diag = Said({"SRVDGN"})
        /\ Says({"TYPDEFNAM"}) => typdefnam = Said({"TYPDEFNAM"})
        /\ Says({"SVRCOD"}) /\ ServerCodeLeads => err.severity = Said({"SVRCOD"})

(* EXCSATRD: the manager levels and names of the server are known, each    *)
(* from the last parameter that gives it.                                  *)
AttributesRecorded ==
    object.obj = "EXCSATRD" /\ WholeRead =>
        /\ \A cp \in DOMAIN NameOf : Says({cp}) =>
              /\ name[NameOf[cp]] # Unset
              /\ name[NameOf[cp]].stem = Said({cp}).stem
        /\ \A m \in Managers :
              LET L == {i \in 1..Len(object.params) :
                           /\ object.params[i].cp = "MGRLVLLS"
                           /\ m \in DOMAIN object.params[i].val}
              IN  L # {} => \E i \in L : /\ \A j \in L : j <= i
                                         /\ level[m] = object.params[i].val[m]

(* Where err_set is 0 no severity, error code or diagnostic is held, which *)
(* nobody who looks at err_set would see.  Only the code point of a reply  *)
(* may be: CODPNT is stored without setting err_set.                       *)
OnlyPointUnmarked ==
    ~err.set => err.severity = 0 /\ err.code = 0 /\ err.diag = Unset

=============================================================================
