---------------------------- MODULE ConnectText -----------------------------
(***************************************************************************)
(* The text a connection is configured by: odbc.ini and the connect string *)
(* (src/src/odbc/connectparams.c), and the URL of a database               *)
(* (src/src/libdrda/user.c).  A text is a sequence of characters; words    *)
(* that nothing looks into are one character.  What the three readers      *)
(* leave in the table and in the DRDA is what module Connect starts from.  *)
(***************************************************************************)
EXTENDS Naturals, Sequences

CONSTANTS
    Urls,           \* URLs, as records
    FilesWith(_),   \* odbc.ini files whose section "d" names a URL's text
    Strings         \* connect strings

Nothing == <<>>

(* A URL as src/README writes it; what is Nothing is left out of its text. *)

\* The text of its last n options
Options(u, n) ==
    LET last[k \in Nat] == IF k = 0 THEN <<>>
                           ELSE <<u.by>> \o u.options[Len(u.options) + 1 - k] \o last[k - 1]
    IN  last[n]

Text(u) ==
        (IF u.scheme = Nothing THEN <<>> ELSE u.scheme \o <<"://">>)
        \o (IF u.user = Nothing THEN <<>>
            ELSE u.user \o (IF u.passwd = Nothing THEN <<>> ELSE <<".">> \o u.passwd) \o <<"@">>)
        \o u.server \o (IF u.port = Nothing THEN <<>> ELSE <<":">> \o u.port)
        \o <<"/">> \o u.database \o Options(u, Len(u.options))

(* The files, line by line, and the strings are texts.  A file has a line, *)
(* and only its last may lack the newline: no line is longer than fgets()  *)
(* reads at once.                                                          *)
ASSUME FilesAssumption ==
    \A u \in Urls : \A f \in FilesWith(Text(u)) :
        /\ f \in Seq([chars : Seq(STRING), newline : BOOLEAN]) /\ f # <<>>
        /\ \A i \in DOMAIN f : ~f[i].newline => i = Len(f)
ASSUME StringsAssumption == Strings \subseteq Seq(STRING)

VARIABLES
    step,       \* "idle", "find", "item", "string", "url", "option", "done"
    file,       \* lines of odbc.ini not yet read
    rest,       \* s: what is left of the connect string or of the URL
    sep,        \* what separates the options of the URL
    params,     \* params->table
    drda,       \* the settings of the DRDA
    written     \* what was asked for: file, string and URL

tvars == <<step, file, rest, sep, params, drda, written>>

NewDrda == [user |-> Nothing, passwd |-> Nothing, server |-> Nothing, port |-> Nothing,
            database |-> Nothing, options |-> Nothing]
OptionNames == {<<"collection">>, <<"package">>, <<"local-encoding">>,
                <<"remote-encoding">>, <<"application-name">>}

-----------------------------------------------------------------------------
(* Strings.                                                                *)

Has(t, c) == \E i \in DOMAIN t : t[i] = c
First(t, c) == CHOOSE i \in DOMAIN t : t[i] = c /\ \A j \in 1..(i - 1) : t[j] # c
Before(t, c) == IF Has(t, c) THEN SubSeq(t, 1, First(t, c) - 1) ELSE t
After(t, c) == IF Has(t, c) THEN SubSeq(t, First(t, c) + 1, Len(t)) ELSE <<>>

NoLeading(t, c) ==
    LET k == CHOOSE k \in 1..(Len(t) + 1) :
                 (k <= Len(t) => t[k] # c) /\ \A j \in 1..(k - 1) : t[j] = c
    IN  SubSeq(t, k, Len(t))
NoTrailing(t, c, least) ==
    LET k == CHOOSE k \in 0..Len(t) :
                 (k > least => t[k] # c) /\ \A j \in (k + 1)..Len(t) : j > least /\ t[j] = c
    IN  SubSeq(t, 1, k)

\* The next token of strtok(), and what it leaves
Token(t) == Before(NoLeading(t, "="), "=")
AfterToken(t) == After(NoLeading(t, "="), "=")

\* g_hash_table_insert()
Insert(tab, name, value) ==
    [n \in DOMAIN tab \cup {name} |-> IF n = name THEN value ELSE tab[n]]

(* A part of a URL is without the characters that would end it, and        *)
(* without blanks where it is an option.                                   *)
Lacks(t, chars) == t \in Seq(STRING) /\ \A c \in chars : ~Has(t, c)
WellFormed(u) ==
    /\ u.scheme \in Seq(STRING) /\ u.by \in {";", ":"}
    /\ Lacks(u.user, {"://", "@", ".", ":"}) /\ Lacks(u.passwd, {"://", "@", ":"})
    /\ Lacks(u.server, {"://", "@", "/", ":"}) /\ Lacks(u.port, {"://", "@", "/"})
    /\ Lacks(u.database, {"://", "@", ";", ":"})
    /\ u.options \in Seq(Seq(STRING))
    /\ \A i \in DOMAIN u.options : Lacks(u.options[i], {"://", "@", ";", " ", u.by})
ASSUME UrlsAssumption == \A u \in Urls : WellFormed(u)

-----------------------------------------------------------------------------
(* odbc.ini: fgets() gives a line with its newline, if it has one, and the *)
(* last character is dropped.                                              *)

\* mutant: the last character is dropped of every text
LineWithout(l) == SubSeq(l.chars, 1, Len(l.chars) - 1)

ReadLine(l) == IF l.newline THEN l.chars ELSE SubSeq(l.chars, 1, Len(l.chars) - 1)

Header == <<"[", "d", "]">>

FindSection ==
    /\ step = "find"
    /\ IF file = <<>> THEN step' = "done" /\ UNCHANGED file
       ELSE /\ file' = Tail(file)
            /\ step' = IF ReadLine(Head(file)) = Header THEN "item" ELSE "find"
    /\ UNCHANGED <<rest, sep, params, drda, written>>

\* GetNextItem() finds no second token
NoItem == file # <<>> => Token(AfterToken(ReadLine(Head(file)))) = <<>>

(* A line that gives no item ends the section; LoadDSN() is through.       *)
EndOfSection ==
    /\ step = "item" /\ NoItem
    /\ IF written.string # Nothing
       THEN step' = "string" /\ rest' = written.string
       ELSE IF <<"URL">> \in DOMAIN params
            THEN step' = "url" /\ rest' = params[<<"URL">>]
            ELSE step' = "done" /\ UNCHANGED rest
    /\ UNCHANGED <<file, sep, params, drda, written>>

GetNextItem ==
    LET l == ReadLine(Head(file))
        name == NoTrailing(Token(l), " ", 0)
        value == NoLeading(Token(AfterToken(l)), " ")
    IN
    /\ step = "item" /\ ~NoItem
    /\ params' = Insert(params, name, value)
    /\ file' = Tail(file)
    /\ UNCHANGED <<step, rest, sep, drda, written>>

-----------------------------------------------------------------------------
(* The connect string, SetConnectString(): a name reaches up to the next   *)
(* "=", whatever is in between, and a value up to the next ";".  After a   *)
(* value that no ";" ends, the scan goes on with that same value.          *)

\* mutant: a name that is there already keeps its value
InsertNew(tab, name, value) ==
    IF name \in DOMAIN tab THEN tab ELSE Insert(tab, name, value)

Override(tab, name, value) == Insert(tab, name, value)

SetItem ==
    LET name == NoTrailing(Before(rest, "="), " ", 1)
        values == After(rest, "=")
    IN
    /\ step = "string"
    /\ IF ~Has(rest, "=") THEN step' = "done" /\ UNCHANGED <<rest, params>>
       ELSE /\ params' = Override(params, name, NoLeading(Before(values, ";"), " "))
            /\ rest' = IF Has(values, ";") THEN After(values, ";") ELSE values
            /\ UNCHANGED step
    /\ UNCHANGED <<file, sep, drda, written>>

-----------------------------------------------------------------------------
(* The URL, drda_set_by_url().                                             *)

\* A value of the table counts if it is there and not blank
Given(tab, name, otherwise) ==
    IF <<name>> \in DOMAIN tab /\ tab[<<name>>] # Nothing THEN tab[<<name>>] ELSE otherwise

\* do_connect() sets the UID and PWD of the table over those of the URL,
\* where they have a character
Finish(d) ==
    /\ step' = "done"
    /\ drda' = [d EXCEPT !.user = Given(params, "UID", @), !.passwd = Given(params, "PWD", @)]

\* "user:password@" or "user.password@": the password is after the first ":",
\* or after the first "." if there is no ":"
Password(cred) == IF Has(cred, ":") THEN After(cred, ":") ELSE After(cred, ".")
HasPassword(cred) == Has(cred, ":") \/ Has(cred, ".")
User(cred) == IF Has(cred, ":") THEN Before(cred, ":") ELSE Before(cred, ".")

Port(host) == IF Has(host, ":") THEN After(host, ":") ELSE <<"446">>

(* Everything up to the database.  What the terminal is asked for is       *)
(* "typed"; the user of a URL without "@" is the local one.  The options   *)
(* are separated by ";", or by ":" where there is no ";".                  *)
SetByUrl ==
    LET s == IF Has(rest, "://") THEN After(rest, "://") ELSE rest
        cred == Before(s, "@")
        place == IF Has(s, "@") THEN After(s, "@") ELSE s
        host == Before(place, "/")
        base == After(place, "/")
        by == IF Has(base, ";") THEN ";" ELSE ":"
        user == IF ~Has(s, "@") THEN <<"local">> ELSE User(cred)
        d == [drda EXCEPT !.user = user,
                !.passwd = IF Has(s, "@") /\ HasPassword(cred) THEN Password(cred) ELSE @]
        asks == ~(Has(s, "@") /\ HasPassword(cred))
        e == [d EXCEPT !.server = Before(host, ":"), !.port = Port(host),
                !.passwd = IF asks THEN <<"typed">> ELSE @, !.database = Before(base, by)]
    IN
    /\ step = "url"
    /\ sep' = by
    /\ IF Has(rest, "://") /\ Before(rest, "://") # <<"drda">>
       THEN Finish(drda) /\ UNCHANGED rest
       ELSE IF ~Has(place, "/") THEN Finish(d) /\ UNCHANGED rest
       ELSE IF ~Has(base, by) THEN Finish(e) /\ UNCHANGED rest
       ELSE /\ drda' = e
            /\ rest' = After(base, by)
            /\ step' = "option"
    /\ UNCHANGED <<file, params, written>>

\* mutant: an option that is not known ends the scan
StopAtUnknown(k) == Has(k, "=") /\ Before(k, "=") \in OptionNames

\* A malformed option returns 0: the scan stays before it, and ends there
Advances(k) == Has(k, "=")

\* drda_set_by_keyvalue()
SetByKeyvalue(d, k) ==
    IF ~Has(k, "=") \/ Before(k, "=") \notin OptionNames THEN d
    ELSE [d EXCEPT !.options = Insert(@, Before(k, "="), After(k, "="))]

SetOption ==
    LET k == Before(rest, sep) IN
    /\ step = "option"
    /\ IF Has(rest, sep) /\ Advances(k)
       THEN /\ drda' = SetByKeyvalue(drda, k)
            /\ rest' = After(rest, sep)
            /\ UNCHANGED step
       ELSE /\ Finish(SetByKeyvalue(drda, k))
            /\ UNCHANGED rest
    /\ UNCHANGED <<file, sep, params, written>>

-----------------------------------------------------------------------------
TInit ==
    /\ step = "idle" /\ file = <<>> /\ rest = <<>> /\ sep = ";"
    /\ params = <<>> /\ drda = NewDrda
    /\ written = [file |-> <<>>, string |-> Nothing, url |-> Nothing]

\* SQLConnect(), and SQLDriverConnect() if there is a connect string
Configure(u, f, str) ==
    /\ step = "idle"
    /\ step' = "find"
    /\ file' = f
    /\ written' = [file |-> f, string |-> str, url |-> u]
    /\ UNCHANGED <<rest, sep, params, drda>>

\* The utilities take the URL from the command line
Tester(u) ==
    /\ step = "idle"
    /\ step' = "url"
    /\ rest' = Text(u)
    /\ written' = [written EXCEPT !.url = u]
    /\ UNCHANGED <<file, sep, params, drda>>

TNext ==
    \/ \E u \in Urls : Tester(u)
    \/ /\ step = "idle"
       /\ \E u \in Urls : \E f \in FilesWith(Text(u)), str \in Strings \cup {Nothing} :
             Configure(u, f, str)
    \/ FindSection \/ EndOfSection \/ GetNextItem \/ SetItem \/ SetByUrl \/ SetOption

TextSpec == TInit /\ [][TNext]_tvars

-----------------------------------------------------------------------------
TextTypeOK ==
    /\ step \in {"idle", "find", "item", "string", "url", "option", "done"}
    /\ sep \in {";", ":"}
    /\ DOMAIN drda = DOMAIN NewDrda /\ DOMAIN drda.options \subseteq OptionNames
    /\ Len(file) <= Len(written.file)

(* What the texts say.                                                     *)

Once(t, c) == Has(t, c) /\ ~Has(After(t, c), c)
NameOf(t) == NoTrailing(Before(t, "="), " ", 1)
ValueOf(t) == NoLeading(After(t, "="), " ")

\* Of a sequence of items, the value of a name is that of the last to give it
Gives(items, n) == \E i \in DOMAIN items : NameOf(items[i]) = n
LastValue(items, n) ==
    ValueOf(items[CHOOSE i \in DOMAIN items :
        NameOf(items[i]) = n /\ \A j \in (i + 1)..Len(items) : NameOf(items[j]) # n])

\* The lines of the section, up to the heading of the next
IsHeading(l) == l.chars # <<>> /\ l.chars[1] = "["
IsHeader(l) == l.newline /\ l.chars = Header
Section(f) ==
    LET from == CHOOSE h \in DOMAIN f : IsHeader(f[h]) /\ \A i \in 1..(h - 1) : ~IsHeader(f[i])
        to == CHOOSE e \in from..Len(f) :
                  /\ \A i \in (from + 1)..e : ~IsHeading(f[i])
                  /\ e < Len(f) => IsHeading(f[e + 1])
    IN  IF \E h \in DOMAIN f : IsHeader(f[h]) THEN SubSeq(f, from + 1, to) ELSE <<>>
ItemsOf(f) == [k \in DOMAIN Section(f) |-> Section(f)[k].chars]

IsItem(t) == Once(t, "=") /\ t[1] # "=" /\ t[Len(t)] # "="

(* Neither comments nor blank lines within the section, in a line one "="  *)
(* after a name, and a newline at its end; none in the headings.           *)
Clean(f) ==
    /\ \A k \in DOMAIN Section(f) :
          LET l == Section(f)[k] IN l.newline /\ IsItem(l.chars) /\ l.chars[1] # " "
    /\ \A i \in DOMAIN f : IsHeading(f[i]) => ~Has(f[i].chars, "=")

\* The URL that a clean section gives is the one the file was written for
ASSUME UrlOfFiles ==
    \A u \in Urls : \A f \in FilesWith(Text(u)) :
        LET items == ItemsOf(f) IN
        Clean(f) /\ Gives(items, <<"URL">>) => LastValue(items, <<"URL">>) = Text(u)

\* The parts of a connect string, between semicolons, by where they start
Starts(str) == {1} \cup {i + 1 : i \in {j \in DOMAIN str : str[j] = ";"}}
Part(str, i) == Before(SubSeq(str, i, Len(str)), ";")

Configured == written.file # <<>> /\ step \notin {"idle", "find", "item"} /\ Clean(written.file)

(* The table holds the items of the data source's section, and nothing of  *)
(* another: the value each name was given last, without the blanks around  *)
(* the "=".                                                                *)
ItemsOfSection ==
    Configured /\ written.string = Nothing =>
        LET items == ItemsOf(written.file) IN
        /\ DOMAIN params = {NameOf(items[i]) : i \in DOMAIN items}
        /\ \A n \in DOMAIN params : params[n] = LastValue(items, n)

(* What the connect string gives, where each of its parts has one "=",     *)
(* takes the place of what the section says, a later part that of an       *)
(* earlier one, and the rest stays; all of it if the section was found.    *)
StringOverrides ==
    Configured /\ written.string # Nothing /\ step = "done" =>
        LET items == ItemsOf(written.file)
            str == written.string
            given(n) == {i \in Starts(str) : NameOf(Part(str, i)) = n}
        IN
        (\A i \in Starts(str) : IsItem(Part(str, i))) =>
            /\ params # <<>> =>
                  DOMAIN params = {NameOf(items[k]) : k \in DOMAIN items}
                                  \cup {NameOf(Part(str, i)) : i \in Starts(str)}
            /\ \A n \in DOMAIN params :
                  IF given(n) = {} THEN params[n] = LastValue(items, n)
                  ELSE \A i \in given(n) :
                          (\A j \in given(n) : j <= i) => params[n] = ValueOf(Part(str, i))

\* The options before the first malformed one
Accepted(u) ==
    LET bad == {i \in DOMAIN u.options : ~Has(u.options[i], "=")}
    IN  SubSeq(u.options, 1, IF bad = {} THEN Len(u.options)
                             ELSE (CHOOSE i \in bad : \A j \in bad : i <= j) - 1)
Else(given, otherwise) == IF given = Nothing THEN otherwise ELSE given

(* A drda URL is read as it is written, with the local user, a password    *)
(* from the terminal and port 446 where it leaves them out, UID and PWD of *)
(* the data source over its own unless they are blank, and the known       *)
(* options up to the first malformed one; options reach it only if no      *)
(* odbc.ini line cuts them off.                                            *)
UrlRead ==
    LET u == written.url
        options == Accepted(u)
    IN
    /\ step = "done" /\ u # Nothing /\ written.string = Nothing
    /\ u.scheme \in {Nothing, <<"drda">>}
    /\ written.file = <<>> \/ (Clean(written.file) /\ <<"URL">> \in DOMAIN params)
    =>
        /\ drda.user = Given(params, "UID", Else(u.user, <<"local">>))
        /\ drda.passwd = Given(params, "PWD",
                 IF u.user = Nothing THEN <<"typed">> ELSE Else(u.passwd, <<"typed">>))
        /\ drda.server = u.server
        /\ drda.port = Else(u.port, <<"446">>)
        /\ drda.database = u.database
        /\ DOMAIN drda.options = {NameOf(options[i]) : i \in DOMAIN options} \cap OptionNames
        /\ \A n \in DOMAIN drda.options : drda.options[n] = LastValue(options, n)

=============================================================================
