---------------------------- MODULE MCAlgorithms ----------------------------
(* The decoder, the query text and the texts of a connection for TLC: they *)
(* share nothing, and each behaviour is one of theirs.                     *)
EXTENDS ResultRows, QueryText, ConnectText

VARIABLE part

avars == <<part, rvars, qvars, tvars>>

-----------------------------------------------------------------------------
(* Result sets.                                                            *)
Col(type, precision, scale, length) ==
    [type |-> type, precision |-> precision, scale |-> scale, length |-> length, name |-> 1]

MCShapes ==
    {<<Col("0x0f", 3, 1, 2), Col("0x05", 0, 0, 2)>>,
     <<Col("0x03", 0, 0, 4), Col("0x33", 0, 0, 3)>>,
     <<Col("0x0f", 5, 5, 3), Col("0x32", 0, 0, 2)>>,
     <<Col("0x0f", 2, 0, 2), Col("0x04", 0, 0, 2)>>,
     <<Col("0x30", 0, 0, 200), Col("0x31", 0, 0, 2)>>,
     <<Col("0x21", 0, 0, 10), Col("0x0f", 3, 0, 2)>>,
     <<Col("0x0a", 0, 0, 2), Col("0x23", 0, 0, 8)>>,
     [i \in 1..42 |-> Col("0x30", 0, 0, 2)]}

MCLeftover == {<<>>, <<"7">>}

Text2(n) == [i \in 1..n |-> "x"]
Cells(c) ==
    (IF fdoca_is_nullable(c.type) THEN {Null} ELSE {}) \cup
    CASE drda_get_cardinal_type(c.type) = "DECIMAL" -> {0, 7, 10^c.precision - 1, -7}
      [] drda_get_cardinal_type(c.type) = "SMALLINT" -> {-32768, 42}
      [] drda_get_cardinal_type(c.type) = "INT" -> {-5, 1000, 65543}
      [] fdoca_sizeof_length(c.type) > 0 -> {<<>>, Text2(c.length)}
      [] OTHER -> {Text2(c.length)}

RowOf(c) == IF Len(c) = 2 THEN {<<x, y>> : x \in Cells(c[1]), y \in Cells(c[2])}
            ELSE {[i \in DOMAIN c |-> Text2(2)]}
MCRowsOf(c) == {<<x, y>> : x \in RowOf(c), y \in RowOf(c)}

NoTable == [columns |-> <<>>, rows |-> <<>>, order |-> "QTDSQLASC"]
RowsIdle ==
    /\ table = NoTable /\ bound = {} /\ columns = <<>> /\ phase = "execute"
    /\ row = 0 /\ coln = 0 /\ pos = 0 /\ at = 0
    /\ text = <<>> /\ ind = <<>> /\ got = NoData

-----------------------------------------------------------------------------
(* Statements.                                                             *)
Single == "'"
Double == "\""
Escape(tag, inner) == <<Opening(tag), Plain(" ")>> \o inner \o <<Closing>>
Parts == {<<Plain("x")>>, <<Literal(Single, <<"}">>)>>, <<Literal(Single, <<>>)>>,
          <<Literal(Double, <<Single, "}">>)>>,
          <<Literal(Single, <<"{", "1", "2", "3", "4", "5", "6", "7", "8", "9", "0", " ">>)>>,
          Escape(<<"f", "n">>, <<Plain("a")>>), Escape(<<"d">>, <<Literal(Single, <<"}">>)>>),
          Escape(<<"o", "j">>, Escape(<<"d">>, <<Plain("b")>>))}
MCStatements ==
    {p \o q : p \in Parts, q \in Parts \cup {<<Opening(<<"f">>)>>}}
    \cup {Escape(<<"f", "n">>, <<Plain("a")>>) \o p \o q : p, q \in Parts}

-----------------------------------------------------------------------------
(* Texts of a connection.                                                  *)
Url(scheme, user, passwd, port, by, options) ==
    [scheme |-> scheme, user |-> user, passwd |-> passwd, server |-> <<"h">>,
     port |-> port, database |-> <<"b">>, options |-> options, by |-> by]
OptionLists ==
    {<<>>, <<<<"package", "=", "p">>>>,
     <<<<"collection", "=", "c">>, <<"color", "=", "c">>, <<"package", "=", "p">>>>,
     <<<<"package", "=", "p">>, <<"package">>, <<"collection", "=", "c">>>>,
     <<<<"package", "=", "p">>, <<"package", "=", "q">>>>}
Parties == {<<>>, <<"u">>}
Secrets == {<<>>, <<"w">>}
MCUrls ==
    {Url(scheme, user, passwd, port, ";", <<>>) :
        scheme \in {<<>>, <<"drda">>, <<"http">>}, user \in Parties,
        passwd \in Secrets, port \in {<<>>, <<"3506">>}}
    \cup {Url(<<"drda">>, user, <<"w">>, <<>>, by, options) :
        user \in Parties, by \in {";", ":"}, options \in OptionLists}

Line(chars) == [chars |-> chars, newline |-> TRUE]
Heading == Line(<<"[", "d", "]">>)
Other == <<Line(<<"[", "e", "]">>), Line(<<"UID", "=", "v">>), Line(<<"URL", "=", "h", "/", "z">>)>>
MCFilesWith(chars) ==
    LET url == Line(<<"URL", " ", "=", " ">> \o chars)
        uid == Line(<<"UID", " ", "=", "a">>)
        blank == <<Line(<<"UID", "=", " ">>), Line(<<"PWD", "=", " ">>)>>
    IN  {<<Heading, uid, url>>, <<Heading, url>> \o blank, <<Heading, uid, url>> \o blank,
         Other \o <<Heading, url, Line(<<"PWD", "=", "p">>)>>,
         <<Heading, url, uid, Line(<<"UID", "=", "b">>)>> \o Other,
         <<Heading, url, Line(<<>>), uid>>,
         <<Heading, url, [chars |-> <<"UID", "=", "b">>, newline |-> FALSE]>>,
         Other}
MCStrings ==
    {<<"DSN", "=", "d">>, <<"DSN", "=", "d", ";", "UID", "=", "x", ";">>,
     <<"DSN", "=", "d", ";", "UID", "=", "x", ";", "PWD", " ", "=", " ", "y">>,
     <<"DSN", "=", "d", ";", "UID", "=", "x", ";", "UID", "=", "y">>,
     <<"DSN", "=", "d", ";", "nothing", ";", "UID", "=", "a", "=", "b">>}

-----------------------------------------------------------------------------
Init ==
    /\ \/ part = "rows" /\ RInit
       \/ part \in {"query", "text"} /\ RowsIdle
    /\ QInit /\ TInit

Next ==
    /\ UNCHANGED part
    /\ \/ part = "rows" /\ RNext /\ UNCHANGED <<qvars, tvars>>
       \/ part = "query" /\ QNext /\ UNCHANGED <<rvars, tvars>>
       \/ part = "text" /\ TNext /\ UNCHANGED <<rvars, qvars>>

ASpec == Init /\ [][Next]_avars

\* The types of all three, with the bounds of their positions
TypeOK == RowsTypeOK /\ QueryTypeOK /\ TextTypeOK
=============================================================================
