----------------------------- MODULE MCSession ------------------------------
(* The answers of a DB2 server, and of one that refuses, for TLC.          *)
EXTENDS Session

Num(cp, n)  == [cp |-> cp, sized |-> TRUE, val |-> n]
Bad(cp, n)  == [cp |-> cp, sized |-> FALSE, val |-> n]
Txt(cp, st, m) == [cp |-> cp, sized |-> TRUE, val |-> [stem |-> st, more |-> m]]
Log(cp)     == [cp |-> cp, sized |-> TRUE, val |-> 0]
Typ(o)      == [cp |-> "TYPDEFNAM", sized |-> TRUE, val |-> o]
Mgr(f)      == [cp |-> "MGRLVLLS", sized |-> TRUE, val |-> f]

\* One object, its parameters in each order
Orderings(obj, S) ==
    LET k == Len(S)
        P == {f \in [1..k -> 1..k] : \A i, j \in 1..k : f[i] = f[j] => i = j}
    IN  {<<[obj |-> obj, params |-> [i \in 1..k |-> S[f[i]]]]>> : f \in P}
One(obj, S) == {<<[obj |-> obj, params |-> S]>>}
Refused == One(Unknown, <<>>)
NotUnderstood == One("SYNTAXRM", <<Num("SVRCOD", 2), Num("SYNERRCD", 2), Num("CODPNT", 1)>>)

MCAnswers(c, o) ==
    CASE c = "excsat" ->
            One("EXCSATRD", <<Txt("EXTNAM", o, TRUE), Mgr([agent |-> 1, rdb |-> 1]),
                              Txt("SRVNAM", o, FALSE), Txt("SRVRLSLV", o, TRUE)>>)
            \cup One("EXCSATRD", <<Mgr([agent |-> 2]), Txt("SRVCLSNM", o, FALSE)>>)
            \cup One("MGRLVLRM", <<Num("SVRCOD", 1), Mgr([secmgr |-> 2])>>)
      [] c = "accsec" -> One("ACCSECRD", <<Log("SECMEC")>>)
      [] c = "secchk" ->
            Orderings("SECCHKRM", <<Num("SVRCOD", 1), Num("SECCHKCD", 2), Txt("SRVDGN", o, TRUE)>>)
            \cup One("SECCHKRM", <<Num("SVRCOD", 2), Num("SECCHKCD", 1), Bad("SECCHKCD", 2)>>)
            \cup One("SECCHKRM", <<Txt("SRVDGN", o, FALSE)>>)
      [] c = "accrdb" ->
            Orderings("ACCRDBRM", <<Num("SVRCOD", 1), Typ(o), Log("PRDID")>>)
            \cup One("ACCRDBRM", <<Typ(o), Log("TYPDEFOVR")>>)
            \cup Refused
      [] c = "prpsqlstt" ->
            One("SQLDARD", <<>>) \cup One("SQLCARD", <<>>) \cup NotUnderstood
      [] c = "opnqry" ->
            {<<[obj |-> "OPNQRYRM", params |-> <<Num("SVRCOD", 1), Log("QRYPRCTYP"), Log("SQLCSRHLD")>>],
               [obj |-> "QRYDSC", params |-> <<>>], [obj |-> "QRYDTA", params |-> <<>>]>>}
            \cup NotUnderstood
      [] c = "cntqry" ->
            {<<[obj |-> "QRYDTA", params |-> <<>>],
               [obj |-> "ENDQRYRM", params |-> <<Num("SVRCOD", 2)>>]>>}
      [] OTHER -> One("SQLCARD", <<>>)
=============================================================================
