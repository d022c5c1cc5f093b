----------------------------- MODULE MCConnect ------------------------------
(* Connect for TLC: two handles and an odbc.ini with one section of each   *)
(* kind that drda_set_by_url() and do_connect() tell apart.                *)
EXTENDS Connect, TLC

CONSTANTS c1, c2, db1, db2

MCDbcs == {c1, c2}
MCCreds == {"ann", "bob"}
MCTargets == {db1, db2}
MCNames == {"full", "inurl", "asked", "nodb", "other", "nourl", "unknown"}

U(ok, cred, target) == [scheme |-> ok, cred |-> cred, secret |-> cred # None, target |-> target]
S(url, cred) == [hasurl |-> TRUE, url |-> url, uid |-> cred, pwd |-> cred]

MCIni ==
    "full"  :> S(U(TRUE, None, db1), "ann") @@
    "inurl" :> S(U(TRUE, "bob", db2), None) @@
    "asked" :> S([U(TRUE, "bob", db1) EXCEPT !.secret = FALSE], None) @@
    "nodb"  :> S(U(TRUE, "bob", None), None) @@
    "other" :> S(U(FALSE, None, db1), "ann") @@
    "nourl" :> [S(U(TRUE, None, None), "bob") EXCEPT !.hasurl = FALSE]

\* The two handles play the same part
MCSymmetry == Permutations(MCDbcs)
=============================================================================
