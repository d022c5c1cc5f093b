\* Two handles, three attempts to connect.
\* The application may stop, or crash, hence no deadlock check.
SPECIFICATION Spec
CONSTANTS
    MaxTries = 3
    c1 = c1
    c2 = c2
    db1 = db1
    db2 = db2
    Dbcs <- MCDbcs
    Names <- MCNames
    Ini <- MCIni
    Creds <- MCCreds
    Targets <- MCTargets
INVARIANT TargetOfUrl
SYMMETRY MCSymmetry
CHECK_DEADLOCK FALSE
