SPECIFICATION Spec
CONSTANTS
    NameSizes = {1, 8}
    SqlSizes = {0, 3999}
    Levels = {1, 2}
    Stems = {"QTDSQLASC", "QTDSQLX86"}
    Orders = {"QTDSQLASC", "QTDSQLX86"}
    Unset = Unset
    Answers <- MCAnswers
    MaxSessions = 2
    MaxCmds = 7
INVARIANTS
    TypeOK
    LengthsMeet
    WholeRequestSent
    ChainedIfContinued
    ReplyRecorded
    AttributesRecorded
    OnlyPointUnmarked
    ByteOrderOfServer
    IInv
CHECK_DEADLOCK FALSE
