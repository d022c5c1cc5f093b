\* Three commands with replies of up to two DSSs each, every split of the
\* stream into reads, and the connection lost at any point.
\* The application stops after MaxCmds commands, hence no deadlock check;
\* ServerOwes says that the two sides do not wait for each other.
SPECIFICATION Spec
CONSTANTS
    Formats <- MCFormats
    MaxCmds = 3
    MaxChain = 2
INVARIANTS TypeOK IInv OwnReply NothingLeftOver ServerOwes ResultSound
PROPERTIES CommandReturns StopAndWait
CHECK_DEADLOCK FALSE
