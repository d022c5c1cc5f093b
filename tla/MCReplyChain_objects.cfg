\* A chained object at the end of a read, two commands.
SPECIFICATION Spec
CONSTANTS
    Formats <- MCFormats
    MaxCmds = 2
    MaxChain = 2
INVARIANT OwnReplyWithChainedObjects
CHECK_DEADLOCK FALSE
