CONSTANTS
    MaxMessages = 3
    MaxStops = 1
    MaxAsks = 1
    MaxOutput = 1

SPECIFICATION StreamSpec

INVARIANT StreamTypeOK
INVARIANT AskIsAnswerable
INVARIANT AnsweredOnce
 

CHECK_DEADLOCK FALSE
