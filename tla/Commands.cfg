\* Any two commands of a session, with lists of up to three packets.
SPECIFICATION Spec
CONSTANTS
    Batch = 2
    MaxItems = 5
    MaxCmds = 2
    Dirs = {d1, d2}
    InPlace = FALSE
INVARIANTS QuietAtPrompt ListingComplete CdArrives
PROPERTY CommandReturns
\* A session ends after MaxCmds commands, or waits for an answer nobody sends.
CHECK_DEADLOCK FALSE
