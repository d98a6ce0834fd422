\* One task connection, two port updates, three commands, every schedule.
SPECIFICATION Spec
CONSTANTS
    K = 1
    MaxPort = 2
    MaxCmds = 3
INVARIANTS NoStrayAnswer SessionSurvives PortFollowed
PROPERTY AnswerOrEnd
\* A client ends after MaxCmds commands, or waits on a connection nobody reads.
CHECK_DEADLOCK FALSE
