\* A put to a peer whose task connection has been moved once and is blocking,
\* with the XDR codec, which leaves the sender's object alone.
SPECIFICATION FairSpec
CONSTANTS
    N = 3
    B = 2
    Sizes = {0, 1, 3}
    NameLen = 1
    Md5Len = 1
    IntMax = 7
    Byte = 4
    InPlace = FALSE
    Garbage = {}
    ToPeer = TRUE
    NonBlocking = FALSE
    PortUpdate = FALSE
    Fault = FALSE
INVARIANTS
    PacketsUnderstood
    AllStored
PROPERTIES
    RefinesFileCopy
    RelayReturns
