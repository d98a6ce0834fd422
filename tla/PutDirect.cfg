\* A put to the server, whose socket is non-blocking.
SPECIFICATION Spec
CONSTANTS
    N = 2
    B = 2
    Sizes = {0, 1, 3}
    NameLen = 1
    Md5Len = 1
    IntMax = 7
    Byte = 4
    InPlace = FALSE
    Garbage = {}
    ToPeer = FALSE
    NonBlocking = TRUE
    PortUpdate = FALSE
    Fault = FALSE
INVARIANTS
    AllStored
