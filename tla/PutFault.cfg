\* Everything may go wrong: the in-place conversion of the default build, port
\* updates, failing calls, non-blocking sockets, files of whole blocks, and sizes
\* of IntMax + 1 and more.
SPECIFICATION FairSpec
CONSTANTS
    N = 2
    B = 5
    Sizes = {0, 5, 8}
    NameLen = 1
    Md5Len = 1
    IntMax = 7
    Byte = 4
    InPlace = TRUE
    Garbage = {5, 15}
    ToPeer = TRUE
    NonBlocking = TRUE
    PortUpdate = TRUE
    Fault = TRUE
INVARIANTS
    NoSilentCorruption
PROPERTIES
    PutEnds
