\* Every packet type, sent twice, over every kind of link, whole or in pieces.
SPECIFICATION Spec
CONSTANTS
    FileEntryMaxCnt = 2
    LoggedInUserMaxCnt = 2
    Types <- AllTypes
    Builds = {"raw", "xdr"}
    Hosts <- AnyOrder
    Links = {"request", "response", "task"}
    Arrivals = {"packet", "send", "byte"}
    MaxSends = 2
    SendBuffer = 5
INVARIANTS LayoutsAgree Faithful ResentAlternate InStep
PROPERTY Delivery
\* The system stops when both ends are done.
CHECK_DEADLOCK FALSE
