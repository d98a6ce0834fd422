\* Two threads, two addresses that come back with either of two sizes.
SPECIFICATION Spec
CONSTANTS
    Threads = {t1, t2}
    Reporters = {t1}
    Addrs = {1, 2}
    Sizes = {1, 2}
    Purposes = {"p"}
    DetailSize = 1
    MaxNodes = 3
INVARIANTS BooksBalance HeldSafely ReportsRight
\* With all nodes in use and the bound reached nobody can go on.
CHECK_DEADLOCK FALSE
