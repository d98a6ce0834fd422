\* The default build on a little-endian host: sending converts the object.
SPECIFICATION Spec
CONSTANTS
    Batch = 2
    MaxItems = 5
    MaxCmds = 1
    Dirs = {d1, d2}
    InPlace = TRUE
INVARIANT ListingComplete
CHECK_DEADLOCK FALSE
