SPECIFICATION Spec
CONSTANTS
    BW = 2
    PAGE = 8
    MAX_BURST = 3
    SIZE = 16
    IDS = 2
    BUILDS = {"axi", "axil"}
    OVERLAPS = {"axi"}
    ADDRS = {2, 7}
    LENS = {1, 4}
    SIZES = {1, 2}
    BURSTS = {"INCR", "WRAP", "FIXED"}
    MAX_OPS = 2
INVARIANTS
    NoAssertionFails
    WriteLands
    ReadReturns
    IdleMeansDone
PROPERTIES
    EventuallyIdle
