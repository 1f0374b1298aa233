SPECIFICATION Spec
CONSTANTS
    N_QUEUE_PAIRS = 2
    CLIENTS = {"c1", "c2"}
    MAX_COMMANDS = 3
    MAX_LOSSES = 1
    KINDS = {"WRITE", "WRITE_IMD", "SEND", "SEND_IMD"}
    PSN_MOD = 8
    PMTU = 8
    MAX_PACKETS = 4
    MAX_CAPTURE = 5
    MAX_FAULTS = 2
    STARTS = {5}
INVARIANTS
    UserKnows
    CleanMeansWhole
    IntactAccepted
PROPERTIES
    SuccessTruthful
    ScriptEnds
CHECK_DEADLOCK FALSE
