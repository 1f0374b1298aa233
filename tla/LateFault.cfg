SPECIFICATION Spec
CONSTANTS
    N_QUEUE_PAIRS = 2
    CLIENTS = {"c1", "c2"}
    CROSSING = 2
    LateFaults = TRUE
INVARIANT PoolSound
