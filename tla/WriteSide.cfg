SPECIFICATION Spec
CONSTANTS
    MAX_QPS = 2
    PSN_MOD = 8
    SLOTS = 4
    STALL_MARGIN = 0
    COUNTER_MOD = 64
    timeout_period = 24
    retry_count = 1
    rnr_retry_count = 1
    RNR_TIMER = 6
    HDR_LATENCY = 1
    DESC_DEPTH = 1
    ENTRY_DEPTH = 4
    HDR_SLOTS = 4
    ActiveQPs = {0, 1}
    ClosableQPs = {0}
    StaleProducer = FALSE
    OpenPsn = 6
    MaxPkts = 5
    DMA_OUTSTANDING = 2
    DmaStatus = {"OK", "ERROR"}
    DmaDelays = {TRUE, FALSE}
INVARIANTS
    Inv
    AnnouncedStored
    AnnouncedHeader
    AnnouncedInOrder
PROPERTIES
    DescriptorHeld
