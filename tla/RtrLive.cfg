SPECIFICATION FairSpec
CONSTANTS
    MAX_QPS = 2
    PSN_MOD = 16
    SLOTS = 4
    STALL_MARGIN = 0
    COUNTER_MOD = 64
    timeout_period = 16
    retry_count = 1
    rnr_retry_count = 1
    RNR_TIMER = 6
    HDR_LATENCY = 1
    DESC_DEPTH = 2
    ENTRY_DEPTH = 2
    HDR_SLOTS = 4
    ActiveQPs = {0}
    ClosableQPs = {}
    StaleProducer = FALSE
    OpenPsn = 14
    MaxPkts = 3
    Window = 16
    MaxAcks = 1
    Losses = {"packet", "response"}
    Responses = {"ACK"}
    ReadyInputs = {TRUE}
    CloseReadyInputs = {TRUE}
    DMA_OUTSTANDING = 1
    DmaStatus = {"OK"}
    DmaDelays = {FALSE}
PROPERTIES
    Settled
    StallReleased
