SPECIFICATION Spec
CONSTANTS
    MAX_QPS = 2
    PSN_MOD = 64
    SLOTS = 16
    STALL_MARGIN = 6
    COUNTER_MOD = 2048
    timeout_period = 1000
    retry_count = 1
    rnr_retry_count = 1
    RNR_TIMER = 6
    HDR_LATENCY = 1
    DESC_DEPTH = 2
    ENTRY_DEPTH = 3
    HDR_SLOTS = 16
    ActiveQPs = {0}
    ClosableQPs = {}
    StaleProducer = FALSE
    OpenPsn = 0
    MaxPkts = 24
    Window = 64
    MaxAcks = 0
    Losses = {}
    Responses = {"ACK"}
    ReadyInputs = {TRUE}
    CloseReadyInputs = {TRUE}
    DMA_OUTSTANDING = 1
    DmaStatus = {"OK"}
    DmaDelays = {FALSE}
INVARIANT
    UnackedStored
