SPECIFICATION Spec
CONSTANTS
    MAX_QPS = 2
    PSN_MOD = 16
    SLOTS = 4
    STALL_MARGIN = 0
    COUNTER_MOD = 64
    timeout_period = 12
    retry_count = 0
    rnr_retry_count = 1
    RNR_TIMER = 6
    HDR_LATENCY = 0
    DESC_DEPTH = 1
    ENTRY_DEPTH = 2
    HDR_SLOTS = 4
    ActiveQPs = {0}
    ClosableQPs = {}
    StaleProducer = FALSE
    OpenPsn = 14
    MaxPkts = 2
    Window = 16
    MaxAcks = 1
    Losses = {"packet", "response"}
    Responses = {"ACK", "RNR_NAK", "PSN_SEQ_NAK", "FATAL_NAK"}
    ReadyInputs = {TRUE, FALSE}
    CloseReadyInputs = {TRUE}
    DMA_OUTSTANDING = 1
    DmaStatus = {"OK"}
    DmaDelays = {FALSE}
INVARIANT
    RnrRetryBounded
