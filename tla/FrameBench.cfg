SPECIFICATION Spec
CONSTANTS
    M = 16
    LAYERS = {"axis", "eth", "ip", "udp", "arp",
              "gmii", "gmii_mii", "mii", "xgmii32", "xgmii64",
              "serdes", "baser"}
    RESET_LAYERS = {"axis", "arp", "gmii", "xgmii64"}
    MAX_FRAMES = 3
    MAX_RESETS = 1
    PAYLOADS = {1, 20}
    PADS = {3}
    PHY_PAYLOADS = {1, 2}
    LANE_PAYLOADS = {1, 3, 4, 6, 8}
INVARIANTS
    NoAssertionFails
    Delivered
    ChecksumsHold
    IdleMeansSent
    GapKept
PROPERTIES
    FrameArrives
