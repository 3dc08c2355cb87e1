SPECIFICATION Spec
CONSTANTS
    SEQ = 5
    Lengths = {5, 6}
    BIG = 3
    Senders = {"xmodem_snd", "other"}
    SND_RETRY = 3
    RCV_RETRY_INIT = 4
    RCV_RETRY = 3
    Faults = {"damage", "cut", "lose", "garble", "drop", "late", "device"}
    MAX_FAULTS = 3
CHECK_DEADLOCK FALSE
INVARIANTS TypeOK Prefix AckedIsReceived
PROPERTIES BothEnd
