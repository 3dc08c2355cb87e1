SPECIFICATION Spec
CONSTANTS
    SEQ = 5
    Lengths = {5, 6}
    BIG = 3
    Senders = {"xmodem_snd"}
    SND_RETRY = 3
    RCV_RETRY_INIT = 4
    RCV_RETRY = 3
    Faults = {"damage"}
    MAX_FAULTS = 1
CHECK_DEADLOCK FALSE
INVARIANT EotIsTheEnd
