SPECIFICATION Spec
CONSTANTS
    Stations = {0, 2, 3}
    N_MAX_MASTER = 3
    N_MAX_INFO_FRAMES = 2
    N_POLL = 3
    N_RETRY_TOKEN = 1
    T_SLOT = 1
    T_USAGE_TIMEOUT = 2
    T_USE_TOKEN = 3
    T_REPLY_DELAY = 4
    T_REPLY_TIMEOUT = 4
    T_NO_TOKEN = 6
    MAX_EVENTS = 2
    MAX_SENDS = 2
    MAX_FAULTS = 1
    MAX_STOPS = 1
    Traffic <- MCTraffic
INVARIANTS TypeOK SingleToken
PROPERTIES TokenComes RingForms
