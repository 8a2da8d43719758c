\* The smallest client that shows it: one call, and nothing from the peer.
CONSTANTS
    c1 = c1
    Calls = {c1}
    PeerCalls = {}
    ParamlessCalls = {}
    Notes = {}
    ReplyIds = {1}
SPECIFICATION LiveSpec
CHECK_DEADLOCK FALSE
PROPERTIES
    DownClosesInput
