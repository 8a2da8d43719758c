\* One call of the peer, without params.
CONSTANTS
    p1 = p1
    Calls = {}
    PeerCalls = {p1}
    ParamlessCalls = {p1}
    Notes = {}
    ReplyIds = {}
SPECIFICATION Spec
CHECK_DEADLOCK FALSE
INVARIANTS
    NoPeerCallIgnored
