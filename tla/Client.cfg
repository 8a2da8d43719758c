\* Two calls in flight, a call of the peer and another one left unhandled for
\* want of params, one notification, and an id that nobody gave out.
CONSTANTS
    c1 = c1
    c2 = c2
    p1 = p1
    p2 = p2
    n1 = n1
    Calls = {c1, c2}
    PeerCalls = {p1, p2}
    ParamlessCalls = {p2}
    Notes = {n1}
    ReplyIds = {1, 2, 3}
SPECIFICATION LiveSpec
CHECK_DEADLOCK FALSE
INVARIANTS
    TypeOK
    NoCallLost
    NoDoubleReturn
    OneReadLoop
PROPERTIES
    DownIsFinal
    KeepsPromise
    EveryCallEnds
    CloseEndsReadLoop
    DownIsSignalled
