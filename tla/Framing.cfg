\* Two messages one way, so that one may leave something behind for the next,
\* and one the other way.
CONSTANTS
    MaxSize = 2
    Sizes = {2}
    MaxMessages <- MCMaxMessages
    v = v
    s = s
    Types = {v, s}
    Vardict = v
    Choosers = {"b"}
    Mortals = {"b"}
    ForeignHeaders <- MCForeignHeaders
SPECIFICATION LiveSpec
CHECK_DEADLOCK FALSE
INVARIANTS
    TypeOK
    ReceivedIsSent
    FollowsPeer
PROPERTIES
    KeepsPromise
    EveryMessageArrives
