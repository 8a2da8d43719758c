\* One client, whose peer sends one notification.
CONSTANTS
    c1 = c1
    Clients = {c1}
    MaxPanics = 1
    MaxForeach = 0
SPECIFICATION Spec
CHECK_DEADLOCK FALSE
INVARIANTS
    NeverAborts
