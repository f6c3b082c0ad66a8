SPECIFICATION LiveSpec
CONSTANTS
    k1 = k1
    k2 = k2
    v1 = v1
    v2 = v2
    c1 = c1
    c2 = c2
    c3 = c3
    c4 = c4
    Keys = {k1, k2}
    Vms = {v1, v2}
    Frames = {c1, c2, c3, c4}
    MaxFlights = 4
    MaxDepth = 1
    NoFlight = NoFlight
    Idle = Idle
PROPERTY WaitersWake
CHECK_DEADLOCK FALSE
