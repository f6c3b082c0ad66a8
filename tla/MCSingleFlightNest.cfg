SPECIFICATION NestSpec
CONSTANTS
    Keys = {k1, k2}
    Vms = {v1, v2}
    Frames = {c1, c2, c3, c4}
    MaxFlights = 4
    MaxDepth = 0
    NoFlight = NoFlight
    Idle = Idle
SYMMETRY Symmetry
INVARIANT WaitsSound
CHECK_DEADLOCK FALSE
