SPECIFICATION Spec
CONSTANTS
    Keys = {k1}
    Vms = {v1, v2}
    Frames = {c1, c2, c3}
    MaxFlights = 3
    MaxDepth = 1
    NoFlight = NoFlight
    Idle = Idle
SYMMETRY Symmetry
INVARIANTS LeadCountsExact FlightsSound
PROPERTY LeadersKeepOff
