SPECIFICATION HttpSpec
CONSTANTS
    c1 = c1
    c2 = c2
    uName = uName
    uPrivate = uPrivate
    uOther = uOther
    none = none
    ann = ann
    bob = bob
    Nil = Nil
    Never = Never
    NoUser = none
    Calls = {c1, c2}
    Urls <- MCUrls
    Users <- MCUsers
    Keys <- MCKeys
    Hosts <- MCHosts
    HostOf <- MCHostOf
    Ports <- MCPorts
    PortOf <- MCPortOf
    Wild = Wild
    Literals <- MCLiterals
    Addresses <- MCAddresses
    Private <- MCPrivate
    AddressOf <- MCAddressOf
    net_allow <- MCAllow
    allow_private_net = FALSE
    max_body = 1
    MAX_REDIRECTS = 2
    Ttls = {1}
    Sizes = {1, 2}
    max_entries = 2
    max_bytes = 1
    SWEEP_EVERY = 2
    MaxNow = 2
INVARIANTS CacheExact HitIsOwn EveryHopVetted
PROPERTIES OldestGoFirst
SYMMETRY MCSymmetry
CHECK_DEADLOCK FALSE
