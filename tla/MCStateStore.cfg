SPECIFICATION Spec
CONSTANTS
    Keys = {k1, k2, k3}
    Clients = {c1}
    MaxNum = 0
    Blob = Blob
    Nil = Nil
    Never = Never
    NoRead = NoRead
    NumSize = 1
    BlobSize = 2
    MaxEntries = 2
    MaxBytes = 3
    SweepEvery = 2
    Ttls = {1}
    Stales = {1}
    MaxVersion = 3
    MaxNow = 2
SYMMETRY Symmetry
INVARIANTS StoreSound VersionsName
PROPERTIES EvictsWhatItMust ExpiredGoFirst ImplementsRegister
