SPECIFICATION Spec
CONSTANTS
    Nil = Nil
    Null = Null
    NoRow = NoRow
    Never = Never
    Real = Real
    b1 = b1
    Blobs = {b1}
    MinNum <- PureMin
    MaxNum = 1
    MaxTime = 3
    IMax = 3
    Texts = {"a"}
    Methods = {"GET", "POST"}
    Nothing = Nothing
    Raises = Raises
    Panic = Panic
    Bytes <- PureBytes
    Requests <- PureRequests
    Cases <- PureCases
    None = None
    MAX_DEPTH = 3
    MAX_ISSUES = 2
    MAX_SAFE_INT = 3
    MAX_INT = 4
    MAX_NEST = 2
    Patterns = {"p"}
    KeyOrder <- PureOrder
INVARIANTS
    RouteUnique
    ReplacesInOnePass
    RequestWhole
    ChecksExact
    RefusedAsListed
    ReadsBackSame
    BackendsAgree
