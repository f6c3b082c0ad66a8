SPECIFICATION DbSpec
CONSTANTS
    v1 = v1
    c1 = c1
    c2 = c2
    b1 = b1
    Blobs = {b1}
    Real = Real
    Nil = Nil
    Null = Null
    NoRow = NoRow
    Never = Never
    None = None
    MinNum = 0
    MaxNum = 1
    MaxTime = 9
    Cells = {"x"}
    Vals = {"u"}
    NoVal = NoVal
    Keys = {"k"}
    Vms = {v1}
    Calls = {c1, c2}
    VmOf <- CallVms
    Ops <- MCOps
    Backends = {"sqlite", "postgres"}
    INTERVAL_MS = 1
    MAX_BUSY_RETRIES = 1
    MaxNow = 1
INVARIANTS NoSelfWait OnePool LockHasOwner
PROPERTIES UpdateAtomic TxSerial VisibleRowsStay
SYMMETRY Symmetry
CHECK_DEADLOCK FALSE
