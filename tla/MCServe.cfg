SPECIFICATION ServeSpec
CONSTANTS
    Vms = {v1}
    Runs = {r1, r2}
    Kinds = {"request", "cron"}
    Timeouts = {1}
    Texts = {x1}
    Other = Other
    Interrupted = Interrupted
    Never = Never
    NoText = NoText
    NoVm = NoVm
    MaxNow = 1
    Jobs = {j1, j2}
    Overlap = {j2}
    Conn = Conn
    NoTask = NoTask
INVARIANTS JobsSound DrainWaits
SYMMETRY Symmetry
CHECK_DEADLOCK FALSE
