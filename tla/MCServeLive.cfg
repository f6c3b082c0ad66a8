SPECIFICATION FairServeSpec
CONSTANTS
    Vms = {v1}
    Runs = {r1, r2}
    Kinds = {"request", "cron"}
    Timeouts = {1}
    Texts = {x1}
    Other = Other
    Interrupted = Interrupted
    Never = Never
    NoText = NoText
    NoVm = NoVm
    MaxNow = 1
    Jobs = {j1}
    Overlap = {}
    Conn = Conn
    NoTask = NoTask
PROPERTIES JobRunsAgain QueueMoves
CHECK_DEADLOCK FALSE
