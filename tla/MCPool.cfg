SPECIFICATION Spec
CONSTANTS
    Vms = {v1, v2}
    Runs = {r1, r2, r3}
    Kinds = {"request", "cron"}
    Timeouts = {0, 1}
    Texts = {x1}
    Other = Other
    Interrupted = Interrupted
    Never = Never
    NoText = NoText
    NoVm = NoVm
    MaxNow = 1
SYMMETRY Symmetry
INVARIANTS PoolSound DeadlineIsTheRuns InterruptIsTimeout AbortIsOwn
