SPECIFICATION FairAsyncSpec
CONSTANTS
    MaxCalls = 3
    Main = Main
    Nil = Nil
    Held = Held
    max_concurrency = 2
    MaxTasks = 2
    MaxLimit = 1
INVARIANTS ReturnsPromised NothingLeftBehind PermitsExact
PROPERTIES CallsSettle
CHECK_DEADLOCK FALSE
