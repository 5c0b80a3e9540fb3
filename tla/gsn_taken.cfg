SPECIFICATION Spec
CONSTANTS
    a1 = a1
    a2 = a2
    w1 = w1
    w2 = w2
    c1 = c1
    c2 = c2
    t1 = t1
    Accounts <- MCAccounts1
    Workers <- MCWorkers
    WorkerAt <- MCWorkerAt
    Relays <- MCRelays1
    AppTxs <- MCAppTxs
    None = None
    AppAwaits = TRUE
    NetworkFailures = FALSE
    MaxCalls = 1
CHECK_DEADLOCK FALSE
PROPERTY TakenIsAwaited
