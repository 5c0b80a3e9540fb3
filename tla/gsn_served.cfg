SPECIFICATION FairSpec
CONSTANTS
    a1 = a1
    a2 = a2
    w1 = w1
    w2 = w2
    c1 = c1
    c2 = c2
    t1 = t1
    Accounts <- MCAccounts2
    Workers <- MCWorkers
    WorkerAt <- MCWorkerAt
    Relays <- MCRelays1
    AppTxs <- MCAppTxs
    None = None
    AppAwaits = TRUE
    NetworkFailures = TRUE
    MaxCalls = 2
CHECK_DEADLOCK FALSE
INVARIANTS OneServerAnswer
PROPERTY RelaysSettle
