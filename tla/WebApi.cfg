CONSTANTS
    main = main  lax = lax  unknown = unknown  c1 = c1  c2 = c2
    Clients = {c1, c2}
    CallsOf <- Calls
    Clusters <- SomeClusters
    ClusterNames = {main, lax, unknown}
    NoAddress = NoAddress
    MaxCalls = 2
SPECIFICATION WebSpec
INVARIANTS SuccessIsDone DoneIsSuccess UnvalidatedOnlyOnRequest
CHECK_DEADLOCK FALSE
