\* The same without faults, under fairness.
CONSTANTS
    u1 = u1
    r1 = r1
    p1 = p1
    p2 = p2
    t1 = t1
    t2 = t2
    Users = {u1}
    Replicas = {r1}
    Limit = 1
    MaxRetries = 1
    MaxTokens = 2
    Places = {p1, p2}
    ToolCalls = {t1}
SPECIFICATION FairFaultFreeSpec
INVARIANTS
    CounterWillExpire
PROPERTIES
    LockoutEnds
