\* Three requests, one compiled, for one slot and two box ids, which wrap all the
\* time, under the fairness of the code.
CONSTANTS
    j1 = j1
    j2 = j2
    j3 = j3
    Jobs = {j1, j2, j3}
    Compiled = {j1}
    MaxConcurrentJobs = 1
    MAX_BOX_ID = 2
SPECIFICATION FairSpec
INVARIANTS
    TypeOK
    NoIdleSlotWhileWaiting
    NoWaiterForgotten
    NoSandboxLeak
PROPERTIES
    NoBarging
    SlotsAreHandedOver
    EveryRequestAnswered
    EverythingReclaimed
CHECK_DEADLOCK FALSE
