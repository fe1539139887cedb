\* Three requests, one compiled, for two slots and two box ids; the process ends
\* at any step, and any number of times.
CONSTANTS
    j1 = j1
    j2 = j2
    j3 = j3
    Jobs = {j1, j2, j3}
    Compiled = {j1}
    MaxConcurrentJobs = 2
    MAX_BOX_ID = 2
SPECIFICATION ServerSpec
INVARIANTS
    SlotAccounting
    NeverInLeftover
PROPERTIES
    SandboxLostOnlyToReuse
