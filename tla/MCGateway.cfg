\* Two connections, limits of 1, requests enough to overrun both, and an agent
\* that may never answer.
CONSTANTS
    None = None
    u1 = u1
    u2 = u2
    Users = {u1, u2}
    AdminApiKey = "admin"
    IgnoreExp = FALSE
    PublicKeySet = TRUE
    Slots = {"s1", "s2"}
    Incoming <- MCIncoming
    UserLimit = 1
    IpLimit = 2
SPECIFICATION FairSpec
INVARIANTS
    OwnIdentity
    OneLogin
    UserLimited
    ProbesReachAssistant
PROPERTY EveryRequestAnswered
