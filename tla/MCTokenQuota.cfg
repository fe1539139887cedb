\* One user with two requests in flight, each with two tool calls, on a
\* replica that is stopped and restarted, with every fault.
CONSTANTS
    u1 = u1
    r1 = r1
    p1 = p1
    p2 = p2
    t1 = t1
    t2 = t2
    Users = {u1}
    Replicas = {r1}
    Limit = 1
    MaxRetries = 1
    MaxTokens = 1
    Places = {p1, p2}
    ToolCalls = {t1, t2}
SPECIFICATION Spec
SYMMETRY Symmetry
INVARIANTS
    TypeOK
    OvershootBounded
