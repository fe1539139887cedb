\* Two connections, two health checks, which may use both up, two queries besides
\* the test query of the start, and both signals.
CONSTANTS
    q1 = q1
    q2 = q2
    q3 = q3
    p1 = p1
    p2 = p2
    sigint = sigint
    sigterm = sigterm
    Boot = q1
    Queries = {q1, q2, q3}
    Pings = {p1, p2}
    Signals = {sigint, sigterm}
    Max = 2
SPECIFICATION FairSpec
INVARIANTS
    OnlyFailedPingsLeak
PROPERTIES
    OneSignalWaitsForQueries
    CallersSettle
    ShutdownEnds
