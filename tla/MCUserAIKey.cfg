\* Any three of two stores, a delete and a chat of one user and a store and a
\* look-up of another in flight at once, again and again, with every failure.
CONSTANTS
    u1 = u1
    u2 = u2
    k1 = k1
    k2 = k2
    None = None
    Users = {u1, u2}
    Keys = {k1, k2}
    Requests <- MCRequests
    MaxInFlight = 3
SPECIFICATION Spec
CONSTRAINT InFlightBound
INVARIANT TypeOK
PROPERTY RoutesAreAKeyStore
