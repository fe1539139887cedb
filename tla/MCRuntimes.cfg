\* Every subset of five packages, in every order, and every environment.
CONSTANTS
    Undefined = Undefined
    Malformed = Malformed
    NaN = NaN
    Environments <- MCEnvironments
    Packages <- MCPackages
    Requests <- MCRequests
SPECIFICATION Spec
INVARIANTS
    StartedWithNumbers
    NewestOfferedRuns
    MostSpecificLimit
    AcceptedJobsHaveCode
CHECK_DEADLOCK FALSE
