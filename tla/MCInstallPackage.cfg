\* Every kind of item, every failure, any number of runs of the script.
CONSTANTS
    Outputs <- AllKinds
SPECIFICATION Spec
INVARIANTS
    MarkedMeansVerified
    ExportsReachJobs
