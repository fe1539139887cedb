\* Two runs at a time, dispatched again and again, and two packages, each published up to twice.
SPECIFICATION FairSpec
CONSTANTS
    java = java
    node = node
    r1 = r1
    r2 = r2
    Packages = {java, node}
    Runs = {r1, r2}
    MaxVersion = 2
INVARIANTS
    TypeOK
    GreenMeansSynced
PROPERTIES
    ProductionCatchesUp
