CONSTANTS
    Names = {n1}
    Nil = Nil
    Pods = {}
    GCLead = 2
    Resyncs = TRUE
    ManifestReadable = TRUE
    Specs <- TwoSpecs
    StorageClasses <- NoClasses
    Budget <- FairBudget
SPECIFICATION FairSpec
INVARIANTS ClaimExists WatchedReached
PROPERTIES SpecSettles
CHECK_DEADLOCK FALSE
