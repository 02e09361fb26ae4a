CONSTANTS
    Names = {n1}
    Nil = Nil
    Pods = {}
    GCLead = 2
    Resyncs = FALSE
    ManifestReadable = TRUE
    Specs <- OneSpec
    StorageClasses <- Classes
    Budget <- ClaimBudget
SPECIFICATION Spec
INVARIANTS DefaultClassUsed
CHECK_DEADLOCK FALSE
