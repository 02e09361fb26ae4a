CONSTANTS
    Names = {n1}
    Nil = Nil
    Pods = {p1}
    GCLead = 2
    Resyncs = FALSE
    ManifestReadable = TRUE
    Specs <- OneSpec
    Budget <- PodBudget
SPECIFICATION Spec
INVARIANTS StatusFollowsPods
CHECK_DEADLOCK FALSE
