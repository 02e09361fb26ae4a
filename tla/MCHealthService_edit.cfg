CONSTANTS
    Names = {n1}
    Nil = Nil
    Pods = {}
    GCLead = 2
    Resyncs = FALSE
    ManifestReadable = TRUE
    Specs <- TwoSpecs
    Budget <- EditBudget
SPECIFICATION Spec
INVARIANTS VolumeExists SpecReached
CHECK_DEADLOCK FALSE
