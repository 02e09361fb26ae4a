CONSTANTS
    Names = {n1, n2}
    Nil = Nil
    Pods = {}
    GCLead = 2
    Resyncs = FALSE
    ManifestReadable = TRUE
    Specs <- TwoSpecs
    Budget <- TwoBudget
SPECIFICATION Spec
PROPERTIES NoOverwrite
CHECK_DEADLOCK FALSE
