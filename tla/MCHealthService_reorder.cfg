CONSTANTS
    Names = {n1}
    Nil = Nil
    Pods = {p1, p2}
    GCLead = 2
    Resyncs = FALSE
    ManifestReadable = TRUE
    Specs <- OneSpec
    Budget <- ReorderBudget
SPECIFICATION Spec
PROPERTIES StatusWrittenIfNeeded
CHECK_DEADLOCK FALSE
