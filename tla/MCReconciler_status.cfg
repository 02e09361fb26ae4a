CONSTANTS
    Names = {n1}
    Nil = Nil
    Pods = {p1, p2}
    NSteps = 2
    GCLead = 2
    Readings = {0}
    Resyncs = TRUE
    Specs <- OneSpec
    Keys <- MCKeys
    Workloads <- MCWorkloads
    Watched <- MCKeys
    CreateOnly <- MCCreateOnly
    Budget <- StatusBudget
    Target <- MCTarget
    Desired <- MCDesired
    Managed <- MCManaged
    Contents <- MCContents
    Admits <- MCAdmits
    Release <- MCRelease
    Drifts <- MCDrifts
SPECIFICATION FairSpec
PROPERTIES StatusSettles Converges
CHECK_DEADLOCK FALSE
