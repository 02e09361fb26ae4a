CONSTANTS
    Names = {n1}
    Nil = Nil
    Pods = {}
    NSteps = 2
    GCLead = 2
    Readings = {0}
    Resyncs = FALSE
    Specs <- MCSpecs
    Keys <- MCKeys
    Workloads <- MCWorkloads
    Watched <- MCKeys
    CreateOnly <- MCCreateOnly
    Budget <- RecreateBudget
    Target <- MCTarget
    Desired <- MCDesired
    Managed <- MCManaged
    Contents <- MCContents
    Admits <- MCAdmits
    Release <- MCRelease
    Drifts <- MCDrifts
SPECIFICATION FairSpec
INVARIANTS NoLostWakeup
PROPERTIES Converges Settles
CHECK_DEADLOCK FALSE
