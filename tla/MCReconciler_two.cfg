CONSTANTS
    Names = {n1, n2}
    Nil = Nil
    Pods = {}
    NSteps = 2
    GCLead = 2
    Readings = {0}
    Resyncs = TRUE
    Specs <- OneSpec
    Keys <- MCKeys
    Workloads <- MCWorkloads
    Watched <- MCKeys
    CreateOnly <- MCCreateOnly
    Budget <- TwoBudget
    Target <- MCTarget
    Desired <- MCDesired
    Managed <- MCManaged
    Contents <- MCContents
    Admits <- MCAdmits
    Release <- MCRelease
    Drifts <- MCDrifts
SPECIFICATION FairSpec
PROPERTIES OwnerStable SoleConverges Implements
CHECK_DEADLOCK FALSE
