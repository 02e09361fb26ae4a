CONSTANTS
    Names = {n1}
    Nil = Nil
    Pods = {}
    NSteps = 2
    GCLead = 2
    Readings = {0}
    Resyncs = FALSE
    Specs <- MCSpecs
    Keys <- MCKeys
    Workloads <- MCWorkloads
    Watched <- MCKeys
    CreateOnly <- MCCreateOnly
    Budget <- EditBudget
    Target <- MCTarget
    Desired <- MCDesired
    Managed <- MCManaged
    Contents <- MCContents
    Admits <- MCAdmits
    Release <- MCRelease
    Drifts <- MCDrifts
SPECIFICATION Spec
INVARIANTS TypeOK PlanOrder NoLostWakeup
PROPERTIES NoRegress
CHECK_DEADLOCK FALSE
