CONSTANTS
    MaxPods = 2
    MaxExits = 2
    Nil = Nil
    Configs = {"cm"}
    Jobs = {"job"}
    Services = {"svc"}
    CustomCM = "cm"
    Scripts = {"s1", "s2"}
    Default = "default"
    JobSpecs <- MCJobSpecs
    Before <- MCBefore
    Births <- MCBirths
    Budget = 3
    Cost <- MCCost
    GCLead = 2
SPECIFICATION FairSpec
INVARIANTS OneAtWork GathersOnce
PROPERTIES ControllerStable Serving Provided Gathers
CHECK_DEADLOCK FALSE
