\* The controller may die; the guards do not fail.
CONSTANTS
    n1 = n1
    n2 = n2
    Host = {n1, n2}
    HostOrder <- Pair
    Arms <- TwoArms
    Resumed = FALSE
    MaxMishaps = 0
    Crashes = TRUE
    LongDeadline = TRUE
    MaxPid = 1
    MaxId = 3
    MaxCampaigns = 1
    GuardFaults = {}
    Flaky = {}
SPECIFICATION FairCampaign
PROPERTIES CampaignEnds CrashedPairIsStopped ArmingIsRespected
CHECK_DEADLOCK FALSE
