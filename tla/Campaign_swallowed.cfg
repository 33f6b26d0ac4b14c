\* A signal is swallowed and the campaign goes on.
CONSTANTS
    n1 = n1
    n2 = n2
    Host = {n1, n2}
    HostOrder <- Pair
    Arms <- TwoArms
    Resumed = FALSE
    MaxMishaps = 1
    Crashes = FALSE
    LongDeadline = TRUE
    MaxPid = 1
    MaxId = 3
    MaxCampaigns = 1
    GuardFaults = {}
    Flaky = {}
SPECIFICATION CampaignSpec
INVARIANTS SignalEndsCampaign
CHECK_DEADLOCK FALSE
