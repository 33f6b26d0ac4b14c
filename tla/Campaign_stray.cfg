\* A signal triggers the cleanup; a launcher it left behind starts a container.
CONSTANTS
    n1 = n1
    n2 = n2
    Host = {n1, n2}
    HostOrder <- Pair
    Arms <- TwoArms
    Resumed = FALSE
    MaxMishaps = 1
    Crashes = FALSE
    LongDeadline = TRUE
    MaxPid = 1
    MaxId = 3
    MaxCampaigns = 1
    GuardFaults = {}
    Flaky = {}
SPECIFICATION CampaignSpec
INVARIANTS SignalCleansUp
CHECK_DEADLOCK FALSE
