\* Two speculative trials on a saved baseline; one mishap: a signal, a failing ssh call or a trouble of a node.
CONSTANTS
    n1 = n1
    n2 = n2
    Host = {n1, n2}
    HostOrder <- Pair
    Arms <- Speculative
    Resumed = TRUE
    MaxMishaps = 1
    Crashes = FALSE
    LongDeadline = TRUE
    MaxPid = 1
    MaxId = 3
    MaxCampaigns = 1
    GuardFaults = {"sigkill"}
    Flaky = {1}
SPECIFICATION CampaignSpec
INVARIANTS CleanupStops BlindTrialIsNotMeasured MeasuredPairIsTheTrial CompleteServesWinner ContainersFollowGuards DeadLeavesGuards
CHECK_DEADLOCK FALSE
