\* One node, three campaigns in turn, up to three guards, all of which may die.
CONSTANTS
    Host = {n1}
    MaxPid = 3
    MaxId = 2
    MaxCampaigns = 3
    GuardFaults = {"sigkill"}
    Flaky = {1, 2, 3}
SPECIFICATION ArmSpec
INVARIANTS OneWatcher HeldByOwnGuard ReleasedByOwner
CHECK_DEADLOCK FALSE
