\* One node, two guards in turn, three containers; the first guard may fail.
CONSTANTS
    Host = {n1}
    MaxPid = 2
    MaxId = 3
    GuardFaults = {"docker", "sigkill", "stall"}
    Flaky = {1}
SPECIFICATION FairSpec
INVARIANTS TriggeredMeansStopped
PROPERTIES ForeignUntouched VerdictIsFinal KeepsLease GuardEnds PressureIsAnswered
CHECK_DEADLOCK FALSE
