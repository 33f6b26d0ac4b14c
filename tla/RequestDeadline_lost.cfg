\* The campaign's deadline falls into a request.
CONSTANTS
    Deadline = 8
    Limit = 3
    MaxTime = 12
    Preemptible = FALSE
SPECIFICATION Spec
INVARIANTS DeadlineIsDelivered
CHECK_DEADLOCK FALSE
