\* Two processes on the same two directories; deadlines fall anywhere.
CONSTANTS
    Deadline = 3
    Limit = 2
    MaxTime = 4
    Preemptible = FALSE
    Arms = 2
    Labels = 1
    MaxRuns = 2
    MaxText = 2
SPECIFICATION StreamSpec
INVARIANTS DeadlineIsKept RequestsAreBounded NeverEarly AcceptedIsOneRequest MeasuredIsAccepted
CHECK_DEADLOCK FALSE
