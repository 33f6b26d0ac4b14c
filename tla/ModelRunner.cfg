\* Pools of two, two drafts: a rejection reaches back into the ring.
CONSTANTS
    r1 = r1
    r2 = r2
    s1 = s1
    s2 = s2
    b1 = b1
    b2 = b2
    Req <- Two
    Prompt <- Prompts
    Slot = {s1, s2}
    Block = {b1, b2}
    Kpool = 2
    TopK = 4
    Depth = 2
    MaxLen = 6
    Cuts = {1, 4}
    Preempts = 1
SPECIFICATION Spec
SYMMETRY Swap
INVARIANTS RunnerTypeOK CacheIsTrue RowsAttendOwnContext HostViewIsSafe ServesOnOneCache
CHECK_DEADLOCK FALSE
