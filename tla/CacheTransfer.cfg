\* Any leftover receipts; the alarm may strike at any point.
CONSTANTS
    Kernels = 2
    MaxPolls = 2
    Leftovers <- AnyLeftover
    Alarmed = TRUE
SPECIFICATION FairSpec
INVARIANTS ExecMeansValidated CopiesWhatItHashed NoProbeLeft
PROPERTIES PreparationEnds
CHECK_DEADLOCK FALSE
