\* One node, a second downloader beside the first, two files.
CONSTANTS
    n1 = n1
    HostSeq <- One
    File = {f1, f2}
    MaxRuns = 2
SPECIFICATION FairSpec
INVARIANTS CompleteMeansGood GateMeansGood
PROPERTIES GateEnds
CHECK_DEADLOCK FALSE
