\* A preparation, a campaign, an edit, another preparation, a campaign that resumes.
CONSTANTS
    Depths <- Trials
    Speeds <- Rates
    MaxFormats = 1
    Edited <- Carries
    Version = {1, 2}
    Command <- SameCommand
    MaxOps = 5
    MaxFaults = 2
SPECIFICATION RecipeSpec
INVARIANTS PairIsAlike MeasuredAlike ServedAsMeasured WinnerIsBest MarkerIsHonest
CHECK_DEADLOCK FALSE
