SPECIFICATION Spec
CONSTANTS
    Episodes <- MCEpisodes
    OldEpisodes <- MCOld
    Horizon = 2
    Savers = {s1}
    MaxFaults = 1
    None = None
    Learners = {l1, l2}
    Cutoffs = {5}
    Times = {5, 9}
    Correct = {1, 2, 5}
    UnitWeight = 12
    MaximumDelta = 4
    MinimumSamples = 2
    FullConfidence = 4
    RecentWindow = 2
    MinimumHeldOut = 2
    MaxGeneration = 2
    MaxReviews = 3
CHECK_DEADLOCK FALSE
SYMMETRY Symmetry
INVARIANTS
    IndexedIsReadable
    ActiveIsLineal
    GenerationIsEarned
    PromotionNeverConflicts
