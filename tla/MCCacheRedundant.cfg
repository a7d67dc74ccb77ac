SPECIFICATION Spec
CONSTANTS
    Workers = {w1, w2}
    LastOpen = 2
    Ranges <- MCRanges
    SnapshotTimes = {3}
    MaxRows = 3
    PageRows = 2
    Retries = 1
    Day = 2
    Providers = {"kraken", "freqtrade"}
    FirstClock = 2
    MaxGaps = 1
    MaxRevisions = 1
    MaxFaults = 1
    None = None
SYMMETRY Symmetry
PROPERTIES
    OnlyAbsentIsDownloaded
