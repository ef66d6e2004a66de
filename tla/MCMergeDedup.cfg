\* Listings as the export writes them: one region per record.
CONSTANTS
    a1 = a1
    a2 = a2
    SkuIds = {1, 2}
    Regions = {1, 2}
    Attrs <- MCAttrs
    MaxRecords = 3
    MaxRegions = 1
SPECIFICATION DedupSpec
\* sls() runs once and the script exits.
CHECK_DEADLOCK FALSE
INVARIANT DedupMatchesSpec
