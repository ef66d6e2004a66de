\* sls() step by step, the plan list changing between runs.
CONSTANTS
    Missing = Missing
    Corrupt = Corrupt
    s1 = s1
    s2 = s2
    s3 = s3
    Skus <- MCSkus
    RamMiB <- MCRamMiB
SPECIFICATION LoopSpec
SYMMETRY SkuSymmetry
INVARIANT VultrTypeOK
INVARIANT UniqueSku
PROPERTY SyncMirrorsRemote
PROPERTY LoopImplementsSync
