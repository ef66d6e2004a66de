\* sls() after a plan it already lists is withdrawn from the plan list.
CONSTANTS
    Missing = Missing
    Corrupt = Corrupt
    s1 = s1
    s2 = s2
    s3 = s3
    Skus <- MCSkus
    RamMiB <- MCRamMiB
SPECIFICATION VultrSpec
SYMMETRY SkuSymmetry



PROPERTY WithdrawnPlanDeprecated
