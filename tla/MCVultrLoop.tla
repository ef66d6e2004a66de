----------------------------- MODULE MCVultrLoop -----------------------------
EXTENDS VultrLoop

CONSTANTS s1, s2, s3

\* Plan sizes below one GB (dropped by the code) and above.
MCSkus == {s1, s2, s3}
MCRamMiB == {512, 2048}

SkuSymmetry == Permutations(MCSkus)
=============================================================================
