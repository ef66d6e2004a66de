---------------------------- MODULE MCVultrSync ----------------------------
(***************************************************************************)
(* Instantiation of VultrSync for TLC: three plans, a plan size below one  *)
(* GB (dropped by the code) and two above.                                 *)
(***************************************************************************)
EXTENDS VultrSync

CONSTANTS s1, s2, s3

MCSkus == {s1, s2, s3}
MCRamMiB == {512, 1024, 2048}

\* Plan ids are interchangeable.
SkuSymmetry == Permutations(MCSkus)

=============================================================================
