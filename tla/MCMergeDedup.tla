--------------------------- MODULE MCMergeDedup ---------------------------
(***************************************************************************)
(* Instantiation of MergeDedup for TLC: two SKUs, two regions, two values  *)
(* of the other fields, listings of up to three records.                   *)
(***************************************************************************)
EXTENDS MergeDedup

CONSTANTS a1, a2

MCAttrs == {a1, a2}

=============================================================================
