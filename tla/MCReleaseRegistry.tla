------------------------- MODULE MCReleaseRegistry -------------------------
(***************************************************************************)
(* Instantiation of ReleaseRegistry for TLC: three work trees, three builds. *)
(***************************************************************************)
EXTENDS ReleaseRegistry, TLC

CONSTANTS m1, m2, m3, b1, b2, b3

MCMachines == {m1, m2, m3}
MCBuilds == {b1, b2, b3}

\* Work trees are interchangeable; builds are not (each run picks one).
MachineSymmetry == Permutations(MCMachines)

=============================================================================
