-------------------------- MODULE AbstractRegistry --------------------------
(***************************************************************************)
(* What the pharmer release registry promises its clients: a release of a *)
(* version begins, lists that version in versions.json, a history that     *)
(* only gains versions, and ends, possibly pointing latest.txt at its      *)
(* version once the history lists it.  No version appears in the history  *)
(* or in latest.txt without a release of it under way.                     *)
(***************************************************************************)
CONSTANTS Builds, NoFile

VARIABLES
    listed,     \* the versions the history lists
    latest,     \* the version latest.txt names, or NoFile
    pending     \* the versions whose release is under way

absVars == <<listed, latest, pending>>

AbstractInit ==
    /\ listed = {}
    /\ latest = NoFile
    /\ pending = {}

\* A release of v begins.
Begin(v) ==
    /\ pending' = pending \cup {v}
    /\ UNCHANGED <<listed, latest>>

\* A running release adds its version to the history.
List(v) ==
    /\ v \in pending
    /\ listed' = listed \cup {v}
    /\ UNCHANGED <<latest, pending>>

\* A release ends, pointing latest.txt at its version or leaving it alone.
Finish(v) ==
    /\ v \in pending
    /\ pending' = pending \ {v}
    /\ latest' \in {latest} \cup ({v} \cap listed)
    /\ UNCHANGED listed

AbstractNext == \E v \in Builds : Begin(v) \/ List(v) \/ Finish(v)

AbstractSpec == AbstractInit /\ [][AbstractNext]_absVars

=============================================================================
