------------------------------ MODULE DevTools ------------------------------
(***************************************************************************)
(* The developer's tools of hack/: kluster.py and make.py on one machine.  *)
(* kluster.py imports make; its server() command is make.default(), which *)
(* regenerates the assets and installs the binary without touching        *)
(* kluster.json or the clusters.  Each command is one process run, so the  *)
(* two scripts' runs interleave.  make.py's last outcome is blast.        *)
(***************************************************************************)
EXTENDS Kluster

CONSTANTS
    CLOUDS,         \* the CLOUDS list of make.py
    MaxRev,         \* edits of one cloud's data files explored
    BuildNames,     \* names make.py build may be given
    NoBinary

VARIABLES data, bindata, installed, dist, pushed, blast

bvars == <<data, bindata, installed, dist, pushed, blast>>

devVars == <<file, last, clusters, data, bindata, installed, dist, pushed, blast>>

B == INSTANCE BuildPipeline WITH last <- blast, Names <- BuildNames

\* kluster.py server: make.default(), kluster.json and appctl untouched.
Server == B!Default /\ UNCHANGED kvars

DevInit == KlusterInit /\ B!BuildInit

DevNext ==
    \/ KlusterNext /\ UNCHANGED bvars
    \/ B!BuildNext /\ UNCHANGED kvars
    \/ Server

DevSpec == DevInit /\ [][DevNext]_devVars

-----------------------------------------------------------------------------
(***************************************************************************)
(* Whichever script starts it, a make.py default() or build() that         *)
(* completes has compiled every cloud's data files as they stand: the      *)
(* die() after each go-bindata keeps a half-regenerated bindata.go out of  *)
(* the binary.  (Steps of the make targets are the steps of make.py that  *)
(* leave the data files alone.)                                            *)
(***************************************************************************)
BuiltFromFreshAssets ==
    [][data' = data =>
        /\ blast'.op = "default" /\ blast'.outcome = "ok" => installed' = data
        /\ blast'.op = "build" /\ blast'.outcome = "ok" => dist' = data]_bvars

=============================================================================
