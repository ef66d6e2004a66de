---------------------------- MODULE BuildPipeline ----------------------------
(***************************************************************************)
(* hack/make.py's build targets: embed each cloud's data files in Go       *)
(* (gen_assets: go-bindata per cloud), format (fmt), then install the      *)
(* binary (default, install) or build the release artifacts (build), and   *)
(* upload them (push).                                                     *)
(*                                                                         *)
(* A cloud's data files are known by their revision data[c]; bindata[c]    *)
(* is the revision its generated bindata.go embeds; installed and dist are *)
(* the bindata a binary was compiled from ($GOPATH/bin and dist/pharmer),  *)
(* or NoBinary.  die(status) ends the process on a non-zero status, as    *)
(* fmt's die() on goimports does; fmt's rewriting of Go sources is left    *)
(* out, no property reads them.                                            *)
(* libbuild.go_build is outside the repository: it either produces the     *)
(* artifact or ends the process.                                           *)
(***************************************************************************)
EXTENDS Naturals, Sequences

CONSTANTS
    CLOUDS,     \* the CLOUDS list, in its order
    MaxRev,     \* edits of one cloud's data files explored
    Names,      \* names build() may be given; BIN_MATRIX holds "pharmer"
    NoBinary    \* no binary or artifact yet

VARIABLES data, bindata, installed, dist, pushed, last

buildVars == <<data, bindata, installed, dist, pushed, last>>

Clouds == {CLOUDS[i] : i \in 1..Len(CLOUDS)}

\* bindata.go of the clouds in S regenerated from their data files.
Regenerated(S) == [c \in Clouds |-> IF c \in S THEN data[c] ELSE bindata[c]]

\* Mutant of GenRuns: each go-bindata status ignored, the loop carrying on.
GenRunsIgnoringStatus == {<<Regenerated(S), TRUE>> : S \in SUBSET Clouds}

(***************************************************************************)
(* gen_assets: for c in CLOUDS: die(call('go-bindata ...')).  The clouds   *)
(* before the first failing one are regenerated; that failure ends the     *)
(* process.  A run is a pair: the bindata left, and whether it went on.    *)
(***************************************************************************)
GenRuns ==
    {<<Regenerated({CLOUDS[i] : i \in 1..k}), k = Len(CLOUDS)>> :
        k \in 0..Len(CLOUDS)}

Finish(op, outcome) == last' = [op |-> op, outcome |-> outcome]

\* gen(): gen_assets(), the bindata it leaves, ending the process on a failure.
Gen ==
    /\ \E g \in GenRuns :
          /\ bindata' = g[1]
          /\ Finish("gen", IF g[2] THEN "ok" ELSE "exit")
    /\ UNCHANGED <<data, installed, dist, pushed>>

(***************************************************************************)
(* fmt(): ungroup_go_imports, die(goimports), then gofmt with its status   *)
(* ignored.  A failing goimports ends the process, here and inside default *)
(* and build, where it is one more way for the step after gen to exit.     *)
(***************************************************************************)
Fmt ==
    /\ \E ok \in BOOLEAN : Finish("fmt", IF ok THEN "ok" ELSE "exit")
    /\ UNCHANGED <<data, bindata, installed, dist, pushed>>

\* vet(), lint(), version(): a call whose status is ignored, or a print.
Report(op) ==
    /\ Finish(op, "ok")
    /\ UNCHANGED <<data, bindata, installed, dist, pushed>>

\* default(): gen(); fmt(); die(call(GOC + ' install .')); after a full gen
\* the process exits when goimports or the install fails.
Default ==
    \E g \in GenRuns :
       /\ bindata' = g[1]
       /\ IF g[2]
          THEN \E ok \in BOOLEAN :
                  /\ installed' = IF ok THEN g[1] ELSE installed
                  /\ Finish("default", IF ok THEN "ok" ELSE "exit")
          ELSE /\ UNCHANGED installed
               /\ Finish("default", "exit")
       /\ UNCHANGED <<data, dist, pushed>>

\* install(): die(call(GOC + ' install ./...')), with the bindata as it is.
Install ==
    /\ \E ok \in BOOLEAN :
          /\ installed' = IF ok THEN bindata ELSE installed
          /\ Finish("install", IF ok THEN "ok" ELSE "exit")
    /\ UNCHANGED <<data, bindata, dist, pushed>>

(***************************************************************************)
(* build(name): gen(); fmt(); then libbuild.BIN_MATRIX[name] (KeyError for *)
(* a name it lacks) and build_cmd, whose go_build writes dist/.            *)
(***************************************************************************)
Build(name) ==
    \E g \in GenRuns, formatted \in BOOLEAN :
       /\ bindata' = g[1]
       /\ \/ /\ ~(g[2] /\ formatted)
             /\ UNCHANGED dist
             /\ Finish("build", "exit")
          \/ /\ g[2] /\ formatted /\ name # "pharmer"
             /\ UNCHANGED dist
             /\ Finish("build", "KeyError")
          \/ /\ g[2] /\ formatted /\ name = "pharmer"
             /\ \E ok \in BOOLEAN :
                  /\ dist' = IF ok THEN g[1] ELSE dist
                  /\ Finish("build", IF ok THEN "ok" ELSE "exit")
       /\ UNCHANGED <<data, installed, pushed>>

(***************************************************************************)
(* push(): push_bin over dist/ uploads every file it finds under the       *)
(* current BUILD_METADATA version; os.listdir raises OSError when nothing  *)
(* was built.                                                              *)
(***************************************************************************)
Push ==
    /\ IF dist = NoBinary
       THEN /\ UNCHANGED pushed
            /\ Finish("push", "OSError")
       ELSE /\ pushed' = dist
            /\ Finish("push", "ok")
    /\ UNCHANGED <<data, bindata, installed, dist>>

\* A developer edits the data files of cloud c.
Edit(c) ==
    /\ data[c] < MaxRev
    /\ data' = [data EXCEPT ![c] = @ + 1]
    /\ UNCHANGED <<bindata, installed, dist, pushed, last>>

BuildInit ==
    /\ data = [c \in Clouds |-> 0]
    /\ bindata = [c \in Clouds |-> 0]
    /\ installed = NoBinary
    /\ dist = NoBinary
    /\ pushed = NoBinary
    /\ last = [op |-> "none", outcome |-> "none"]

BuildNext ==
    \/ Default
    \/ Install
    \/ \E n \in Names : Build(n)
    \/ Push
    \/ Gen
    \/ Fmt
    \/ \E op \in {"vet", "lint", "version"} : Report(op)
    \/ \E c \in Clouds : Edit(c)

BuildSpec == BuildInit /\ [][BuildNext]_buildVars

=============================================================================
