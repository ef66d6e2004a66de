-------------------------- MODULE ReleaseRegistry --------------------------
(***************************************************************************)
(* make.py update_registry(): publish the build's version in the bucket's  *)
(* binaries/pharmer/versions.json and latest.txt.                          *)
(*                                                                         *)
(* Every remote transfer is a call(...) whose exit status is ignored, so   *)
(* each one may fail and the function carries on.  The steps of one run,   *)
(* each an action:                                                         *)
(*   Download  gsutil cp bucket versions.json -> dist/pharmer (line 170)   *)
(*   Merge     read the local file if it exists, else {}, add the version, *)
(*             write the local file (lines 171-178)                        *)
(*   Upload    gsutil cp local versions.json -> bucket (lines 179-180)     *)
(*   Publish   write latest.txt locally and copy it up (lines 182-185)     *)
(* Machines are the work trees update_registry runs in; each has its own   *)
(* dist/ directory, and the local file stays there between runs.  Nothing *)
(* in the code serializes runs on different machines; Serialized is the    *)
(* caller's discipline of releasing one build at a time (spec section 5). *)
(***************************************************************************)
EXTENDS Naturals, FiniteSets

CONSTANTS
    Machines,       \* work trees that release to the same bucket
    Builds,         \* version strings BUILD_METADATA['version'] may hold
    NoFile,         \* an object or file that does not exist
    CallsMayFail,   \* whether a gsutil call can fail (network, auth)
    Serialized      \* whether releases are run one at a time

VARIABLES
    bucket,     \* versions.json in the bucket: the versions it lists, or NoFile
    latest,     \* latest.txt in the bucket: a version, or NoFile
    local,      \* local[m]: dist/pharmer/versions.json of machine m, or NoFile
    pc,         \* pc[m]: the next step of machine m's run, "idle" between runs
    build       \* build[m]: the version machine m is publishing

regVars == <<bucket, latest, local, pc, build>>

\* The outcome of one gsutil call whose status nobody checks.
CallSucceeds == IF CallsMayFail THEN BOOLEAN ELSE {TRUE}

\* Merge: vj = {} unless os.path.isfile(vf); vj[version] = {...}.
MergedFromEmpty(m) == {build[m]}

Merged(m) ==
    IF local[m] = NoFile THEN {build[m]} ELSE local[m] \cup {build[m]}

\* The order of the steps in update_registry.
StepsPublishingFirst == [download |-> "merge", merge |-> "publish",
                         publish |-> "upload", upload |-> "idle"]

Steps == [download |-> "merge", merge |-> "upload",
          upload |-> "publish", publish |-> "idle"]

Advance(m) == pc' = [pc EXCEPT ![m] = Steps[pc[m]]]

\* Mutant of Start: a build whose version came out empty is published.
StartUnversioned(m) ==
    /\ pc[m] = "idle"
    /\ Serialized => \A n \in Machines : pc[n] = "idle"
    /\ \E v \in Builds \cup {NoFile} :
          build' = [build EXCEPT ![m] = v]
    /\ pc' = [pc EXCEPT ![m] = "download"]
    /\ UNCHANGED <<bucket, latest, local>>

\* A new run on machine m, for the version its checkout builds.
Start(m) ==
    /\ pc[m] = "idle"
    /\ Serialized => \A n \in Machines : pc[n] = "idle"
    /\ \E v \in Builds :
          build' = [build EXCEPT ![m] = v]
    /\ pc' = [pc EXCEPT ![m] = "download"]
    /\ UNCHANGED <<bucket, latest, local>>

\* Mutant of Download: the copy skipped while a local file exists.
DownloadSkippedWhenLocal(m) ==
    /\ pc[m] = "download"
    /\ \E ok \in CallSucceeds :
          local' = IF ok /\ bucket # NoFile /\ local[m] = NoFile
                   THEN [local EXCEPT ![m] = bucket]
                   ELSE local
    /\ Advance(m)
    /\ UNCHANGED <<bucket, latest, build>>

\* gsutil cp fails when the object is missing; the local file is then
\* whatever an earlier run left there.
Download(m) ==
    /\ pc[m] = "download"
    /\ \E ok \in CallSucceeds :
          local' = IF ok /\ bucket # NoFile
                   THEN [local EXCEPT ![m] = bucket]
                   ELSE local
    /\ Advance(m)
    /\ UNCHANGED <<bucket, latest, build>>

Merge(m) ==
    /\ pc[m] = "merge"
    /\ local' = [local EXCEPT ![m] = Merged(m)]
    /\ Advance(m)
    /\ UNCHANGED <<bucket, latest, build>>

Upload(m) ==
    /\ pc[m] = "upload"
    /\ \E ok \in CallSucceeds :
          bucket' = IF ok THEN local[m] ELSE bucket
    /\ Advance(m)
    /\ UNCHANGED <<latest, local, build>>

Publish(m) ==
    /\ pc[m] = "publish"
    /\ \E ok \in CallSucceeds :
          latest' = IF ok THEN build[m] ELSE latest
    /\ Advance(m)
    /\ UNCHANGED <<bucket, local, build>>

RegistryInit ==
    /\ bucket = NoFile
    /\ latest = NoFile
    /\ local = [m \in Machines |-> NoFile]
    /\ pc = [m \in Machines |-> "idle"]
    /\ build = [m \in Machines |-> NoFile]

RegistryNext ==
    \E m \in Machines :
        \/ Start(m)
        \/ Download(m)
        \/ Merge(m)
        \/ Upload(m)
        \/ Publish(m)

RegistrySpec == RegistryInit /\ [][RegistryNext]_regVars

-----------------------------------------------------------------------------
(***************************************************************************)
(* Properties.                                                             *)
(***************************************************************************)

RegistryTypeOK ==
    /\ bucket = NoFile \/ bucket \subseteq Builds
    /\ latest \in Builds \cup {NoFile}
    /\ \A m \in Machines : local[m] = NoFile \/ local[m] \subseteq Builds
    /\ pc \in [Machines -> {"idle", "download", "merge", "upload", "publish"}]
    /\ build \in [Machines -> Builds \cup {NoFile}]

\* The versions the bucket lists, NoFile counting as none.
Listed(b) == IF b = NoFile THEN {} ELSE b

(***************************************************************************)
(* versions.json is the release history clients read: a version once       *)
(* listed in the bucket stays listed.  update_registry rewrites the whole  *)
(* object from the local copy, so this rests on the download having        *)
(* brought that copy up to date.                                           *)
(***************************************************************************)
RegistryKeepsReleases ==
    [][Listed(bucket) \subseteq Listed(bucket')]_regVars

(***************************************************************************)
(* latest.txt never names a version versions.json does not list.           *)
(***************************************************************************)
LatestIsListed ==
    latest # NoFile => latest \in Listed(bucket)

\* The versions of the releases under way: the builds of busy work trees.
Releasing == {build[m] : m \in {n \in Machines : pc[n] # "idle"}}

AR == INSTANCE AbstractRegistry
        WITH listed <- Listed(bucket), latest <- latest, pending <- Releasing

(***************************************************************************)
(* The bucket implements the abstract registry.  Under the mapping listed  *)
(* = the versions versions.json lists and pending = the builds of the     *)
(* work trees in the middle of update_registry, every step either changes *)
(* none of these, starts a release, adds the running release's version to *)
(* the history without dropping any, or ends a release, latest.txt moving *)
(* only to that release's version and only once it is listed.              *)
(***************************************************************************)
RegistryRefinesAbstract == AR!AbstractSpec

=============================================================================
