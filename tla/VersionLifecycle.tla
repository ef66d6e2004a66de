-------------------------- MODULE VersionLifecycle --------------------------
(***************************************************************************)
(* The version-lifecycle scripts of data/hack acting on the catalog file:  *)
(*   kube_version.py add / release / deprecate <version>                   *)
(*   onebox.py release   (backfill the "onebox" environment from "prod")   *)
(*   db.py release       (drop the "db" section of every provider)         *)
(*                                                                         *)
(* A catalog document d has                                                *)
(*   d.kube[p]    provider p's kubernetes.versions_by_env: a function from *)
(*                the environments present to their timelines;             *)
(*   d.db[p]      provider p's "db" section, a function from the engines   *)
(*                present to their versions_by_env, or NoDb once db.py     *)
(*                has deleted it;                                          *)
(*   d.vms        vultr's instance_types (see VultrSync), untouched here.  *)
(* A timeline entry keeps the version string and the deprecated flag; the *)
(* description and apps map are fixed per version and left out.           *)
(***************************************************************************)
EXTENDS CatalogStore, TLC

CONSTANTS
    Providers,      \* provider names, keys of cloud_provider
    Envs,           \* environment names; contains "prod" and "onebox"
    Engines,        \* database engine names, keys of a provider's db
    Versions,       \* version strings a deprecate call may be given
    NoDb,           \* a provider entry without a "db" key
    InitEnvSets,    \* environment sets a provider may start with
    InitTimelines,  \* timelines an environment may start with
    DbMayBeAbsent   \* whether a provider may start without "db"

\* The versions kube_version.py hard-codes in add() and in release().
AddVersion == "1.7.0"
ReleaseVersion == "1.5.7"

ASSUME /\ {"prod", "onebox"} \subseteq Envs
       /\ {AddVersion, ReleaseVersion} \subseteq Versions

Entry == [version : Versions, deprecated : BOOLEAN]

NewEntry(v) == [version |-> v, deprecated |-> FALSE]

IsEnvMap(m) ==
    /\ DOMAIN m \subseteq Envs
    /\ \A e \in DOMAIN m : m[e] \in Seq(Entry)

IsDbSection(s) ==
    \/ s = NoDb
    \/ /\ DOMAIN s \subseteq Engines
       /\ \A g \in DOMAIN s : IsEnvMap(s[g])

InitEnvMaps == UNION {[E -> InitTimelines] : E \in InitEnvSets}

InitDbSections ==
    [Engines -> InitEnvMaps] \cup (IF DbMayBeAbsent THEN {NoDb} ELSE {})

InitDocs ==
    [kube : [Providers -> InitEnvMaps],
     db   : [Providers -> InitDbSections],
     vms  : {<<>>}]

-----------------------------------------------------------------------------
(***************************************************************************)
(* The in-memory mutations, one per loop body of the scripts.              *)
(***************************************************************************)

\* add(): append the 1.7.0 entry to every timeline but "prod".
Staged(m) ==
    [e \in DOMAIN m |->
        IF e # "prod" THEN Append(m[e], NewEntry(AddVersion)) ELSE m[e]]

\* Mutant of Released: the env == 'prod' test dropped.
ReleasedEverywhere(m) ==
    [e \in DOMAIN m |-> Append(m[e], NewEntry(ReleaseVersion))]

\* release(): append the 1.5.7 entry to the "prod" timeline only.
Released(m) ==
    [e \in DOMAIN m |->
        IF e = "prod" THEN Append(m[e], NewEntry(ReleaseVersion)) ELSE m[e]]

\* deprecate(version): flag every entry of that version, in every timeline.
Deprecated(m, v) ==
    [e \in DOMAIN m |->
        [i \in 1..Len(m[e]) |->
            IF m[e][i].version = v
            THEN [m[e][i] EXCEPT !.deprecated = TRUE]
            ELSE m[e][i]]]

\* Mutant of Backfilled: the "'onebox' not in kubes" test dropped.
BackfilledAlways(m) ==
    IF "prod" \in DOMAIN m THEN ("onebox" :> m["prod"]) @@ m ELSE m

\* onebox.py: kubes['onebox'] = kubes['prod'] unless "onebox" exists.
Backfilled(m) ==
    IF "prod" \in DOMAIN m /\ "onebox" \notin DOMAIN m
    THEN m @@ ("onebox" :> m["prod"])
    ELSE m

\* pdata['db'] raises KeyError for a provider without a "db" key.
LacksDb(d) == \E p \in Providers : d.db[p] = NoDb

-----------------------------------------------------------------------------
(***************************************************************************)
(* The script runs.  Each loops over data['cloud_provider'], mutates the   *)
(* document in memory and calls write_json.                                *)
(***************************************************************************)

AddDoc(d) == [d EXCEPT !.kube = [p \in Providers |-> Staged(d.kube[p])]]

ReleaseDoc(d) == [d EXCEPT !.kube = [p \in Providers |-> Released(d.kube[p])]]

DeprecateDoc(d, v) ==
    [d EXCEPT !.kube = [p \in Providers |-> Deprecated(d.kube[p], v)]]

(***************************************************************************)
(* onebox.py release(): the kubernetes loop runs first, then the db loop;  *)
(* a provider without "db" fails the second loop and the run writes        *)
(* nothing, the kubernetes backfill included.                              *)
(***************************************************************************)
OneboxDoc(d) ==
    [d EXCEPT !.kube = [p \in Providers |-> Backfilled(d.kube[p])],
              !.db   = [p \in Providers |->
                          [g \in DOMAIN d.db[p] |-> Backfilled(d.db[p][g])]]]

\* db.py release(): del pdata['db'] for every provider.
DropDbDoc(d) == [d EXCEPT !.db = [p \in Providers |-> NoDb]]

KubeAdd == Invoke("add", FALSE, AddDoc(file))

KubeRelease == Invoke("release", FALSE, ReleaseDoc(file))

KubeDeprecate(v) == Invoke("deprecate", FALSE, DeprecateDoc(file, v))

OneboxRelease == Invoke("onebox", LacksDb(file), OneboxDoc(file))

DbRelease == Invoke("db", LacksDb(file), DropDbDoc(file))

-----------------------------------------------------------------------------
LifecycleInit ==
    /\ file \in InitDocs \cup {Missing}
    /\ last = [op |-> "none", outcome |-> "none"]

LifecycleNext ==
    \/ KubeAdd
    \/ KubeRelease
    \/ \E v \in Versions : KubeDeprecate(v)
    \/ OneboxRelease
    \/ DbRelease

vars == <<file, last>>

Spec == LifecycleInit /\ [][LifecycleNext]_vars

-----------------------------------------------------------------------------
(***************************************************************************)
(* Properties.                                                             *)
(***************************************************************************)

Ops == {"none", "add", "release", "deprecate", "onebox", "db", "vultr"}

TypeOK ==
    /\ \/ file \in {Missing, Corrupt}
       \/ /\ DOMAIN file = {"kube", "db", "vms"}
          /\ DOMAIN file.kube = Providers
          /\ DOMAIN file.db = Providers
          /\ \A p \in Providers : IsEnvMap(file.kube[p]) /\ IsDbSection(file.db[p])
    /\ last \in [op : Ops, outcome : Outcomes]

\* A step from one readable catalog to another.
DocStep == IsDoc(file) /\ IsDoc(file')

\* Every timeline of old is still in new, as a prefix of the new timeline,
\* and an entry once deprecated stays deprecated.
Extends(old, new) ==
    \A e \in DOMAIN old :
        /\ e \in DOMAIN new
        /\ Len(old[e]) <= Len(new[e])
        /\ \A i \in 1..Len(old[e]) :
              /\ new[e][i].version = old[e][i].version
              /\ old[e][i].deprecated => new[e][i].deprecated

(***************************************************************************)
(* versions_by_env is append-only (spec section 3): across any sequence of *)
(* add, release, deprecate and onebox runs, no kubernetes timeline of any  *)
(* provider loses, reorders or un-deprecates an entry.  It is about the    *)
(* "onebox not in kubes" guard of onebox.py: a re-run must not overwrite a *)
(* onebox timeline that add() has since extended.                          *)
(***************************************************************************)
KubeTimelinesAppendOnly ==
    [][DocStep => \A p \in Providers : Extends(file.kube[p], file'.kube[p])]_file

(***************************************************************************)
(* The onebox timeline is a fork of prod (spec section 3: a one-time copy  *)
(* of prod, evolving independently): it is the prod timeline as it stood  *)
(* when onebox.py ran, entry for entry and flag for flag, followed only by *)
(* what add() staged since.  It relates onebox.py's copy, add()'s "every   *)
(* env but prod", release()'s "prod only" and deprecate()'s flagging of    *)
(* equal versions in both timelines.                                       *)
(***************************************************************************)
OneboxForkedFromProd ==
    \A p \in Providers :
        LET m == IF IsDoc(file) THEN file.kube[p] ELSE <<>>
        IN  "onebox" \in DOMAIN m =>
              \E k \in 0..Len(m["onebox"]) :
                 /\ k <= Len(m["prod"])
                 /\ SubSeq(m["onebox"], 1, k) = SubSeq(m["prod"], 1, k)
                 /\ \A i \in k+1..Len(m["onebox"]) :
                       m["onebox"][i].version = AddVersion

(***************************************************************************)
(* Backfill is strictly additive and run-once-safe (spec 4.4): onebox.py   *)
(* run on a readable catalog completes and writes the backfilled document, *)
(* whatever other scripts ran before it.                                   *)
(***************************************************************************)
BackfillCompletes ==
    [][(last'.op = "onebox" /\ IsDoc(file)) =>
        last'.outcome \in {"ok", "crash"}]_vars

=============================================================================
