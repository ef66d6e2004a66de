------------------------------- MODULE Kluster -------------------------------
(***************************************************************************)
(* hack/kluster.py: a developer's context for one test cluster, kept in    *)
(* kluster.json, and the commands that drive appctl with it.               *)
(*                                                                         *)
(* file is kluster.json (libbuild.read_json / write_json: a missing file   *)
(* reads as {}, an unparsable one raises ValueError, a write truncates     *)
(* first).  A context is a function from the keys set so far to their     *)
(* values; provider, zone and nodes are one opaque value each, the        *)
(* credential path is one that open() can read or one it cannot.          *)
(* clusters is the set of cluster names appctl has created and not yet     *)
(* deleted.  Every appctl call's exit status is ignored (subprocess.call   *)
(* without a check), so each may fail and the command carries on.          *)
(***************************************************************************)
EXTENDS CatalogStore, FiniteSets, TLC

CONSTANTS
    Names,          \* cluster names create() may be given
    Value,          \* a provider, zone or node list
    CredOk,         \* a credential path open() can read
    CredMissing     \* a credential path open() cannot read

VARIABLE clusters

kvars == <<file, last, clusters>>

ContextKeys == {"provider", "zone", "cloud_credential", "nodes"}

\* The short flags set() expands.
Expand == [p |-> "provider", z |-> "zone", c |-> "cloud_credential", n |-> "nodes"]

Key(k) == IF k \in DOMAIN Expand THEN Expand[k] ELSE k

\* libbuild.read_json: {} for a missing file (Corrupt is handled apart).
Context == IF file = Missing THEN <<>> ELSE file

\* Mutant of Assigned: the flag as typed stored, not the key it expands to.
AssignedRaw(k, v) == (k :> v) @@ Context

\* context[k.lower()] = v
Assigned(k, v) == (Key(k) :> v) @@ Context

\* set(k, v): an unknown flag only prints; a known one is read, set, written.
SetFlag(k, v) ==
    /\ \/ /\ Key(k) \notin ContextKeys
          /\ last' = [op |-> "set", outcome |-> "ok"]
          /\ UNCHANGED file
       \/ /\ Key(k) \in ContextKeys
          /\ file = Corrupt
          /\ Abort("set", "ValueError")
       \/ /\ Key(k) \in ContextKeys
          /\ file # Corrupt
          /\ WriteJson("set", Assigned(k, v))
    /\ UNCHANGED clusters

\* context['name'] = name, before anything else is looked at.
Named(n) == ("name" :> n) @@ Context

(***************************************************************************)
(* What create() meets after its write_json, in the code's order:          *)
(* context['provider'] (lines 129 or 133), context['zone'] (141) and       *)
(* context['cloud_credential'] (144) raise KeyError when unset; open()     *)
(* raises IOError on an unreadable path.  An unknown provider only prints. *)
(***************************************************************************)
CreateOutcome(ctx) ==
    IF ~({"provider", "zone", "cloud_credential"} \subseteq DOMAIN ctx) THEN "KeyError"
    ELSE IF ctx["cloud_credential"] = CredMissing THEN "IOError"
    ELSE "ok"

\* appctl cluster create / delete, whose exit status nobody reads.
Appctl(after) == clusters' \in {clusters, after}

\* Mutant of Create: appctl called before the name is written.
CreateCallingFirst(n) ==
    /\ file # Corrupt
    /\ CreateOutcome(Named(n)) = "ok"
    /\ Appctl(clusters \cup {n})
    /\ WriteJson("create", Named(n))

(***************************************************************************)
(* create(name): read, record the name, write, then build the appctl       *)
(* command and run it with the credential file as stdin.                   *)
(***************************************************************************)
Create(n) ==
    \/ /\ file = Corrupt
       /\ Abort("create", "ValueError")
       /\ UNCHANGED clusters
    \/ /\ file # Corrupt
       /\ file' = Corrupt
       /\ last' = [op |-> "create", outcome |-> "crash"]
       /\ UNCHANGED clusters
    \/ /\ file # Corrupt
       /\ file' = Named(n)
       /\ last' = [op |-> "create", outcome |-> CreateOutcome(Named(n))]
       /\ IF CreateOutcome(Named(n)) = "ok"
          THEN Appctl(clusters \cup {n})
          ELSE UNCHANGED clusters

\* delete(): appctl cluster delete {name}, then context.pop('name') and write.
Delete ==
    \/ /\ file = Corrupt
       /\ Abort("delete", "ValueError")
       /\ UNCHANGED clusters
    \/ /\ file # Corrupt
       /\ "name" \notin DOMAIN Context
       /\ Abort("delete", "KeyError")
       /\ UNCHANGED clusters
    \/ /\ file # Corrupt
       /\ "name" \in DOMAIN Context
       /\ Appctl(clusters \ {Context["name"]})
       /\ WriteJson("delete",
            [k \in DOMAIN Context \ {"name"} |-> Context[k]])

\* ssh(): reads the name and runs appctl cluster ssh; nothing changes.
Ssh ==
    /\ last' = [op |-> "ssh",
                outcome |-> IF file = Corrupt THEN "ValueError"
                            ELSE IF "name" \notin DOMAIN Context THEN "KeyError"
                            ELSE "ok"]
    /\ UNCHANGED <<file, clusters>>

\* info(): read_json and dump the context; nothing changes.
Info ==
    /\ last' = [op |-> "info",
                outcome |-> IF file = Corrupt THEN "ValueError" ELSE "ok"]
    /\ UNCHANGED <<file, clusters>>

\* version(): dump BUILD_METADATA; kluster.json is not read.
Version ==
    /\ last' = [op |-> "version", outcome |-> "ok"]
    /\ UNCHANGED <<file, clusters>>

(***************************************************************************)
(* push() calls make.build_kubernetes_salt, which make.py does not define  *)
(* (AttributeError); push_cmd() calls make.build_cmd('start-kubernetes'), *)
(* whose BIN_MATRIX lookup has only 'pharmer' (KeyError).  Both read the   *)
(* context first.                                                          *)
(***************************************************************************)
Push(op) ==
    /\ last' = [op |-> op,
                outcome |-> IF file = Corrupt THEN "ValueError"
                            ELSE IF op = "push" THEN "AttributeError"
                            ELSE "KeyError"]
    /\ UNCHANGED <<file, clusters>>

Flags == DOMAIN Expand \cup ContextKeys \cup {"x"}

ValuesOf(k) == IF Key(k) = "cloud_credential" THEN {CredOk, CredMissing} ELSE {Value}

KlusterInit ==
    /\ file = Missing
    /\ last = [op |-> "none", outcome |-> "none"]
    /\ clusters = {}

KlusterNext ==
    \/ \E k \in Flags : \E v \in ValuesOf(k) : SetFlag(k, v)
    \/ \E n \in Names : Create(n)
    \/ Delete
    \/ Ssh
    \/ Info \/ Version
    \/ Push("push") \/ Push("push_cmd")

KlusterSpec == KlusterInit /\ [][KlusterNext]_kvars

-----------------------------------------------------------------------------
KOps == {"none", "set", "create", "delete", "ssh", "info", "version", "push", "push_cmd"}

KlusterTypeOK ==
    /\ \/ file \in {Missing, Corrupt}
       \/ /\ DOMAIN file \subseteq ContextKeys \cup {"name"}
          /\ "name" \in DOMAIN file => file["name"] \in Names
    /\ clusters \subseteq Names
    /\ last \in [op : KOps, outcome : Outcomes \cup {"IOError", "AttributeError"}]

(***************************************************************************)
(* create() writes the name to kluster.json before it asks appctl for the  *)
(* cluster (lines 125-126 before 145): a cluster appears only in a step    *)
(* that leaves a readable context naming it, so no crash or failed write   *)
(* creates a cluster the context has never named.                          *)
(***************************************************************************)
CreateRecordsNameFirst ==
    [][\A c \in clusters' \ clusters :
          /\ IsDoc(file')
          /\ "name" \in DOMAIN file'
          /\ file'["name"] = c]_kvars

=============================================================================
