----------------------------- MODULE VultrSync -----------------------------
(***************************************************************************)
(* vultr.py sls(): reconcile the catalog's vultr instance_types with the   *)
(* plan list of https://api.vultr.com/v1/plans/list.                       *)
(*                                                                         *)
(* file.vms is cloud_provider.vultr.instance_types, a sequence of records  *)
(* keeping the external_sku, the deprecated flag and the ram in GB (the    *)
(* description, category, cpu and disk are copied from the plan and left   *)
(* out).  remote is the plan list the API would answer now: a function     *)
(* from plan ids (VPSPLANID) to the plan's deprecated flag and its ram in  *)
(* MB.  The API changes on its own, independently of the script.          *)
(***************************************************************************)
EXTENDS CatalogStore, SequencesExt

CONSTANTS
    Skus,       \* plan ids (VPSPLANID)
    RamMiB      \* plan memory sizes as the API reports them, in MB

VARIABLE remote

Plan == [deprecated : BOOLEAN, ram : RamMiB]

\* A vm's ram is a whole number of GB, as converted from some plan's MB.
VM == [sku : Skus, deprecated : BOOLEAN, ram : {m \div 1024 : m \in RamMiB}]

\* ram = int(int(plan['ram'])/1024): Python 2 integer division.
RamGB(plan) == plan.ram \div 1024

SkusOf(vms) == {vms[i].sku : i \in DOMAIN vms}

(***************************************************************************)
(* The loop over the existing vms looks each sku up with vultr[sku] and    *)
(* then del vultr[sku]: a sku the API no longer lists, or one listed twice *)
(* in the catalog (deleted by its first occurrence), raises KeyError.      *)
(***************************************************************************)
SkuLookupFails(vms, r) ==
    \E i \in DOMAIN vms :
        \/ vms[i].sku \notin DOMAIN r
        \/ \E j \in 1..(i - 1) : vms[j].sku = vms[i].sku

(***************************************************************************)
(* The flag of an existing vm: set when the plan is deprecated, otherwise  *)
(* a stale deprecated key is deleted.                                      *)
(***************************************************************************)
ReconciledWithStaleFlag(vms, r) ==
    [i \in DOMAIN vms |->
        [vms[i] EXCEPT !.deprecated = @ \/ r[vms[i].sku].deprecated]]

Reconciled(vms, r) ==
    [i \in DOMAIN vms |->
        [vms[i] EXCEPT !.deprecated = r[vms[i].sku].deprecated]]

(***************************************************************************)
(* The plans left in the working dict after the loop's del, that are not   *)
(* deprecated (continue) and have at least one whole GB (if ram).          *)
(***************************************************************************)
NewSkusKeepingMatched(vms, r) ==
    {k \in DOMAIN r : ~r[k].deprecated /\ RamGB(r[k]) > 0}

NewSkus(vms, r) ==
    {k \in DOMAIN r \ SkusOf(vms) : ~r[k].deprecated /\ RamGB(r[k]) > 0}

\* Mutant of NewVm: the plan's ram copied in MB, unconverted.
NewVmInMiB(k, r) == [sku |-> k, deprecated |-> FALSE, ram |-> r[k].ram]

NewVm(k, r) == [sku |-> k, deprecated |-> FALSE, ram |-> RamGB(r[k])]

(***************************************************************************)
(* One run of sls(): read_json, urlopen (no retry, no timeout handling:    *)
(* an error ends the run), the loop over existing vms, the appends in the  *)
(* iteration order of a plain dict, which is arbitrary, and write_json.    *)
(***************************************************************************)
Sync ==
    /\ \/ /\ ~Loadable
          /\ Abort("vultr", ReadError)
       \/ /\ Loadable
          /\ Abort("vultr", "NetworkError")
       \/ /\ Loadable
          /\ SkuLookupFails(file.vms, remote)
          /\ Abort("vultr", "KeyError")
       \/ /\ Loadable
          /\ ~SkuLookupFails(file.vms, remote)
          /\ \E order \in SetToSeqs(NewSkus(file.vms, remote)) :
                WriteJson("vultr",
                  [file EXCEPT !.vms =
                     Reconciled(@, remote)
                       \o [i \in DOMAIN order |-> NewVm(order[i], remote)]])
    /\ UNCHANGED remote

(***************************************************************************)
(* The plan list changing at Vultr between runs.                           *)
(***************************************************************************)
PlanAdded(k, m) ==
    /\ k \notin DOMAIN remote
    /\ remote' = remote @@ (k :> [deprecated |-> FALSE, ram |-> m])
    /\ UNCHANGED <<file, last>>

\* A plan is deprecated, or a deprecated one offered again.
PlanFlagChanged(k) ==
    /\ k \in DOMAIN remote
    /\ remote' = [remote EXCEPT ![k].deprecated = ~@]
    /\ UNCHANGED <<file, last>>

PlanWithdrawn(k) ==
    /\ k \in DOMAIN remote
    /\ remote' = [j \in DOMAIN remote \ {k} |-> remote[j]]
    /\ UNCHANGED <<file, last>>

RemoteNext ==
    \E k \in Skus :
        \/ \E m \in RamMiB : PlanAdded(k, m)
        \/ PlanFlagChanged(k)
        \/ PlanWithdrawn(k)

\* The vultr section as first written: no instance types yet.
EmptyCatalog == [kube |-> <<>>, db |-> <<>>, vms |-> <<>>]

VultrInit ==
    /\ file \in {EmptyCatalog, Missing}
    /\ last = [op |-> "none", outcome |-> "none"]
    /\ remote = <<>>

VultrNext == Sync \/ RemoteNext

vultrVars == <<file, last, remote>>

VultrSpec == VultrInit /\ [][VultrNext]_vultrVars

-----------------------------------------------------------------------------
(***************************************************************************)
(* Properties.                                                             *)
(***************************************************************************)

VultrTypeOK ==
    /\ file \in {Missing, Corrupt} \/ file.vms \in Seq(VM)
    /\ DOMAIN remote \subseteq Skus
    /\ \A k \in DOMAIN remote : remote[k] \in Plan
    /\ last \in [op : {"none", "vultr"}, outcome : Outcomes]

\* The step that ends a run of sls(): it records the run's outcome or
\* writes the catalog; the plan list changes only in steps of its own.
SyncStep == last'.op = "vultr" /\ UNCHANGED remote /\ ~UNCHANGED <<file, last>>

(***************************************************************************)
(* external_sku is unique per provider after any merge (spec section 3),   *)
(* over any sequence of runs against a plan list that keeps changing: the  *)
(* del vultr[sku] of the reconcile loop is what keeps a known plan from    *)
(* being appended a second time.                                           *)
(***************************************************************************)
UniqueSku ==
    IsDoc(file) =>
        \A i, j \in DOMAIN file.vms : i # j => file.vms[i].sku # file.vms[j].sku

(***************************************************************************)
(* A successful run leaves the catalog in step with the plan list it       *)
(* fetched (spec 4.2): it keeps every vm it had, lists exactly the plans   *)
(* it had plus the live plans of at least 1 GB, and every flag is the      *)
(* plan's own, a stale deprecated flag of a re-offered plan cleared.       *)
(***************************************************************************)
SyncMirrorsRemote ==
    [][(SyncStep /\ last'.outcome = "ok") =>
        LET live == {k \in DOMAIN remote : ~remote[k].deprecated /\ RamGB(remote[k]) > 0}
        IN  /\ SkusOf(file'.vms) = SkusOf(file.vms) \cup live
            /\ \A i \in DOMAIN file'.vms :
                  file'.vms[i].deprecated = remote[file'.vms[i].sku].deprecated
            /\ \A i \in DOMAIN file'.vms : file'.vms[i].ram > 0]_vultrVars

(***************************************************************************)
(* Live-API reconciliation (spec 4.2 and section 8): an existing vm whose  *)
(* plan is missing from a fresh fetch becomes deprecated=true and stays    *)
(* in the catalog.  The code looks the sku up with vultr[sku].             *)
(***************************************************************************)
WithdrawnPlanDeprecated ==
    [][(SyncStep /\ Loadable /\ last'.outcome # "NetworkError") =>
        \A i \in DOMAIN file.vms :
           file.vms[i].sku \notin DOMAIN remote =>
              \E j \in DOMAIN file'.vms :
                 /\ file'.vms[j].sku = file.vms[i].sku
                 /\ file'.vms[j].deprecated]_vultrVars

=============================================================================
