------------------------------ MODULE VultrLoop ------------------------------
(***************************************************************************)
(* vultr.py sls() one loop iteration at a time: the catalog read into      *)
(* memory (mem), the plan dict fetched once (work), the fix-up loop over   *)
(* the existing vms (index i) deleting each matched plan from work, the   *)
(* loop over what work has left in arbitrary dict order, and write_json.   *)
(*                                                                         *)
(* The run reads the plan list once, at the fetch.  Plan list changes     *)
(* after the fetch commute with every later step of the run, so they are  *)
(* taken while no run is between its fetch and its write; this loses no   *)
(* behaviour of the catalog.                                               *)
(***************************************************************************)
EXTENDS VultrSync

VARIABLES pc, mem, work, i

loopVars == <<file, last, remote, pc, mem, work, i>>

\* clouds = read_json(...); vms = clouds[...]['instance_types']
LoopStart ==
    /\ pc = "idle"
    /\ \/ /\ ~Loadable
          /\ Abort("vultr", ReadError)
          /\ UNCHANGED <<pc, mem>>
       \/ /\ Loadable
          /\ pc' = "fetch"
          /\ mem' = file.vms
          /\ UNCHANGED <<file, last>>
    /\ UNCHANGED <<remote, work, i>>

\* urllib.urlopen(...) and json.loads: the plan dict, or an error.
Fetch ==
    /\ pc = "fetch"
    /\ \/ /\ Abort("vultr", "NetworkError")
          /\ pc' = "idle"
          /\ UNCHANGED <<work, i>>
       \/ /\ work' = remote
          /\ i' = 1
          /\ pc' = "fix"
          /\ UNCHANGED <<file, last>>
    /\ UNCHANGED <<remote, mem>>

\* Mutant of FixVm: the matched plan left in the dict (no del).
FixVmKeepingPlan ==
    /\ pc = "fix"
    /\ i <= Len(mem)
    /\ LET sku == mem[i].sku IN
          \/ /\ sku \notin DOMAIN work
             /\ Abort("vultr", "KeyError")
             /\ pc' = "idle"
             /\ UNCHANGED <<mem, work, i>>
          \/ /\ sku \in DOMAIN work
             /\ mem' = [mem EXCEPT ![i].deprecated = work[sku].deprecated]
             /\ i' = i + 1
             /\ UNCHANGED <<file, last, pc, work>>
    /\ UNCHANGED remote

\* Mutant of FixVm: a deprecated flag only ever set, never cleared.
FixVmStaleFlag ==
    /\ pc = "fix"
    /\ i <= Len(mem)
    /\ LET sku == mem[i].sku IN
          \/ /\ sku \notin DOMAIN work
             /\ Abort("vultr", "KeyError")
             /\ pc' = "idle"
             /\ UNCHANGED <<mem, work, i>>
          \/ /\ sku \in DOMAIN work
             /\ mem' = [mem EXCEPT ![i].deprecated = @ \/ work[sku].deprecated]
             /\ work' = Restrict(work, DOMAIN work \ {sku})
             /\ i' = i + 1
             /\ UNCHANGED <<file, last, pc>>
    /\ UNCHANGED remote

(***************************************************************************)
(* One iteration of the fix-up loop: vultr[sku] (KeyError for a plan the   *)
(* dict no longer has), set or delete the flag, del vultr[sku].            *)
(***************************************************************************)
FixVm ==
    /\ pc = "fix"
    /\ i <= Len(mem)
    /\ LET sku == mem[i].sku IN
          \/ /\ sku \notin DOMAIN work
             /\ Abort("vultr", "KeyError")
             /\ pc' = "idle"
             /\ UNCHANGED <<mem, work, i>>
          \/ /\ sku \in DOMAIN work
             /\ mem' = [mem EXCEPT ![i].deprecated = work[sku].deprecated]
             /\ work' = Restrict(work, DOMAIN work \ {sku})
             /\ i' = i + 1
             /\ UNCHANGED <<file, last, pc>>
    /\ UNCHANGED remote

\* The fix-up loop has run past the last vm.
FixedUp == pc = "add" \/ (pc = "fix" /\ i > Len(mem))

\* Mutant of AddPlan: the `if ram` test dropped.
AddPlanIgnoringRam(k) ==
    /\ FixedUp
    /\ k \in DOMAIN work
    /\ work' = Restrict(work, DOMAIN work \ {k})
    /\ mem' = IF ~work[k].deprecated THEN Append(mem, NewVm(k, work)) ELSE mem
    /\ pc' = "add"
    /\ UNCHANGED <<file, last, remote, i>>

\* One iteration of the add loop, for the plan the dict yields next.
AddPlan(k) ==
    /\ FixedUp
    /\ k \in DOMAIN work
    /\ work' = Restrict(work, DOMAIN work \ {k})
    /\ mem' = IF ~work[k].deprecated /\ RamGB(work[k]) > 0
              THEN Append(mem, NewVm(k, work))
              ELSE mem
    /\ pc' = "add"
    /\ UNCHANGED <<file, last, remote, i>>

\* write_json(clouds, ...) once the dict is exhausted.
LoopWrite ==
    /\ FixedUp
    /\ DOMAIN work = {}
    /\ WriteJson("vultr", [file EXCEPT !.vms = mem])
    /\ pc' = "idle"
    /\ UNCHANGED <<remote, mem, work, i>>

RemoteBetweenRuns ==
    /\ pc \in {"idle", "fetch"}
    /\ RemoteNext
    /\ UNCHANGED <<pc, mem, work, i>>

LoopInit ==
    /\ VultrInit
    /\ pc = "idle"
    /\ mem = <<>>
    /\ work = <<>>
    /\ i = 1

LoopNext ==
    \/ LoopStart
    \/ Fetch
    \/ FixVm
    \/ \E k \in Skus : AddPlan(k)
    \/ LoopWrite
    \/ RemoteBetweenRuns

LoopSpec == LoopInit /\ [][LoopNext]_loopVars

(***************************************************************************)
(* The loops of sls() implement the one-step reconciliation of VultrSync:  *)
(* every run, observed at the catalog file, is a Sync step of that         *)
(* specification (keep every vm, fix its flag, append exactly the new live *)
(* plans in some order, or fail with nothing written).                     *)
(***************************************************************************)
LoopImplementsSync == VultrSpec

=============================================================================
