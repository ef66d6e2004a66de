------------------------- MODULE MCVersionLifecycle -------------------------
(***************************************************************************)
(* Instantiation of VersionLifecycle for TLC: two providers, the prod,     *)
(* onebox and one other environment, one database engine.                  *)
(***************************************************************************)
EXTENDS VersionLifecycle

CONSTANTS p1, p2, mysql

MCProviders == {p1, p2}
MCEngines == {mysql}
MCEnvs == {"prod", "onebox", "qa"}
MCVersions == {"1.5.7", "1.7.0", "1.6.0"}

\* A provider starts with prod alone or prod and qa; onebox is created by
\* onebox.py.  Each timeline starts empty or with 1.5.7 already released.
MCInitEnvSets == {{"prod"}, {"prod", "qa"}}
MCInitTimelines == {<<>>, <<NewEntry("1.5.7")>>}

\* Timelines grow with every add and release; exploration stops at this length.
MaxTimeline == 3

TimelineBound ==
    IsDoc(file) =>
        \A p \in Providers :
            /\ \A e \in DOMAIN file.kube[p] : Len(file.kube[p][e]) <= MaxTimeline

\* Lifecycle operations treat providers alike.
ProviderSymmetry == Permutations(MCProviders)

=============================================================================
