--------------------------- MODULE HelmReleaseMC ---------------------------
(* Instances of HelmReleaseCorrectness for TLC. *)
EXTENDS HelmReleaseCorrectness, TLC

Deploy(c, v) == [chart |-> c, values |-> v, suspend |-> FALSE]
Suspended(c, v) == [chart |-> c, values |-> v, suspend |-> TRUE]

Synced  == [sync |-> "Synced", op |-> TRUE, health |-> "Healthy"]
Rolling == [sync |-> "OutOfSync", op |-> TRUE, health |-> "Progressing"]

JustSynced  == {Synced}
JustRolling == {Rolling}
SyncedOrRolling == {Synced, Rolling}

\* One release, in one cluster, with and without a cluster name.
OneRelease    == {"ns/db"}
OneName       == [h \in OneRelease |-> <<"db">>]
NoDependency  == [h \in OneRelease |-> {}]
East          == <<"east">>
NoCluster     == <<>>

OneSpec      == {Deploy("app", 1)}
TwoValues    == {Deploy("app", 1), Deploy("app", 2)}
DeployOrSuspend == {Deploy("app", 1), Suspended("app", 1)}

\* "web" depends on "db", both in the namespace "ns".
TwoReleases   == {"ns/db", "ns/web"}
TwoNames      == ("ns/db" :> <<"db">>) @@ ("ns/web" :> <<"web">>)
WebNeedsDb    == ("ns/db" :> {}) @@ ("ns/web" :> {<<"db">>})
=============================================================================
