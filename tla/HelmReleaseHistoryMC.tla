------------------------ MODULE HelmReleaseHistoryMC ------------------------
(* An instance of HelmReleaseHistory for TLC: one release, "ns/db". *)
EXTENDS HelmReleaseHistory

Synced == [sync |-> "Synced", op |-> TRUE, health |-> "Healthy"]

Deploy(c, v) == [chart |-> c, values |-> v, suspend |-> FALSE]

OneRelease   == {"ns/db"}
OneName      == [h \in OneRelease |-> <<"db">>]
NoDependency == [h \in OneRelease |-> {}]
NoCluster    == <<>>
JustSynced   == {Synced}

TwoValues    == {Deploy("app", 1), Deploy("app", 2)}

\* What the theorems ask of the constants is what this instance has.
ASSUME StableAssumption == StableNames
=============================================================================
