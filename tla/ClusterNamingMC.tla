-------------------------- MODULE ClusterNamingMC --------------------------
(* Instances of ClusterNaming for TLC. *)
EXTENDS ClusterNaming

Release(c, ns, n, ch) == [cluster |-> c, namespace |-> ns, name |-> n, chart |-> ch]

\* Two clusters whose names have one token and two; the ACE release exists once,
\* renamed, beside ordinary releases with one- and two-token names in two
\* namespaces. "db" has the same annotation on both clusters. Names and cluster
\* names share tokens: "db-us" on "east" is "db-us-east".
PlainClusters == {<<"east">>, <<"us", "west">>}

PlainReleases ==
    UNION {{Release(c, "data", <<"db">>, "app"), Release(c, "edge", <<"db", "us">>, "app")} :
              c \in PlainClusters}
    \cup {Release(<<"east">>, "edge", <<"platform">>, "ace")}

\* What the theorems ask of the constants is what this instance has.
ASSUME PlainAssumption == SuffixFree /\ NamespacesApart /\ ACEApart
=============================================================================
