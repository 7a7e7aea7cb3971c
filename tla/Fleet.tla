-------------------------------- MODULE Fleet --------------------------------
(* Hub and clusters together: what is rendered starts, and keeps running. *)
EXTENDS Startup

vars == <<hubVars, startVars>>

TypeOK == HubTypeOK /\ StartTypeOK

Init == HubInit /\ StartInit

Next == (HubNext /\ UNCHANGED startVars) \/ StartNext

Spec == Init /\ [][Next]_vars

\* The hub's process is restarted and goes on rendering; Deployments are rolled
\* out, pods go on and are restarted, leases expire. A free lease is taken by one
\* candidate or another. Nobody is obliged to register a CRD, report a claim,
\* change a flag or give up the principal's lease.
Fairness ==
    /\ WF_vars(StartHub /\ UNCHANGED startVars)
    /\ \A c \in Clusters :
          /\ WF_vars(Render(c) /\ UNCHANGED startVars)
          /\ WF_vars(\E p \in Slots : CreatePod(c, p))
          /\ WF_vars(\E p \in Slots : RemovePod(c, p))
          /\ WF_vars(\E p \in Slots : Elect(c, p))
          /\ WF_vars(Expire(c))
          /\ \A p \in Slots : WF_vars(Step(c, p))

FairSpec == Spec /\ Fairness

-----------------------------------------------------------------------------

\* Hub and chart refuse beforehand what would end every process at once
\* (config.go:41-43, deployment.yaml:93-100), through restarts of the hub with
\* other flags and for pods of every revision still around: what runOperator refuses
\* nonetheless is a mode that an administrator has misspelt, which the chart lets by.
OnlyUnknownModesRefused ==
    \A c \in Clusters, p \in Slots :
        pods[c][p] # NoPod /\ Refuses(pods[c][p].rev)
            => site[c].hosted /\ Mode(pods[c][p].rev) = "invalid"

Active(c) == {p \in Slots : Is(c, p, "active")}

\* "Enable leader election so only one fargocd instance is active at a time"
\* (run.go:111): of the pods that compete for the lease one at most is active,
\* through rollouts, crashes and lost leases.
OneActive ==
    \A c \in Clusters, p, q \in Slots :
        /\ {p, q} \subseteq Active(c)
        /\ Elects(pods[c][p].rev) /\ Elects(pods[c][q].rev)
        => p = q

\* "Only autonomous mode bundles the Application CRD, so only there can a fresh
\* spoke race its registration against this process's watch" (run.go:212-213): in
\* that mode no process watches Applications before they are served.
WatchesServedOnly ==
    \A c \in Clusters, p \in Slots :
        /\ pods[c][p] # NoPod
        /\ Mode(pods[c][p].rev) = "autonomous"
        /\ pods[c][p].pc \in {"elect", "sync", "active"}
        => Served(ArgoCluster(c, pods[c][p].rev))

\* Nothing outside stands in the operator's way on c.
Deployable(c) ==
    /\ IF site[c].hosted
       THEN manifest[c] # NoManifest /\ Mode(manifest[c]) # "invalid"
       ELSE hub = "serving" /\ ~Fails(Values(c)) /\ claims[c] # "malformed"
            /\ (site[c].openshift => claims[c] = "info")
    /\ manifest[c] # NoManifest => Served(ArgoCluster(c, manifest[c]))

\* All of its pods run what is wanted, and one of them does the work.
Settled(c) ==
    /\ Pods(c) = Current(c)
    /\ \E p \in Active(c) : TRUE

\* Every cluster that can be served is, for good: by way of restarts of the hub,
\* crashing pods, CRDs and claims that come late, and leases left behind. In
\* particular rollouts end: the hub's renders are the same from one to the next
\* (servingcert.go:31-32), or they would never settle.
FleetSettles == \A c \in Clusters : <>[]Deployable(c) => <>[]Settled(c)
=============================================================================
