------------------------------- MODULE Startup -------------------------------
(***************************************************************************)
(* pkg/cmds/run.go on every cluster: a pod of the Deployment validates its *)
(* flags, waits for Argo CD's Application CRD where it comes with the      *)
(* cluster, competes for the lease if there are several of it, waits for   *)
(* its caches, and becomes active. Around it: the Deployment's rollouts,   *)
(* the kubelet, the leases, and the CRD, which someone else registers.     *)
(***************************************************************************)
EXTENDS AddonManager

CONSTANTS
    Principal,      \* the remote cluster a kubeconfig leads to
    Slots,          \* places for the pods of one Deployment, filled in order
    NoPod, Nobody,
    MaxPolls, MaxFaults     \* bounds: polls before the deadline, pods that die

Steps == {"start", "await", "elect", "sync", "active", "exit"}

Pod == [rev : Manifest, pc : Steps, polls : 0..MaxPolls]

ASSUME StartupAssumption ==
    /\ Principal \notin Clusters
    /\ NoPod \notin Pod
    /\ Slots \subseteq Nat /\ Nobody \notin Slots
    /\ MaxPolls \in Nat /\ MaxFaults \in Nat

VARIABLES
    pods,       \* the pods of each cluster's Deployment
    lease,      \* who holds each cluster's lease 03b9a431
    remote,     \* who holds the principal's lease 03b9a432: a pod, another fleet, or nobody
    crd,        \* the Application CRD on each cluster; the principal runs Argo CD
    faults

startVars == <<pods, lease, remote, crd, faults>>

CRDStates == {"none", "group", "served"}

StartTypeOK ==
    /\ pods \in [Clusters -> [Slots -> Pod \cup {NoPod}]]
    /\ lease \in [Clusters -> Slots \cup {Nobody}]
    /\ remote \in (Clusters \X Slots) \cup {Nobody, Principal}
    /\ crd \in [Clusters -> CRDStates]
    /\ faults \in 0..MaxFaults

StartInit ==
    /\ pods = [c \in Clusters |-> [p \in Slots |-> NoPod]]
    /\ lease = [c \in Clusters |-> Nobody]
    /\ remote \in {Nobody, Principal}
    /\ crd = [c \in Clusters |-> "none"]
    /\ faults = 0

-----------------------------------------------------------------------------
(* The Deployment: one pod more than wanted during a rollout, and an old pod *)
(* goes when enough others run.                                              *)

Pods(c) == {p \in Slots : pods[c][p] # NoPod}

Running(c, p) == pods[c][p] # NoPod /\ pods[c][p].pc # "exit"

Current(c) == {p \in Pods(c) : pods[c][p].rev = manifest[c]}

SetPod(c, p, pod) == pods' = [pods EXCEPT ![c][p] = pod]

CreatePod(c, p) ==
    /\ manifest[c] # NoManifest
    /\ pods[c][p] = NoPod /\ \A q \in Slots : q < p => pods[c][q] # NoPod
    /\ Cardinality(Current(c)) < manifest[c].replicas
    /\ Cardinality(Pods(c)) <= manifest[c].replicas
    /\ site[c].openshift => manifest[c].user = "range"
    /\ SetPod(c, p, [rev |-> manifest[c], pc |-> "start", polls |-> 0])
    /\ UNCHANGED <<hubVars, lease, remote, crd, faults>>

RemovePod(c, p) ==
    /\ p \in Pods(c) \ Current(c)
    /\ Running(c, p) =>
          Cardinality({q \in Slots \ {p} : Running(c, q)}) >= manifest[c].replicas
    /\ SetPod(c, p, NoPod)
    /\ UNCHANGED <<hubVars, lease, remote, crd, faults>>

-----------------------------------------------------------------------------
(* runOperator. *)

\* What the flags of a pod say.
Mode(rev) == Parse(rev.mode)
Elects(rev) == rev.replicas > 1

\* The flags runOperator refuses.
Refuses(rev) ==
    \/ Mode(rev) = "invalid"
    \/ Mode(rev) = "managed" /\ ~(rev.remote /\ rev.named)

\* Where the pods write Applications: to the principal as soon as there is a
\* kubeconfig, whatever the mode.
ArgoCluster(c, rev) == IF rev.remote THEN Principal ELSE c

Goes(c, p, step) ==
    /\ SetPod(c, p, [pods[c][p] EXCEPT !.pc = step])
    /\ UNCHANGED <<hubVars, crd>>

\* Are Applications served there?
Served(k) == k = Principal \/ crd[k] = "served"

\* The pod's process is at that step.
Is(c, p, step) == pods[c][p] # NoPod /\ pods[c][p].pc = step

Validate(c, p) ==
    /\ Is(c, p, "start")
    /\ LET rev == pods[c][p].rev
       IN  Goes(c, p, IF Refuses(rev) THEN "exit"
                      ELSE IF Mode(rev) = "autonomous" THEN "await" ELSE "elect")
    /\ UNCHANGED <<lease, remote, faults>>

\* Faulty: the group's version being served is taken for the CRD.
Discovered_GroupOnly(k) == k = Principal \/ crd[k] # "none"

\* The group's resources are listed, and Applications are among them.
Discovered(k) == k = Principal \/ crd[k] = "served"

\* Faulty: it looks again without end.
Await_NoDeadline(c, p) ==
    /\ Is(c, p, "await")
    /\ LET pod == pods[c][p]
       IN  IF Discovered(ArgoCluster(c, pod.rev))
           THEN Goes(c, p, "elect")
           ELSE SetPod(c, p, [pod EXCEPT !.polls = @ + 1]) /\ UNCHANGED <<hubVars, crd>>
    /\ UNCHANGED <<lease, remote, faults>>

\* waitForApplicationCRD: the first look is immediate; after the last it gives up.
\* A discovery that fails in any other way ends the process at once.
Await(c, p) ==
    /\ Is(c, p, "await")
    /\ LET pod  == pods[c][p]
           seen == Discovered(ArgoCluster(c, pod.rev))
       IN  \/ seen /\ Goes(c, p, "elect") /\ UNCHANGED faults
           \/ /\ ~seen /\ pod.polls < MaxPolls
              /\ SetPod(c, p, [pod EXCEPT !.polls = @ + 1])
              /\ UNCHANGED <<hubVars, crd, faults>>
           \/ ~seen /\ pod.polls = MaxPolls /\ Goes(c, p, "exit") /\ UNCHANGED faults
           \/ faults < MaxFaults /\ faults' = faults + 1 /\ Goes(c, p, "exit")
    /\ UNCHANGED <<lease, remote>>

\* Meanwhile nothing answers the liveness probe: the manager is not started yet.
Probe(c, p) ==
    /\ site[c].probed
    /\ Is(c, p, "await")
    /\ pods[c][p].polls > 0
    /\ Goes(c, p, "exit")
    /\ UNCHANGED <<lease, remote, faults>>

\* Faulty: the manager is made without LeaderElection.
Elect_Nobody(c, p) ==
    /\ Is(c, p, "elect")
    /\ Goes(c, p, "sync")
    /\ UNCHANGED <<lease, remote, faults>>

\* mgr.Start: with leader election, the controller and the Argo CD manager are
\* started once the lease is free and taken.
Elect(c, p) ==
    /\ Is(c, p, "elect")
    /\ IF Elects(pods[c][p].rev)
       THEN lease[c] = Nobody /\ lease' = [lease EXCEPT ![c] = p]
       ELSE UNCHANGED lease
    /\ Goes(c, p, "sync")
    /\ UNCHANGED <<remote, faults>>

\* The controller waits for the caches of both managers, for so long. Caches are
\* filled before a manager competes for its lease, so the Argo CD manager's is not waited for.
Sync(c, p) ==
    /\ Is(c, p, "sync")
    /\ Goes(c, p, IF Served(ArgoCluster(c, pods[c][p].rev)) THEN "active" ELSE "exit")
    /\ UNCHANGED <<lease, remote, faults>>

\* The Argo CD manager's lease, named alike on every cluster, gates nothing.
TakeRemote(c, p) ==
    /\ Is(c, p, "active")
    /\ pods[c][p].rev.remote /\ Elects(pods[c][p].rev)
    /\ remote = Nobody
    /\ remote' = <<c, p>>
    /\ UNCHANGED <<hubVars, pods, lease, crd, faults>>

\* The process dies, or loses one of its leases, which ends it as well.
Die(c, p) ==
    /\ Running(c, p)
    /\ faults < MaxFaults
    /\ faults' = faults + 1
    /\ Goes(c, p, "exit")
    /\ UNCHANGED <<lease, remote>>

\* The kubelet starts the container again.
Restart(c, p) ==
    /\ Is(c, p, "exit")
    /\ SetPod(c, p, [pods[c][p] EXCEPT !.pc = "start", !.polls = 0])
    /\ UNCHANGED <<hubVars, lease, remote, crd, faults>>

Step(c, p) == \/ Validate(c, p) \/ Await(c, p) \/ Probe(c, p) \/ Sync(c, p) \/ Restart(c, p)

-----------------------------------------------------------------------------
(* Around the pods. *)

\* A lease that is no longer renewed expires, after its holder has given up: the
\* renew deadline ends before the lease does.
Expire(c) ==
    /\ lease[c] # Nobody
    /\ ~Is(c, lease[c], "sync") /\ ~Is(c, lease[c], "active")
    /\ lease' = [lease EXCEPT ![c] = Nobody]
    /\ UNCHANGED <<hubVars, pods, remote, crd, faults>>

ExpireRemote ==
    /\ \/ remote = Principal
       \/ \E c \in Clusters, p \in Slots : remote = <<c, p>> /\ ~Is(c, p, "active")
    /\ remote' = Nobody
    /\ UNCHANGED <<hubVars, pods, lease, crd, faults>>

\* Argo CD's CRDs are registered: its group may be served before Applications are.
Register(c) ==
    /\ crd[c] # "served"
    /\ crd' = [crd EXCEPT ![c] = IF @ = "none" THEN "group" ELSE "served"]
    /\ UNCHANGED <<hubVars, pods, lease, remote, faults>>

StartNext ==
    \/ \E c \in Clusters :
          \/ \E p \in Slots : \/ CreatePod(c, p) \/ RemovePod(c, p)
                              \/ Step(c, p) \/ Elect(c, p)
                              \/ TakeRemote(c, p) \/ Die(c, p)
          \/ Expire(c) \/ Register(c)
    \/ ExpireRemote
=============================================================================
