----------------------------- MODULE FleetProofs -----------------------------
(* What Fleet keeps for any number of clusters, replicas, restarts and faults. *)
EXTENDS Fleet, TLAPS

-----------------------------------------------------------------------------
(* Types. *)

\* One pod of one Deployment is replaced, and nothing else.
LEMMA SetPodReplaces ==
    ASSUME pods \in [Clusters -> [Slots -> Pod \cup {NoPod}]],
           NEW c \in Clusters, NEW p \in Slots, NEW pod \in Pod \cup {NoPod},
           SetPod(c, p, pod)
    PROVE  /\ pods' \in [Clusters -> [Slots -> Pod \cup {NoPod}]]
           /\ pods'[c][p] = pod
           /\ \A d \in Clusters, q \in Slots :
                 <<d, q>> # <<c, p>> => pods'[d][q] = pods[d][q]
  BY DEF SetPod

LEMMA StepTyped ==
    ASSUME NEW pod \in Pod, NEW step \in Steps
    PROVE  /\ [pod EXCEPT !.pc = step] \in Pod
           /\ [pod EXCEPT !.pc = step].rev = pod.rev
           /\ [pod EXCEPT !.pc = step].pc = step
  BY DEF Pod

LEMMA RestartTyped ==
    ASSUME NEW pod \in Pod
    PROVE  LET next == [pod EXCEPT !.pc = "start", !.polls = 0]
           IN  next \in Pod /\ next.rev = pod.rev /\ next.pc = "start"
  <1>1. 0 \in 0..MaxPolls
    BY StartupAssumption
  <1> QED BY <1>1 DEF Pod, Steps

LEMMA ManifestTyped ==
    ASSUME NEW mode \in Modes \cup {"", "unknown"}, NEW r \in BOOLEAN, NEW named \in BOOLEAN,
           NEW replicas \in {1, 2}, NEW user \in {"fixed", "range"}, NEW n \in 0..MaxChanges
    PROVE  [mode |-> mode, remote |-> r, named |-> named, replicas |-> replicas,
            user |-> user, cert |-> n] \in Manifest
  BY Zenon DEF Manifest

\* What the hub renders is a manifest, and so is what an administrator installs.
LEMMA ValuesTyped ==
    ASSUME HubTypeOK, NEW c \in Clusters
    PROVE  Values(c) \in Manifest
  <1>1. opts.mode \in Modes \cup {"", "unknown"} /\ cert \in 0..MaxChanges
    BY OptionsAssumption DEF HubTypeOK, ManagerOptions
  <1>2. Kubeconfig(opts) \in BOOLEAN
    BY Zenon DEF Kubeconfig
  <1>3. User(c) \in {"fixed", "range"}
    BY DEF User
  <1>4. TRUE \in BOOLEAN /\ 1 \in {1, 2}
    OBVIOUS
  <1> QED BY <1>1, <1>2, <1>3, <1>4, ManifestTyped DEF Values

LEMMA RunTyped ==
    ASSUME NEW v \in ChartValues, NEW user \in {"fixed", "range"}, NEW n \in 0..MaxChanges
    PROVE  [mode |-> v.mode, remote |-> v.remote, named |-> v.named,
            replicas |-> v.replicas, user |-> user, cert |-> n] \in Manifest
  <1>1. v \in [mode : Modes \cup {"", "unknown"}, remote : BOOLEAN, named : BOOLEAN,
                replicas : {1, 2}]
    BY OptionsAssumption
  <1>2. v.mode \in Modes \cup {"", "unknown"} /\ v.remote \in BOOLEAN
          /\ v.named \in BOOLEAN /\ v.replicas \in {1, 2}
    BY <1>1, Zenon
  <1> QED BY <1>2, ManifestTyped, Zenon

\* Restarts and runs are counted up to their bound.
LEMMA Counted ==
    ASSUME changes \in 0..MaxChanges, changes < MaxChanges
    PROVE  changes + 1 \in 0..MaxChanges
  <1>1. MaxChanges \in Nat
    BY OptionsAssumption, Zenon
  <1> QED BY <1>1

LEMMA HubTyped ==
    ASSUME HubTypeOK, [HubNext]_hubVars
    PROVE  HubTypeOK'
  <1>1. CASE UNCHANGED hubVars
    BY <1>1 DEF hubVars, HubTypeOK
  <1>2. ASSUME NEW o \in HubOptions, RestartHub(o) PROVE HubTypeOK'
    BY <1>2, Counted DEF RestartHub, HubTypeOK
  <1>3. CASE StartHub
    BY <1>3 DEF StartHub, generateServingCert, HubTypeOK
  <1>4. ASSUME NEW c \in Clusters, Render(c) PROVE HubTypeOK'
    <2>1. Values(c) \in Manifest
      BY ValuesTyped
    <2> QED BY <1>4, <2>1 DEF Render, HubTypeOK
  <1>5. ASSUME NEW c \in Clusters, Claim(c) PROVE HubTypeOK'
    BY <1>5 DEF Claim, HubTypeOK
  <1>6. ASSUME NEW c \in Clusters, NEW v \in ChartValues, RunChart(c, v) PROVE HubTypeOK'
    <2> DEFINE user == IF site[c].openshift THEN "range" ELSE "fixed"
               m == [mode |-> v.mode, remote |-> v.remote, named |-> v.named,
                     replicas |-> v.replicas, user |-> user, cert |-> changes']
    <2>1. changes' \in 0..MaxChanges
      BY <1>6, Counted DEF RunChart, HubTypeOK
    <2>2. m \in Manifest
      BY <2>1, RunTyped, user \in {"fixed", "range"}
    <2>3. /\ manifest' = [manifest EXCEPT ![c] = m]
          /\ UNCHANGED <<opts, hub, cert, site, claims>>
      BY <1>6 DEF RunChart
    <2> HIDE DEF m
    <2> QED BY <2>1, <2>2, <2>3 DEF HubTypeOK
  <1> QED BY <1>1, <1>2, <1>3, <1>4, <1>5, <1>6 DEF HubNext

-----------------------------------------------------------------------------
(* What may become of a pod in a step. *)

Created(c, p) ==
    /\ manifest[c] # NoManifest
    /\ pods'[c][p] = [rev |-> manifest[c], pc |-> "start", polls |-> 0]

Moved(c, p) ==
    /\ pods[c][p] # NoPod /\ pods'[c][p] \in Pod
    /\ pods'[c][p].rev = pods[c][p].rev
    /\ pods'[c][p].pc = "elect" =>
          \/ pods[c][p].pc = "await" /\ Served(ArgoCluster(c, pods[c][p].rev))
          \/ pods[c][p].pc = "start" /\ Mode(pods[c][p].rev) # "autonomous"
    /\ pods'[c][p].pc = "sync" =>
          /\ pods[c][p].pc = "elect"
          /\ Elects(pods[c][p].rev) => lease[c] = Nobody /\ lease'[c] = p
    /\ pods'[c][p].pc = "active" => pods[c][p].pc = "sync"

Becomes(c, p) ==
    \/ pods'[c][p] = pods[c][p]
    \/ pods'[c][p] = NoPod
    \/ Created(c, p)
    \/ Moved(c, p)

\* A process goes to a step that it may go to.
LEMMA GoesMoves ==
    ASSUME TypeOK, NEW c \in Clusters, NEW p \in Slots, NEW step \in Steps,
           pods[c][p] # NoPod, Goes(c, p, step),
           step = "elect" =>
              \/ pods[c][p].pc = "await" /\ Served(ArgoCluster(c, pods[c][p].rev))
              \/ pods[c][p].pc = "start" /\ Mode(pods[c][p].rev) # "autonomous",
           step = "sync" =>
              /\ pods[c][p].pc = "elect"
              /\ Elects(pods[c][p].rev) => lease[c] = Nobody /\ lease'[c] = p,
           step = "active" => pods[c][p].pc = "sync"
    PROVE  /\ pods' \in [Clusters -> [Slots -> Pod \cup {NoPod}]]
           /\ Moved(c, p)
           /\ \A d \in Clusters, q \in Slots :
                 <<d, q>> # <<c, p>> => pods'[d][q] = pods[d][q]
  <1> DEFINE pod == pods[c][p]
             next == [pod EXCEPT !.pc = step]
  <1>1. pod \in Pod
    BY DEF TypeOK, StartTypeOK
  <1>2. next \in Pod /\ next.rev = pod.rev /\ next.pc = step
    BY <1>1, StepTyped
  <1>3. SetPod(c, p, next)
    BY DEF Goes
  <1>4. pods \in [Clusters -> [Slots -> Pod \cup {NoPod}]]
    BY DEF TypeOK, StartTypeOK
  <1> HIDE DEF next
  <1>a. next \in Pod \cup {NoPod}
    BY <1>2
  <1>5. /\ pods' \in [Clusters -> [Slots -> Pod \cup {NoPod}]]
        /\ pods'[c][p] = next
        /\ \A d \in Clusters, q \in Slots :
              <<d, q>> # <<c, p>> => pods'[d][q] = pods[d][q]
    BY <1>a, <1>3, <1>4, SetPodReplaces
  <1> QED BY <1>2, <1>5 DEF Moved

\* Every pod is what it was, or has become what it may.
Fits ==
    /\ pods' \in [Clusters -> [Slots -> Pod \cup {NoPod}]]
    /\ \A c \in Clusters, p \in Slots : Becomes(c, p)

LEMMA Unmoved ==
    ASSUME TypeOK, UNCHANGED pods
    PROVE  Fits
  BY DEF TypeOK, StartTypeOK, Fits, Becomes

LEMMA GoesFits ==
    ASSUME TypeOK, NEW c \in Clusters, NEW p \in Slots, NEW step \in Steps,
           pods[c][p] # NoPod, Goes(c, p, step),
           step = "elect" =>
              \/ pods[c][p].pc = "await" /\ Served(ArgoCluster(c, pods[c][p].rev))
              \/ pods[c][p].pc = "start" /\ Mode(pods[c][p].rev) # "autonomous",
           step = "sync" =>
              /\ pods[c][p].pc = "elect"
              /\ Elects(pods[c][p].rev) => lease[c] = Nobody /\ lease'[c] = p,
           step = "active" => pods[c][p].pc = "sync"
    PROVE  Fits
  <1>1. /\ pods' \in [Clusters -> [Slots -> Pod \cup {NoPod}]]
        /\ Moved(c, p)
        /\ \A d \in Clusters, q \in Slots :
              <<d, q>> # <<c, p>> => pods'[d][q] = pods[d][q]
    BY GoesMoves
  <1> QED BY <1>1 DEF Fits, Becomes

\* A pod is replaced by one that is none, new, or has moved on.
LEMMA SetPodFits ==
    ASSUME TypeOK, NEW c \in Clusters, NEW p \in Slots, NEW pod \in Pod \cup {NoPod},
           SetPod(c, p, pod),
           pods'[c][p] = pod => Becomes(c, p)
    PROVE  Fits
  <1>1. pods \in [Clusters -> [Slots -> Pod \cup {NoPod}]]
    BY DEF TypeOK, StartTypeOK
  <1>2. /\ pods' \in [Clusters -> [Slots -> Pod \cup {NoPod}]]
        /\ pods'[c][p] = pod
        /\ \A d \in Clusters, q \in Slots :
              <<d, q>> # <<c, p>> => pods'[d][q] = pods[d][q]
    BY <1>1, SetPodReplaces
  <1> QED BY <1>2 DEF Fits, Becomes

LEMMA CreateFits ==
    ASSUME TypeOK, NEW c \in Clusters, NEW p \in Slots, CreatePod(c, p)
    PROVE  Fits
  <1> DEFINE new == [rev |-> manifest[c], pc |-> "start", polls |-> 0]
  <1>1. manifest[c] # NoManifest /\ manifest[c] \in Manifest
    BY DEF CreatePod, TypeOK, HubTypeOK
  <1>2. new \in Pod
    BY <1>1, StartupAssumption DEF Pod, Steps
  <1>3. SetPod(c, p, new)
    BY DEF CreatePod
  <1>4. pods'[c][p] = new => Becomes(c, p)
    BY <1>1 DEF Becomes, Created
  <1> HIDE DEF new
  <1> QED BY <1>2, <1>3, <1>4, SetPodFits

LEMMA RemoveFits ==
    ASSUME TypeOK, NEW c \in Clusters, NEW p \in Slots, RemovePod(c, p)
    PROVE  Fits
  <1>1. SetPod(c, p, NoPod)
    BY DEF RemovePod
  <1>2. pods'[c][p] = NoPod => Becomes(c, p)
    BY DEF Becomes
  <1> QED BY <1>1, <1>2, SetPodFits

LEMMA AwaitFits ==
    ASSUME TypeOK, NEW c \in Clusters, NEW p \in Slots, Await(c, p)
    PROVE  Fits
  <1> DEFINE pod == pods[c][p]
  <1>1. pod # NoPod /\ pod \in Pod /\ pod.pc = "await"
    BY DEF Await, Is, TypeOK, StartTypeOK
  <1>2. CASE Discovered(ArgoCluster(c, pod.rev)) /\ Goes(c, p, "elect")
    BY <1>1, <1>2, GoesFits DEF Discovered, Served, Steps
  <1>3. CASE pod.polls < MaxPolls /\ SetPod(c, p, [pod EXCEPT !.polls = @ + 1])
    <2> DEFINE next == [pod EXCEPT !.polls = @ + 1]
    <2>1. next \in Pod /\ next.rev = pod.rev /\ next.pc = "await"
      BY <1>1, <1>3, StartupAssumption DEF Pod
    <2>2. pods'[c][p] = next => Becomes(c, p)
      BY <1>1, <2>1 DEF Becomes, Moved
    <2>3. SetPod(c, p, next)
      BY <1>3
    <2> HIDE DEF next
    <2> QED BY <2>1, <2>2, <2>3, SetPodFits
  <1>4. CASE Goes(c, p, "exit")
    BY <1>1, <1>4, GoesFits DEF Steps
  <1> QED BY <1>2, <1>3, <1>4 DEF Await

LEMMA RestartFits ==
    ASSUME TypeOK, NEW c \in Clusters, NEW p \in Slots, Restart(c, p)
    PROVE  Fits
  <1> DEFINE pod == pods[c][p]
             next == [pod EXCEPT !.pc = "start", !.polls = 0]
  <1>1. pod # NoPod /\ pod \in Pod /\ SetPod(c, p, next)
    BY DEF Restart, Is, TypeOK, StartTypeOK
  <1>2. next \in Pod /\ next.rev = pod.rev /\ next.pc = "start"
    BY <1>1, RestartTyped
  <1>3. pods'[c][p] = next => Becomes(c, p)
    BY <1>1, <1>2 DEF Becomes, Moved
  <1> HIDE DEF next
  <1> QED BY <1>1, <1>2, <1>3, SetPodFits

\* A process goes through its steps in their order, whatever happens around it.
LEMMA EveryStepFits ==
    ASSUME TypeOK, [Next]_vars
    PROVE  Fits
  <1>1. CASE UNCHANGED vars
    BY <1>1, Unmoved DEF vars, startVars
  <1>2. CASE HubNext /\ UNCHANGED startVars
    BY <1>2, Unmoved DEF startVars
  <1>3. ASSUME NEW c \in Clusters, Expire(c) \/ Register(c) PROVE Fits
    BY <1>3, Unmoved DEF Expire, Register
  <1>4. CASE ExpireRemote
    BY <1>4, Unmoved DEF ExpireRemote
  <1>5. ASSUME NEW c \in Clusters, NEW p \in Slots, TakeRemote(c, p) PROVE Fits
    BY <1>5, Unmoved DEF TakeRemote
  <1>6. ASSUME NEW c \in Clusters, NEW p \in Slots, CreatePod(c, p) PROVE Fits
    BY <1>6, CreateFits
  <1>7. ASSUME NEW c \in Clusters, NEW p \in Slots, RemovePod(c, p) PROVE Fits
    BY <1>7, RemoveFits
  <1>8. ASSUME NEW c \in Clusters, NEW p \in Slots, Validate(c, p) PROVE Fits
    <2> DEFINE pod == pods[c][p]
               step == IF Refuses(pod.rev) THEN "exit"
                       ELSE IF Mode(pod.rev) = "autonomous" THEN "await" ELSE "elect"
    <2>1. pod # NoPod /\ pod.pc = "start" /\ Goes(c, p, step)
      BY <1>8 DEF Validate, Is
    <2>2. step \in Steps /\ step # "sync" /\ step # "active"
      BY DEF Steps
    <2>3. step = "elect" => Mode(pod.rev) # "autonomous"
      OBVIOUS
    <2> HIDE DEF step
    <2> QED BY <2>1, <2>2, <2>3, GoesFits
  <1>9. ASSUME NEW c \in Clusters, NEW p \in Slots, Await(c, p) PROVE Fits
    BY <1>9, AwaitFits
  <1>10. ASSUME NEW c \in Clusters, NEW p \in Slots, Probe(c, p) \/ Die(c, p) PROVE Fits
    <2>1. pods[c][p] # NoPod /\ Goes(c, p, "exit")
      BY <1>10 DEF Probe, Die, Is, Running
    <2> QED BY <2>1, GoesFits DEF Steps
  <1>11. ASSUME NEW c \in Clusters, NEW p \in Slots, Elect(c, p) PROVE Fits
    <2>1. /\ pods[c][p] # NoPod /\ pods[c][p].pc = "elect" /\ Goes(c, p, "sync")
          /\ Elects(pods[c][p].rev) =>
                lease[c] = Nobody /\ lease' = [lease EXCEPT ![c] = p]
      BY <1>11 DEF Elect, Is
    <2>2. Elects(pods[c][p].rev) => lease'[c] = p
      BY <2>1 DEF TypeOK, StartTypeOK
    <2> QED BY <2>1, <2>2, GoesFits DEF Steps
  <1>12. ASSUME NEW c \in Clusters, NEW p \in Slots, Sync(c, p) PROVE Fits
    <2> DEFINE step == IF Served(ArgoCluster(c, pods[c][p].rev)) THEN "active" ELSE "exit"
    <2>1. pods[c][p] # NoPod /\ pods[c][p].pc = "sync" /\ Goes(c, p, step)
      BY <1>12 DEF Sync, Is
    <2>2. step \in Steps /\ step # "sync" /\ step # "elect"
      BY DEF Steps
    <2> HIDE DEF step
    <2> QED BY <2>1, <2>2, GoesFits
  <1>13. ASSUME NEW c \in Clusters, NEW p \in Slots, Restart(c, p) PROVE Fits
    BY <1>13, RestartFits
  <1> QED BY <1>1, <1>2, <1>3, <1>4, <1>5, <1>6, <1>7, <1>8, <1>9, <1>10, <1>11, <1>12,
             <1>13 DEF Next, StartNext, Step

\* Nothing that happens on a cluster changes what the hub has.
LEMMA HubUntouched ==
    ASSUME StartNext
    PROVE  UNCHANGED hubVars
  <1>1. ASSUME NEW c \in Clusters, Expire(c) \/ Register(c) PROVE UNCHANGED hubVars
    BY <1>1 DEF Expire, Register
  <1>2. CASE ExpireRemote
    BY <1>2 DEF ExpireRemote
  <1>3. ASSUME NEW c \in Clusters, NEW p \in Slots,
               CreatePod(c, p) \/ RemovePod(c, p) \/ TakeRemote(c, p)
        PROVE  UNCHANGED hubVars
    BY <1>3 DEF CreatePod, RemovePod, TakeRemote
  <1>4. ASSUME NEW c \in Clusters, NEW p \in Slots,
               Validate(c, p) \/ Probe(c, p) \/ Sync(c, p) \/ Elect(c, p) \/ Die(c, p)
        PROVE  UNCHANGED hubVars
    BY <1>4 DEF Validate, Probe, Sync, Elect, Die, Goes
  <1>5. ASSUME NEW c \in Clusters, NEW p \in Slots, Await(c, p) \/ Restart(c, p)
        PROVE  UNCHANGED hubVars
    BY <1>5 DEF Await, Restart, Goes
  <1> QED BY <1>1, <1>2, <1>3, <1>4, <1>5 DEF StartNext, Step

LEMMA StepsTyped ==
    ASSUME TypeOK, [Next]_vars
    PROVE  TypeOK'
  <1>1. pods' \in [Clusters -> [Slots -> Pod \cup {NoPod}]]
    BY EveryStepFits DEF Fits
  <1>2. HubTypeOK'
    <2>1. HubTypeOK /\ [HubNext]_hubVars
      BY HubUntouched DEF TypeOK, Next, vars
    <2> QED BY <2>1, HubTyped
  <1>3. /\ lease' \in [Clusters -> Slots \cup {Nobody}]
        /\ remote' \in (Clusters \X Slots) \cup {Nobody, Principal}
        /\ crd' \in [Clusters -> CRDStates]
        /\ faults' \in 0..MaxFaults
    <2> DEFINE Rest == /\ lease' \in [Clusters -> Slots \cup {Nobody}]
                       /\ remote' \in (Clusters \X Slots) \cup {Nobody, Principal}
                       /\ crd' \in [Clusters -> CRDStates]
                       /\ faults' \in 0..MaxFaults
    <2> SUFFICES Rest
      OBVIOUS
    <2>0. StartTypeOK /\ MaxFaults \in Nat
      BY StartupAssumption DEF TypeOK
    <2>1. CASE UNCHANGED vars \/ (HubNext /\ UNCHANGED startVars)
      BY <2>0, <2>1 DEF vars, startVars, StartTypeOK
    <2>2. ASSUME NEW c \in Clusters, NEW p \in Slots,
                 CreatePod(c, p) \/ RemovePod(c, p) \/ Step(c, p) \/ Die(c, p)
          PROVE  Rest
      BY <2>0, <2>2 DEF StartTypeOK, CreatePod, RemovePod, Step, Validate, Await, Probe, Sync,
                        Restart, Die, Goes
    <2>3. ASSUME NEW c \in Clusters, NEW p \in Slots, Elect(c, p) \/ TakeRemote(c, p)
          PROVE  Rest
      BY <2>0, <2>3 DEF StartTypeOK, Elect, TakeRemote, Goes
    <2>4. ASSUME NEW c \in Clusters, Expire(c) \/ Register(c) PROVE Rest
      BY <2>0, <2>4 DEF StartTypeOK, Expire, Register, CRDStates
    <2>5. CASE ExpireRemote
      BY <2>0, <2>5 DEF StartTypeOK, ExpireRemote
    <2> HIDE DEF Rest
    <2>6. StartNext => Rest
      BY <2>2, <2>3, <2>4, <2>5 DEF StartNext
    <2> QED BY <2>1, <2>6 DEF Next, vars
  <1> QED BY <1>1, <1>2, <1>3 DEF TypeOK, StartTypeOK

LEMMA InitTyped == Init => TypeOK
  <1>1. 0 \in 0..MaxChanges /\ 0 \in 0..MaxFaults
    <2>1. MaxChanges \in Nat
      BY OptionsAssumption, Zenon
    <2> QED BY <2>1, StartupAssumption
  <1> QED BY <1>1 DEF Init, HubInit, StartInit, TypeOK, HubTypeOK, StartTypeOK, CRDStates

\* Options, manifests, pods, leases and CRDs stay well formed through any number of
\* restarts, rollouts and faults.
THEOREM TypeCorrect == Spec => []TypeOK
  <1>1. Init => TypeOK
    BY InitTyped
  <1>2. TypeOK /\ [Next]_vars => TypeOK'
    BY StepsTyped
  <1> QED BY <1>1, <1>2, PTL DEF Spec

-----------------------------------------------------------------------------
(* What is installed starts. *)

\* runOperator refuses it only because an administrator has misspelt the mode.
Misspelt(c, rev) == Refuses(rev) => site[c].hosted /\ Mode(rev) = "invalid"

\* Hub and chart together let nothing else through, from the flags the hub serves
\* with to the pods of every revision still around.
Accepted ==
    /\ hub = "serving" => Parse(opts.mode) # "invalid"
    /\ \A c \in Clusters : manifest[c] # NoManifest => Misspelt(c, manifest[c])
    /\ OnlyUnknownModesRefused

\* The chart's own test is the one of runOperator, but for the mode's spelling.
LEMMA FailsFirst ==
    ASSUME NEW rev, Parse(rev.mode) # "invalid", ~Fails(rev)
    PROVE  ~Refuses(rev)
  BY Zenon DEF Fails, Refuses, Mode, Parse, Modes

LEMMA SitesStay ==
    ASSUME [Next]_vars
    PROVE  site' = site
  <1>1. CASE UNCHANGED vars \/ StartNext
    BY <1>1, HubUntouched DEF vars, hubVars
  <1>2. CASE HubNext
    BY <1>2 DEF HubNext, RestartHub, StartHub, Render, Claim, RunChart
  <1> QED BY <1>1, <1>2 DEF Next

LEMMA StaysAccepted ==
    ASSUME TypeOK, Accepted, [Next]_vars
    PROVE  Accepted'
  <1>0. site' = site
    BY SitesStay
  <1>1. OnlyUnknownModesRefused'
    <2> SUFFICES ASSUME NEW c \in Clusters, NEW p \in Slots, pods'[c][p] # NoPod
                 PROVE  Misspelt(c, pods'[c][p].rev)
      BY <1>0 DEF OnlyUnknownModesRefused, Misspelt
    <2>1. Becomes(c, p)
      BY EveryStepFits DEF Fits
    <2>2. pods[c][p] # NoPod => Misspelt(c, pods[c][p].rev)
      BY DEF Accepted, OnlyUnknownModesRefused, Misspelt
    <2>3. Created(c, p) => pods'[c][p].rev = manifest[c] /\ Misspelt(c, manifest[c])
      BY DEF Created, Accepted
    <2> QED BY <2>1, <2>2, <2>3 DEF Becomes, Moved
  <1> DEFINE Hub == /\ hub' = "serving" => Parse(opts'.mode) # "invalid"
                    /\ \A c \in Clusters :
                          manifest'[c] # NoManifest => Misspelt(c, manifest'[c])
  <1>2. ASSUME UNCHANGED <<hub, opts, manifest>> PROVE Hub
    BY <1>2 DEF Accepted
  <1>3. CASE UNCHANGED vars \/ StartNext
    <2>1. UNCHANGED <<hub, opts, manifest>>
      BY <1>3, HubUntouched DEF vars, hubVars
    <2> QED BY <1>0, <1>1, <1>2, <2>1 DEF Accepted, Misspelt
  <1>4. ASSUME NEW o \in HubOptions, RestartHub(o) PROVE Hub
    BY <1>4 DEF RestartHub, Accepted
  <1>5. ASSUME StartHub PROVE Hub
    BY <1>5 DEF StartHub, Valid, Accepted
  <1>6. ASSUME NEW c \in Clusters, Claim(c) PROVE Hub
    BY <1>6, <1>2 DEF Claim
  <1>7. ASSUME NEW c \in Clusters, NEW m, Misspelt(c, m), UNCHANGED <<hub, opts>>,
               manifest' = [manifest EXCEPT ![c] = m]
        PROVE  Hub
    BY <1>7 DEF TypeOK, HubTypeOK, Accepted
  <1>8. ASSUME NEW c \in Clusters, Render(c) PROVE Hub
    <2>1. Values(c).mode = opts.mode
      BY Zenon DEF Values
    <2>2. ~Refuses(Values(c))
      BY <1>8, <2>1, FailsFirst DEF Render, Accepted
    <2> QED BY <1>7, <1>8, <2>2 DEF Render, Misspelt
  <1>9. ASSUME NEW c \in Clusters, NEW v \in ChartValues, RunChart(c, v) PROVE Hub
    <2> DEFINE m == [mode |-> v.mode, remote |-> v.remote, named |-> v.named,
                     replicas |-> v.replicas,
                     user |-> IF site[c].openshift THEN "range" ELSE "fixed",
                     cert |-> changes']
    <2>1. m.mode = v.mode /\ m.remote = v.remote /\ m.named = v.named
      BY Zenon
    <2>2. /\ manifest' = [manifest EXCEPT ![c] = m]
          /\ ~Fails(v) /\ site[c].hosted /\ UNCHANGED <<hub, opts>>
      BY <1>9 DEF RunChart
    <2> HIDE DEF m
    <2>3. ~Fails(m)
      BY <2>1, <2>2, Zenon DEF Fails
    <2>4. Parse(m.mode) # "invalid" => ~Refuses(m)
      BY <2>3, FailsFirst
    <2>5. Misspelt(c, m)
      BY <2>2, <2>4 DEF Misspelt, Mode
    <2> QED BY <1>7, <2>2, <2>5
  <1> HIDE DEF Hub
  <1>10. HubNext => Hub
    BY <1>4, <1>5, <1>6, <1>8, <1>9 DEF HubNext
  <1>11. CASE HubNext
    BY <1>0, <1>1, <1>10, <1>11 DEF Hub, Accepted, Misspelt
  <1> QED BY <1>3, <1>11 DEF Next, vars

\* No pod, of whatever revision, ends at once because of the flags it was given,
\* unless an administrator has given the chart a mode there is not.
THEOREM InstalledStarts == Spec => []OnlyUnknownModesRefused
  <1>1. Init => TypeOK /\ Accepted
    <2>1. Init => TypeOK
      BY InitTyped
    <2>2. Init => Accepted
      BY DEF Init, HubInit, StartInit, Accepted, OnlyUnknownModesRefused
    <2> QED BY <2>1, <2>2
  <1>2. TypeOK /\ Accepted /\ [Next]_vars => TypeOK' /\ Accepted'
    BY StepsTyped, StaysAccepted
  <1>3. Accepted => OnlyUnknownModesRefused
    BY DEF Accepted
  <1> QED BY <1>1, <1>2, <1>3, PTL DEF Spec

-----------------------------------------------------------------------------
(* One of those that compete is active. *)

\* A pod that has been elected holds the lease for as long as it works.
Held ==
    \A c \in Clusters, p \in Slots :
        /\ pods[c][p] # NoPod
        /\ pods[c][p].pc \in {"sync", "active"}
        /\ Elects(pods[c][p].rev)
        => lease[c] = p

\* A lease is taken when it is free, and leaves its holder when that has given up.
LEMMA LeaseMoves ==
    ASSUME TypeOK, [Next]_vars, NEW c \in Clusters
    PROVE  \/ lease'[c] = lease[c]
           \/ lease[c] = Nobody
           \/ ~Is(c, lease[c], "sync") /\ ~Is(c, lease[c], "active") /\ UNCHANGED pods
  <1> DEFINE Goal == \/ lease'[c] = lease[c]
                     \/ lease[c] = Nobody
                     \/ /\ ~Is(c, lease[c], "sync") /\ ~Is(c, lease[c], "active")
                        /\ UNCHANGED pods
  <1> SUFFICES Goal
    OBVIOUS
  <1>1. CASE UNCHANGED lease
    BY <1>1
  <1>2. ASSUME NEW d \in Clusters, NEW p \in Slots, Elect(d, p) PROVE Goal
    BY <1>2 DEF Elect, TypeOK, StartTypeOK
  <1>3. ASSUME NEW d \in Clusters, Expire(d) PROVE Goal
    BY <1>3 DEF Expire, TypeOK, StartTypeOK
  <1>4. ASSUME NEW d \in Clusters, NEW p \in Slots,
               \/ CreatePod(d, p) \/ RemovePod(d, p) \/ Step(d, p)
               \/ TakeRemote(d, p) \/ Die(d, p)
        PROVE  UNCHANGED lease
    BY <1>4 DEF CreatePod, RemovePod, Step, Validate, Await, Probe, Sync, Restart, TakeRemote, Die
  <1>5. ASSUME NEW d \in Clusters, Register(d) PROVE UNCHANGED lease
    BY <1>5 DEF Register
  <1>6. CASE ExpireRemote
    BY <1>1, <1>6 DEF ExpireRemote
  <1>7. CASE UNCHANGED vars \/ (HubNext /\ UNCHANGED startVars)
    BY <1>1, <1>7 DEF vars, startVars
  <1> HIDE DEF Goal
  <1>8. StartNext => Goal
    BY <1>1, <1>2, <1>3, <1>4, <1>5, <1>6 DEF StartNext
  <1> QED BY <1>7, <1>8 DEF Next, vars

LEMMA StaysHeld ==
    ASSUME TypeOK, Held, [Next]_vars
    PROVE  Held'
  <1> SUFFICES ASSUME NEW c \in Clusters, NEW p \in Slots,
                      pods'[c][p] # NoPod, pods'[c][p].pc \in {"sync", "active"},
                      Elects(pods'[c][p].rev)
               PROVE  lease'[c] = p
    BY DEF Held
  <1>1. Becomes(c, p)
    BY EveryStepFits DEF Fits
  <1>2. ~Created(c, p)
    BY DEF Created
  <1>3. CASE Moved(c, p) /\ pods[c][p].pc = "elect"
    BY <1>3 DEF Moved
  <1>4. /\ ~(Moved(c, p) /\ pods[c][p].pc = "elect")
        => /\ pods[c][p] # NoPod /\ pods[c][p].pc \in {"sync", "active"}
           /\ Elects(pods[c][p].rev)
    BY <1>1, <1>2 DEF Becomes, Moved
  <1>5. CASE /\ pods[c][p] # NoPod /\ pods[c][p].pc \in {"sync", "active"}
             /\ Elects(pods[c][p].rev)
    <2>1. lease[c] = p
      BY <1>5 DEF Held
    <2>2. Is(c, p, "sync") \/ Is(c, p, "active")
      BY <1>5 DEF Is
    <2>3. lease[c] # Nobody
      BY <2>1, StartupAssumption
    <2> QED BY <2>1, <2>2, <2>3, LeaseMoves
  <1> QED BY <1>3, <1>4, <1>5

\* The lease keeps all but one of the pods that compete from working, through
\* rollouts, crashes, restarts and expiry.
THEOREM OneActiveAtATime == Spec => []OneActive
  <1>1. Init => TypeOK /\ Held
    <2>1. Init => TypeOK
      BY InitTyped
    <2>2. Init => Held
      BY DEF Init, StartInit, Held
    <2> QED BY <2>1, <2>2
  <1>2. TypeOK /\ Held /\ [Next]_vars => TypeOK' /\ Held'
    BY StepsTyped, StaysHeld
  <1>3. Held => OneActive
    BY DEF Held, OneActive, Active, Is
  <1> QED BY <1>1, <1>2, <1>3, PTL DEF Spec

-----------------------------------------------------------------------------
(* Applications are watched where they are served. *)

LEMMA ServedStays ==
    ASSUME TypeOK, [Next]_vars, NEW k \in Clusters \cup {Principal}, Served(k)
    PROVE  k = Principal \/ crd'[k] = "served"
  <1> DEFINE Goal == k = Principal \/ crd'[k] = "served"
  <1> SUFFICES Goal
    OBVIOUS
  <1>1. CASE UNCHANGED crd
    BY <1>1 DEF Served
  <1>2. ASSUME NEW c \in Clusters, Register(c) PROVE Goal
    BY <1>2 DEF Register, Served, TypeOK, StartTypeOK
  <1>3. ASSUME NEW c \in Clusters, NEW p \in Slots,
               \/ CreatePod(c, p) \/ RemovePod(c, p) \/ Step(c, p)
               \/ Elect(c, p) \/ TakeRemote(c, p) \/ Die(c, p)
        PROVE  UNCHANGED crd
    BY <1>3 DEF CreatePod, RemovePod, Step, Validate, Await, Probe, Sync, Restart, Elect,
                TakeRemote, Die, Goes
  <1>4. ASSUME NEW c \in Clusters, Expire(c) PROVE UNCHANGED crd
    BY <1>4 DEF Expire
  <1>5. CASE ExpireRemote
    BY <1>1, <1>5 DEF ExpireRemote
  <1>6. CASE UNCHANGED vars \/ (HubNext /\ UNCHANGED startVars)
    BY <1>1, <1>6 DEF vars, startVars
  <1> HIDE DEF Goal
  <1>7. StartNext => Goal
    BY <1>1, <1>2, <1>3, <1>4, <1>5 DEF StartNext
  <1> QED BY <1>6, <1>7 DEF Next, vars

LEMMA StaysServed ==
    ASSUME TypeOK, WatchesServedOnly, [Next]_vars
    PROVE  WatchesServedOnly'
  <1> SUFFICES ASSUME NEW c \in Clusters, NEW p \in Slots,
                      pods'[c][p] # NoPod, Mode(pods'[c][p].rev) = "autonomous",
                      pods'[c][p].pc \in {"elect", "sync", "active"}
               PROVE  LET k == ArgoCluster(c, pods'[c][p].rev)
                      IN  k = Principal \/ crd'[k] = "served"
    BY DEF WatchesServedOnly, Served, ArgoCluster
  <1>1. Becomes(c, p)
    BY EveryStepFits DEF Fits
  <1>2. pods[c][p] # NoPod /\ pods'[c][p].rev = pods[c][p].rev
    BY <1>1 DEF Becomes, Created, Moved
  <1>3. \/ pods[c][p].pc \in {"elect", "sync", "active"}
        \/ Served(ArgoCluster(c, pods[c][p].rev))
    BY <1>1, <1>2 DEF Becomes, Created, Moved
  <1>4. Served(ArgoCluster(c, pods[c][p].rev))
    BY <1>2, <1>3 DEF WatchesServedOnly
  <1>5. ArgoCluster(c, pods[c][p].rev) \in Clusters \cup {Principal}
    BY DEF ArgoCluster
  <1> QED BY <1>2, <1>4, <1>5, ServedStays

\* In autonomous mode no process gets past the wait before the CRD is there, and
\* none is left beyond it without.
THEOREM WatchesWhatIsServed == Spec => []WatchesServedOnly
  <1>1. Init => TypeOK /\ WatchesServedOnly
    <2>1. Init => TypeOK
      BY InitTyped
    <2>2. Init => WatchesServedOnly
      BY DEF Init, StartInit, WatchesServedOnly
    <2> QED BY <2>1, <2>2
  <1>2. TypeOK /\ WatchesServedOnly /\ [Next]_vars => TypeOK' /\ WatchesServedOnly'
    BY StepsTyped, StaysServed
  <1> QED BY <1>1, <1>2, PTL DEF Spec
=============================================================================
