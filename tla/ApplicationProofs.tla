-------------------------- MODULE ApplicationProofs --------------------------
(***************************************************************************)
(* What the invariant of HelmReleaseProofs says of the Applications.       *)
(* First, HelmReleaseReconciler implements ApplicationMirror: every step   *)
(* of it is a step of the mirror or leaves the mirror as it is.            *)
(***************************************************************************)
EXTENDS HelmReleaseProofs


MirrorStep == [Mirror!Next]_Mirror!vars

\* Only Applications that are there, and whose release is not held, are missed.
MissedThere == \A k \in missed : k \in Keys /\ Unheld(k)

\* No Application is overlooked in this step.
NoneMissed == MissedThere /\ missed' = {k \in missed : Unheld(k)'}

\* Nothing is forgotten while no release comes to be held and no Application goes.
LEMMA MissedKept ==
    ASSUME TypeOK, NoneMissed,
           \A h \in HelmReleases : Phase(h)' = "held" => Phase(h) = "held",
           \A k \in missed : OwnersAt(k)' = OwnersAt(k)
    PROVE  missed' = missed
  <1> SUFFICES ASSUME NEW k \in missed PROVE Unheld(k)'
    BY DEF NoneMissed
  <1>1. PICK h \in OwnersAt(k) : Phase(h) # "held"
    BY DEF NoneMissed, MissedThere, Unheld
  <1>2. h \in HelmReleases
    BY DEF OwnersAt, NoneMissed, MissedThere, TypeOK, Application
  <1> QED BY <1>1, <1>2 DEF Unheld

\* A bystander sees nothing where neither a phase nor an Application changes.
LEMMA Stutter ==
    ASSUME TypeOK, NoneMissed,
           \A h \in HelmReleases : Phase(h)' = Phase(h),
           \A k \in Keys : OwnersAt(k)' = OwnersAt(k) /\ (BeingDeleted(k)' <=> BeingDeleted(k))
    PROVE  MirrorStep
  <1>1. missed' = missed
    BY MissedKept DEF NoneMissed, MissedThere
  <1>2. UNCHANGED Mirror!vars
    BY <1>1 DEF Mirror!vars
  <1> QED BY <1>2 DEF MirrorStep

LEMMA SameApplicationsSeen ==
    ASSUME UNCHANGED app
    PROVE  \A k \in Keys : OwnersAt(k)' = OwnersAt(k) /\ (BeingDeleted(k)' <=> BeingDeleted(k))
  BY DEF OwnersAt, BeingDeleted

\* Writing a HelmRelease moves the phase of no other one.
LEMMA OthersKept ==
    ASSUME TypeOK, NEW h \in HelmReleases, NEW o, hr' = [hr EXCEPT ![h] = o],
           NEW g \in HelmReleases, g # h
    PROVE  Phase(g)' = Phase(g)
  BY DEF TypeOK, Phase, Finalized

\* An edit that leaves the finalizer and the deletion mark alone is not seen.
LEMMA PhaseKept ==
    ASSUME TypeOK, NoneMissed, NEW h \in HelmReleases, NEW o, hr' = [hr EXCEPT ![h] = o], UNCHANGED app,
           Finalized(o) <=> Finalized(hr[h]),
           Finalized(o) => (o.del <=> hr[h].del)
    PROVE  MirrorStep
  <1>1. Phase(h)' = Phase(h)
    BY DEF TypeOK, Phase, Finalized
  <1>2. \A g \in HelmReleases : Phase(g)' = Phase(g)
    BY <1>1, OthersKept
  <1> QED BY <1>2, SameApplicationsSeen, Stutter

\* One release goes from one phase to another.
LEMMA PhaseTurn ==
    ASSUME TypeOK, NEW h \in HelmReleases, NEW o, hr' = [hr EXCEPT ![h] = o], UNCHANGED app,
           NEW from, NEW to, Phase(h) = from, Phase(h)' = to
    PROVE  Mirror!Becomes(h, from, to)
  <1>1. \A g \in HelmReleases \ {h} : Phase(g)' = Phase(g)
    BY OthersKept
  <1> QED BY <1>1, SameApplicationsSeen DEF Mirror!Becomes

\* The finalizer is added, and it is removed.
LEMMA TakenOn ==
    ASSUME TypeOK, NoneMissed, NEW h \in HelmReleases, NEW o \in HelmReleaseObject,
           hr' = [hr EXCEPT ![h] = o], UNCHANGED app, ~Finalized(hr[h]), o.fin, ~o.del
    PROVE  Mirror!TakeOn(h)
  <1>1. hr'[h] = o /\ o # NoHR
    BY AbsentAssumption DEF TypeOK
  <1>2. Phase(h) = "out" /\ Phase(h)' = "held"
    BY <1>1 DEF Phase, Finalized
  <1>3. Mirror!Becomes(h, "out", "held")
    BY <1>2, PhaseTurn
  <1>4. ASSUME NEW k \in missed PROVE Unheld(k)' <=> h \notin OwnersAt(k)
    <2>1. k \in Keys /\ OwnersAt(k)' = OwnersAt(k) /\ OwnersAt(k) \subseteq HelmReleases
      BY SameApplicationsSeen DEF NoneMissed, MissedThere, OwnersAt, TypeOK, Application
    <2>2. PICK g \in HelmReleases : OwnersAt(k) = {g} /\ Phase(g) # "held"
      BY <2>1 DEF NoneMissed, MissedThere, Unheld, OwnersAt
    <2>3. CASE g = h
      BY <1>2, <2>1, <2>2, <2>3 DEF Unheld
    <2>4. CASE g # h
      <3>1. Phase(g)' = Phase(g)
        BY <2>4, OthersKept
      <3> QED BY <2>1, <2>2, <2>4, <3>1 DEF Unheld
    <2> QED BY <2>3, <2>4
  <1>5. missed' = {k \in missed : h \notin OwnersAt(k)}
    BY <1>4 DEF NoneMissed
  <1> QED BY <1>3, <1>5 DEF Mirror!TakeOn, NoneMissed, MissedThere

LEMMA LetOut ==
    ASSUME TypeOK, NoneMissed, NEW h \in HelmReleases, hr' = [hr EXCEPT ![h] = NoHR], UNCHANGED app,
           Finalized(hr[h]), hr[h].del
    PROVE  Mirror!Becomes(h, "leaving", "out") /\ missed' = missed
  <1>1. hr'[h] = NoHR
    BY DEF TypeOK
  <1>2. Phase(h) = "leaving" /\ Phase(h)' = "out"
    BY <1>1 DEF Phase, Finalized
  <1>3. \A g \in HelmReleases : Phase(g)' = "held" => Phase(g) = "held"
    BY <1>2, OthersKept
  <1>4. missed' = missed
    BY <1>3, MissedKept, SameApplicationsSeen DEF NoneMissed, MissedThere
  <1> QED BY <1>2, <1>4, PhaseTurn

\* An Application that exists keeps its owner, and its mark when it has one: it
\* is marked, it vanishes, or nothing is seen.
LEMMA ApplicationTurn ==
    ASSUME TypeOK, NoneMissed, NEW k \in Keys, NEW a \in Application \cup {NoApp},
           app' = [app EXCEPT ![k] = a], UNCHANGED hr, app[k] # NoApp,
           a # NoApp => a.owner = app[k].owner /\ (app[k].del => a.del)
    PROVE  MirrorStep
  <1>1. \A h \in HelmReleases : Phase(h)' = Phase(h)
    BY DEF Phase, Finalized
  <1>2. \A j \in Keys \ {k} : /\ OwnersAt(j)' = OwnersAt(j)
                              /\ BeingDeleted(j)' <=> BeingDeleted(j)
    BY DEF TypeOK, OwnersAt, BeingDeleted
  <1>3. OwnersAt(k) # {}
    BY DEF OwnersAt
  <1>4. app'[k] = a
    BY DEF TypeOK
  <1>5. CASE a = NoApp
    <2>1. OwnersAt(k)' = {} /\ ~BeingDeleted(k)'
      BY <1>4, <1>5 DEF OwnersAt, BeingDeleted
    <2>2. ASSUME NEW j \in missed, j # k PROVE Unheld(j)'
      <3>1. PICK h \in OwnersAt(j) : Phase(h) # "held"
        BY DEF NoneMissed, MissedThere, Unheld
      <3>2. h \in HelmReleases /\ OwnersAt(j)' = OwnersAt(j)
        BY <1>2, <2>2 DEF OwnersAt, NoneMissed, MissedThere, TypeOK, Application
      <3> QED BY <1>1, <3>1, <3>2 DEF Unheld
    <2>3. missed' = missed \ {k}
      BY <2>1, <2>2 DEF NoneMissed, Unheld
    <2>4. Mirror!Vanish(k)
      BY <1>1, <1>2, <1>3, <2>1, <2>3 DEF Mirror!Vanish
    <2> QED BY <2>4 DEF MirrorStep, Mirror!Next
  <1>6. CASE a # NoApp
    <2>1. OwnersAt(k)' = OwnersAt(k) /\ (BeingDeleted(k) => BeingDeleted(k)')
      BY <1>4, <1>6 DEF OwnersAt, BeingDeleted
    <2>2. CASE BeingDeleted(k)' <=> BeingDeleted(k)
      BY <1>1, <1>2, <2>1, <2>2, Stutter
    <2>3. CASE BeingDeleted(k)' /\ ~BeingDeleted(k)
      <3>1. missed' = missed
        BY <1>1, <1>2, <2>1, MissedKept DEF NoneMissed, MissedThere
      <3>2. Mirror!Retire(k)
        BY <1>1, <1>2, <1>3, <2>1, <2>3, <3>1 DEF Mirror!Retire
      <3> QED BY <3>2 DEF MirrorStep, Mirror!Next
    <2> QED BY <2>1, <2>2, <2>3
  <1> QED BY <1>5, <1>6

\* An Application appears for a release that is held and at home there.
LEMMA ApplicationAppears ==
    ASSUME TypeOK, NoneMissed, NEW h \in HelmReleases, NEW k \in Keys, NEW a \in Application,
           app' = [app EXCEPT ![k] = a], UNCHANGED hr, app[k] = NoApp,
           a.owner = h, ~a.del, Finalized(hr[h]), k \in Home(h)
    PROVE  MirrorStep
  <1>1. \A g \in HelmReleases : Phase(g)' = Phase(g)
    BY DEF Phase, Finalized
  <1>2. \A j \in Keys \ {k} : OwnersAt(j)' = OwnersAt(j)
    BY DEF TypeOK, OwnersAt
  <1>3. OwnersAt(k) = {} /\ OwnersAt(k)' = {h}
    BY AbsentAssumption DEF TypeOK, OwnersAt
  <1>4. \A j \in Keys : BeingDeleted(j)' <=> BeingDeleted(j)
    BY DEF TypeOK, BeingDeleted
  <1>5. Phase(h) # "out"
    BY DEF Phase
  <1>6. missed' = missed
    <2>1. k \notin missed
      BY <1>3 DEF NoneMissed, MissedThere, Unheld
    <2> QED BY <1>1, <1>2, <2>1, MissedKept DEF NoneMissed, MissedThere
  <1>7. Mirror!Appear(h, k)
    BY <1>1, <1>2, <1>3, <1>4, <1>5, <1>6 DEF Mirror!Appear
  <1> QED BY <1>7 DEF MirrorStep, Mirror!Next

-----------------------------------------------------------------------------
\* Nothing happens on the API servers.
LEMMA Elsewhere == ASSUME TypeOK, NoneMissed, UNCHANGED <<hr, app>> PROVE MirrorStep
  <1>1. \A h \in HelmReleases : Phase(h)' = Phase(h)
    BY DEF Phase, Finalized
  <1> QED BY <1>1, SameApplicationsSeen, Stutter

LEMMA DeletedMark ==
    ASSUME NEW a \in Application
    PROVE  /\ Deleted(a) \in Application \cup {NoApp}
           /\ Deleted(a) # NoApp => Deleted(a).owner = a.owner /\ (a.del => Deleted(a).del)
  BY DEF Deleted, Application

LEMMA UserMirror == TypeOK /\ NoneMissed /\ UserStep => MirrorStep
  <1> SUFFICES ASSUME TypeOK, NoneMissed, UserStep PROVE MirrorStep
    OBVIOUS
  <1>1. ASSUME NEW h \in HelmReleases, NEW s \in Specs, CreateHelmRelease(h, s)
        PROVE  MirrorStep
    <2> DEFINE o == [fin |-> FALSE, del |-> FALSE, spec |-> s, mirror |-> NoStatus]
    <2>1. ~Finalized(o) /\ ~Finalized(hr[h])
      BY <1>1 DEF CreateHelmRelease, Finalized
    <2> QED BY <1>1, <2>1, PhaseKept DEF CreateHelmRelease, SameApplications
  <1>2. ASSUME NEW h \in HelmReleases, NEW s \in Specs, EditHelmRelease(h, s)
        PROVE  MirrorStep
    <2> DEFINE o == [hr[h] EXCEPT !.spec = s]
    <2>1. /\ o \in HelmReleaseObject
          /\ o.fin = hr[h].fin /\ o.del = hr[h].del /\ hr[h] # NoHR
      BY <1>2 DEF EditHelmRelease, TypeOK, HelmReleaseObject
    <2>2. o # NoHR
      BY <2>1, AbsentAssumption
    <2>3. Finalized(o) <=> Finalized(hr[h])
      BY <2>1, <2>2 DEF Finalized
    <2> HIDE DEF o
    <2> QED BY <1>2, <2>1, <2>3, PhaseKept DEF EditHelmRelease, SameApplications, o
  <1>3. ASSUME NEW h \in HelmReleases, DeleteHelmRelease(h)
        PROVE  MirrorStep
    <2>1. hr[h] \in HelmReleaseObject /\ hr[h] # NoHR /\ ~hr[h].del /\ UNCHANGED app
      BY <1>3 DEF DeleteHelmRelease, SameApplications, TypeOK
    <2>2. CASE hr[h].fin
      <3> DEFINE o == [hr[h] EXCEPT !.del = TRUE]
      <3>1. o \in HelmReleaseObject /\ o.fin /\ o.del
        BY <2>1, <2>2 DEF HelmReleaseObject
      <3>2. hr' = [hr EXCEPT ![h] = o]
        BY <1>3, <2>2 DEF DeleteHelmRelease
      <3>3. Phase(h) = "held" /\ Phase(h)' = "leaving"
        BY <2>1, <2>2, <3>1, <3>2, AbsentAssumption DEF Phase, Finalized, TypeOK
      <3> HIDE DEF o
      <3>4. \A g \in HelmReleases : Phase(g)' = "held" => Phase(g) = "held"
        BY <3>2, <3>3, OthersKept
      <3>5. missed' = missed
        BY <2>1, <3>4, MissedKept, SameApplicationsSeen DEF NoneMissed, MissedThere
      <3>6. Mirror!Leave(h)
        BY <2>1, <3>2, <3>3, <3>5, PhaseTurn DEF Mirror!Leave
      <3> QED BY <3>6 DEF MirrorStep, Mirror!Next
    <2>3. CASE ~hr[h].fin
      <3>1. hr' = [hr EXCEPT ![h] = NoHR]
        BY <1>3, <2>3 DEF DeleteHelmRelease
      <3> QED BY <2>1, <2>3, <3>1, PhaseKept DEF Finalized
    <2> QED BY <2>2, <2>3
  <1>4. ASSUME NEW k \in Keys, UserDeletesApplication(k)
        PROVE  MirrorStep
    <2>1. app[k] # NoApp /\ app[k] \in Application
      BY <1>4 DEF UserDeletesApplication, TypeOK
    <2> QED BY <1>4, <2>1, DeletedMark, ApplicationTurn
            DEF UserDeletesApplication, SetApplication
  <1>5. ASSUME NEW k \in Keys, UserEditsApplication(k)
        PROVE  MirrorStep
    <2>1. PICK a \in Drifted(app[k]) : SetApplication(k, a)
      BY <1>5 DEF UserEditsApplication
    <2>2. app[k] # NoApp /\ app[k] \in Application /\ app'[k] \in Application \cup {NoApp}
      BY <1>5, UserTyping DEF UserEditsApplication, TypeOK
    <2>3. a.owner = app[k].owner /\ a.del = app[k].del
      BY <2>1, <2>2 DEF Drifted, Application
    <2>4. app'[k] = a
      BY <2>1 DEF SetApplication, TypeOK
    <2> QED BY <1>5, <2>1, <2>2, <2>3, <2>4, ApplicationTurn
            DEF UserEditsApplication, SetApplication
  <1>6. ASSUME NEW url, EditRepository(url) PROVE MirrorStep
    BY <1>6, Elsewhere DEF EditRepository, SameApplications
  <1>7. ASSUME NEW nss, MoveArgoServer(nss) PROVE MirrorStep
    BY <1>7, Elsewhere DEF MoveArgoServer, SameApplications
  <1> QED BY <1>1, <1>2, <1>3, <1>4, <1>5, <1>6, <1>7 DEF UserStep

LEMMA EnvironmentMirror == TypeOK /\ NoneMissed /\ (ArgoStep \/ EventStep \/ Crash) => MirrorStep
  <1> SUFFICES ASSUME TypeOK, NoneMissed, ArgoStep \/ EventStep \/ Crash PROVE MirrorStep
    OBVIOUS
  <1>1. ASSUME NEW k \in Keys, NEW st \in AppStatuses, ArgoReports(k, st) PROVE MirrorStep
    <2> DEFINE a == [app[k] EXCEPT !.status = st]
    <2>1. a \in Application /\ a.owner = app[k].owner /\ a.del = app[k].del
      BY <1>1 DEF ArgoReports, TypeOK, Application, Statuses
    <2> HIDE DEF a
    <2> QED BY <1>1, <2>1, ApplicationTurn DEF ArgoReports, SetApplication, a
  <1>2. ASSUME NEW k \in Keys, ArgoPrunes(k) PROVE MirrorStep
    BY <1>2, ApplicationTurn DEF ArgoPrunes, SetApplication
  <1>3. CASE EventStep \/ Crash
    BY <1>3, Elsewhere DEF EventStep, Crash, HelmReleaseEvent, RequeueTimer, Resync,
                           ApplicationEvent, api
  <1> QED BY <1>1, <1>2, <1>3 DEF ArgoStep

LEMMA ReconcileMirror ==
    ASSUME TypeOK, NoneMissed, NEW h \in HelmReleases, Reconcile(h) PROVE MirrorStep
  BY Elsewhere DEF Reconcile, ReconcileNotFound, ReconcileNoArgo, ReconcileNothing,
     ReconcileDelete, ReconcileFinalizer, ReconcileBlocked, ReconcileSync, Take, api, caches

\* The worker's calls: the one place where a release is taken on or let go, and
\* where an Application appears.
LEMMA WorkerMirror ==
    ASSUME StableNames, TypeOK, ReleaseInvariant, NoneMissed, WorkerStep
    PROVE  MirrorStep
  <1> USE DEF At, SameApplications, ReleaseInvariant, ReleaseSound
  <1>1. CASE AddFinalizer
    <2> DEFINE h == worker.key  o == [worker.obj EXCEPT !.fin = TRUE]
    <2>1. /\ h \in HelmReleases
          /\ worker.obj \in HelmReleaseObject
          /\ ~worker.obj.fin /\ ~worker.obj.del
      BY <1>1, WorkerTypes DEF AddFinalizer, WorkerSound
    <2>2. /\ hr' = hr \/ (hr[h] = worker.obj /\ hr' = [hr EXCEPT ![h] = o])
          /\ UNCHANGED app
      BY <1>1 DEF AddFinalizer, UpdateHelmRelease, UpdateFails
    <2>3. o \in HelmReleaseObject /\ o.fin /\ ~o.del
      BY <2>1 DEF HelmReleaseObject
    <2>4. CASE hr[h] = worker.obj /\ hr' = [hr EXCEPT ![h] = o]
      <3>1. ~Finalized(hr[h])
        BY <2>1, <2>4 DEF Finalized
      <3> HIDE DEF h, o
      <3>2. Mirror!TakeOn(h)
        BY <2>1, <2>2, <2>3, <2>4, <3>1, TakenOn
      <3> QED BY <2>1, <3>2 DEF MirrorStep, Mirror!Next
    <2> QED BY <2>2, <2>4, Elsewhere
  <1>2. CASE DeleteApplication
    <2> DEFINE k == worker.app
    <2>1. k \in Keys /\ UNCHANGED hr
      BY <1>2, WorkerTypes DEF DeleteApplication
    <2>2. UNCHANGED app \/ (app' = [app EXCEPT ![k] = Deleted(app[k])] /\ app[k] # NoApp)
      BY <1>2, <2>1 DEF DeleteApplication, SetApplication, Deleted, TypeOK
    <2>3. app[k] # NoApp => app[k] \in Application
      BY <2>1 DEF TypeOK
    <2> QED BY <2>1, <2>2, <2>3, DeletedMark, ApplicationTurn, Elsewhere
  <1>3. CASE RecheckApplication
    BY <1>3, Elsewhere DEF RecheckApplication
  <1>4. CASE ReleaseHelmRelease
    <2> DEFINE h == worker.key
    <2>1. /\ h \in HelmReleases /\ worker.app \in Home(h)
          /\ worker.obj \in HelmReleaseObject /\ worker.obj.fin /\ worker.obj.del
          /\ worker.app \in Keys
          /\ app[worker.app] = NoApp \/ worker.app \in missed
      BY <1>4, WorkerTypes DEF ReleaseHelmRelease, WorkerSound
    <2>2. /\ hr' = hr \/ (hr[h] = worker.obj /\ hr' = [hr EXCEPT ![h] = NoHR])
          /\ UNCHANGED app
      BY <1>4 DEF ReleaseHelmRelease, UpdateHelmRelease, UpdateFails
    <2>3. CASE hr[h] = worker.obj /\ hr' = [hr EXCEPT ![h] = NoHR]
      <3>1. Finalized(hr[h]) /\ hr[h].del
        BY <2>1, <2>3, AbsentAssumption DEF Finalized
      <3>2. Mirror!Becomes(h, "leaving", "out") /\ missed' = missed
        <4> HIDE DEF h
        <4> QED BY <2>1, <2>2, <2>3, <3>1, LetOut
      <3>3. \A k \in Keys \ missed : h \notin OwnersAt(k)
        <4> SUFFICES ASSUME NEW k \in Keys \ missed, app[k] # NoApp, app[k].owner = h
                     PROVE  FALSE
          BY DEF OwnersAt
        <4>1. k \in Home(h)
          BY <2>1 DEF ApplicationsHeld
        <4> QED BY <2>1, <4>1, HomeUnique
      <3>4. Mirror!LetGo(h)
        BY <3>2, <3>3 DEF Mirror!LetGo
      <3> QED BY <2>1, <3>4 DEF MirrorStep, Mirror!Next
    <2> QED BY <2>2, <2>3, Elsewhere
  <1>5. CASE WriteApplication
    <2> DEFINE h == worker.key  k == worker.app
    <2>1. /\ h \in HelmReleases /\ k \in Keys /\ worker.pc = "write"
          /\ worker.base \in Application \cup {NoApp}
      BY <1>5, WorkerTypes DEF WriteApplication
    <2>2. Finalized(hr[h]) /\ k \in Home(h)
      BY <2>1 DEF WorkerSound
    <2>3. /\ UNCHANGED hr
          /\ \/ UNCHANGED app
             \/ Writable /\ app' = [app EXCEPT ![k] = Written]
      BY <1>5 DEF WriteApplication, SetApplication
    <2>4. ASSUME Writable, app' = [app EXCEPT ![k] = Written] PROVE MirrorStep
      <3>1. Written \in Application
        BY <2>1, <2>4, WrittenTyping
      <3>2. CASE worker.base = NoApp
        <4>1. Written.owner = h /\ ~Written.del /\ app[k] = NoApp
          BY <2>4, <3>2 DEF Written, NewApplication, Writable
        <4> QED BY <2>1, <2>2, <2>3, <2>4, <3>1, <4>1, ApplicationAppears
      <3>3. CASE worker.base # NoApp
        <4>1. app[k] \in Application /\ worker.base \in Application /\ app[k] # NoApp
          BY <2>1, <2>4, <3>3 DEF Writable, TypeOK
        <4>2. app[k].owner = h
          <5>1. app[k].owner \in HelmReleases /\ k \in Home(app[k].owner)
            BY <2>1, <4>1 DEF ApplicationsHeld, Application
          <5> QED BY <2>1, <2>2, <5>1, HomeUnique
        <4>3. Written.owner = h /\ Written.del = app[k].del
          BY <3>3, <4>1, <4>2 DEF Written, Merged, Rendered, Application
        <4> QED BY <2>1, <2>3, <2>4, <3>1, <4>1, <4>2, <4>3, ApplicationTurn
      <3> QED BY <3>2, <3>3
    <2> QED BY <2>3, <2>4, Elsewhere
  <1>6. CASE MirrorStatus
    <2> DEFINE h == worker.key  o == [hr[h] EXCEPT !.mirror = worker.status]
    <2>1. h \in HelmReleases
      BY <1>6, WorkerTypes DEF MirrorStatus
    <2>2. /\ hr' = hr \/ (hr[h] # NoHR /\ hr' = [hr EXCEPT ![h] = o])
          /\ UNCHANGED app
      BY <1>6 DEF MirrorStatus
    <2>3. hr[h] # NoHR => o # NoHR /\ o.fin = hr[h].fin /\ o.del = hr[h].del
      BY <1>6, <2>1, WorkerTypes, AbsentAssumption DEF MirrorStatus, HelmReleaseObject, TypeOK
    <2>4. hr[h] # NoHR => /\ Finalized(o) <=> Finalized(hr[h])
                          /\ o.del <=> hr[h].del
      BY <2>3 DEF Finalized
    <2> HIDE DEF o
    <2> QED BY <2>1, <2>2, <2>4, PhaseKept, Elsewhere
  <1> QED BY <1>1, <1>2, <1>3, <1>4, <1>5, <1>6 DEF WorkerStep

\* The cache shows no Application to the deletion of its release, though there is
\* one: it is overlooked, unless it has been already.
LEMMA Missed ==
    ASSUME StableNames, TypeOK, ReleaseInvariant, MissedThere, missed' = Overlooked,
           DeleteApplication \/ RecheckApplication, Misses(worker.app)
    PROVE  MirrorStep
  <1> DEFINE h == worker.key  k == worker.app
  <1>1. /\ h \in HelmReleases /\ k \in Keys /\ k \in Home(h)
        /\ Finalized(hr[h]) => hr[h].del
        /\ app[k] # NoApp
    BY WorkerTypes DEF Misses, ReleaseInvariant, ReleaseSound, WorkerSound
  <1>2. UNCHANGED <<hr, app>>
    BY DEF Misses, DeleteApplication, RecheckApplication, SameApplications
  <1>3. app[k].owner = h
    <2>1. app[k].owner \in HelmReleases /\ k \in Home(app[k].owner)
      BY <1>1 DEF ReleaseInvariant, ReleaseSound, ApplicationsHeld, TypeOK, Application
    <2> QED BY <1>1, <2>1, HomeUnique
  <1>4. OwnersAt(k) = {h} /\ Phase(h) # "held"
    BY <1>1, <1>3 DEF OwnersAt, Phase
  <1>5. /\ \A g \in HelmReleases : Phase(g)' = Phase(g)
        /\ \A j \in Keys : OwnersAt(j)' = OwnersAt(j) /\ (BeingDeleted(j)' <=> BeingDeleted(j))
    BY <1>2, SameApplicationsSeen DEF Phase, Finalized
  <1>6. \A j \in Keys : Unheld(j)' <=> Unheld(j)
    <2> SUFFICES ASSUME NEW j \in Keys PROVE Unheld(j)' <=> Unheld(j)
      OBVIOUS
    <2>1. OwnersAt(j) \subseteq HelmReleases
      BY DEF OwnersAt, TypeOK, Application
    <2> QED BY <1>5, <2>1 DEF Unheld
  <1>7. missed' = missed \cup {k}
    <2>1. Unheld(k)
      BY <1>4 DEF Unheld
    <2>2. \A j \in Keys : Misses(j) <=> j = k
      BY DEF Misses
    <2> HIDE DEF k
    <2> QED BY <1>1, <1>6, <2>1, <2>2 DEF Overlooked, MissedThere
  <1>8. Mirror!Overlook(h, k)
    <2> HIDE DEF h, k
    <2> QED BY <1>1, <1>4, <1>5, <1>7 DEF Mirror!Overlook
  <1> QED BY <1>1, <1>8 DEF MirrorStep, Mirror!Next

\* One step of the reconciler and of what watches it.
LEMMA HistoryMirror ==
    ASSUME StableNames, TypeOK, ReleaseInvariant, MissedThere, HistoryNext
    PROVE  MirrorStep
  <1>1. CASE \E k \in Keys : Misses(k)
    <2>1. PICK k \in Keys : Misses(k)
      BY <1>1
    <2>2. worker.pc \in {"delete", "recheck"} /\ worker'.pc = "release" /\ k = worker.app
      BY <2>1 DEF Misses
    <2>3. ~(UserStep \/ ArgoStep \/ EventStep \/ Crash)
      <3>1. UserStep => worker' = worker
        BY DEF UserStep, UserOp, CreateHelmRelease, EditHelmRelease, DeleteHelmRelease,
               UserDeletesApplication, UserEditsApplication, EditRepository, MoveArgoServer
      <3>2. ArgoStep => worker' = worker
        BY DEF ArgoStep, ArgoReports, ArgoPrunes
      <3>3. EventStep => worker' = worker
        BY DEF EventStep, HelmReleaseEvent, RequeueTimer, Resync, ApplicationEvent
      <3>4. Crash => worker' = Idle
        BY DEF Crash
      <3> QED BY <2>2, <3>1, <3>2, <3>3, <3>4 DEF Idle
    <2>4. ~(\E h \in HelmReleases : Reconcile(h))
      BY <2>2 DEF Reconcile, ReconcileNotFound, ReconcileNoArgo, ReconcileNothing,
                  ReconcileDelete, ReconcileFinalizer, ReconcileBlocked, ReconcileSync, Take, Idle
    <2>5. DeleteApplication \/ RecheckApplication
      BY <2>2, <2>3, <2>4 DEF HistoryNext, Next, WorkerStep, At, AddFinalizer, ReleaseHelmRelease,
                              WriteApplication, MirrorStatus
    <2> QED BY <2>1, <2>2, <2>5, Missed DEF HistoryNext
  <1>2. CASE ~(\E k \in Keys : Misses(k))
    <2>1. NoneMissed
      BY <1>2 DEF NoneMissed, HistoryNext, Overlooked, MissedThere
    <2> QED BY <2>1, UserMirror, EnvironmentMirror, ReconcileMirror, WorkerMirror
            DEF HistoryNext, Next
  <1> QED BY <1>1, <1>2

\* The reconciler implements the mirror, for every set of releases, names, specs
\* and failures, and with every cache behind: what a stale cache makes of a
\* deletion is a step the mirror names.
THEOREM ImplementsTheMirror ==
    ASSUME StableNames PROVE HistorySpec => ImplementsMirror
  <1>1. HistoryInit => Mirror!Init /\ MissedThere
    BY DEF HistoryInit, Init, Mirror!Init, Phase, Finalized, OwnersAt, BeingDeleted, MissedThere
  <1>2. MissedThere /\ [HistoryNext]_<<vars, missed>> => MissedThere'
    <2>1. MissedThere /\ UNCHANGED <<vars, missed>> => MissedThere'
      BY DEF MissedThere, vars, api, Unheld, OwnersAt, Phase, Finalized
    <2>2. HistoryNext => MissedThere'
      BY DEF HistoryNext, Overlooked, MissedThere
    <2> QED BY <2>1, <2>2
  <1>3. TypeOK /\ ReleaseInvariant /\ MissedThere /\ [HistoryNext]_<<vars, missed>>
        => [Mirror!Next]_Mirror!vars
    <2>1. UNCHANGED <<vars, missed>> => MirrorStep
      BY DEF MirrorStep, Mirror!vars, vars, api, OwnersAt, BeingDeleted, Phase, Finalized
    <2> QED BY <2>1, HistoryMirror DEF MirrorStep
  <1> QED BY <1>1, <1>2, <1>3, HistoryTypes, ReleaseInvariantHolds, PTL
          DEF HistorySpec, Mirror!Spec, ImplementsMirror

-----------------------------------------------------------------------------
(***************************************************************************)
(* Why no release is deployed before the releases it depends on, though    *)
(* the gate reads a cache that lags behind.                                *)
(***************************************************************************)
\* What an Application needs is there for good unless someone deletes it.
NobodyDeletes == UserOps \cap {"delete", "unapp"} = {}

Deployed(k) == k \in Keys /\ app[k] # NoApp

\* All that h depends on is deployed, in the namespace ns.
Waited(h, ns) == \A dep \in DependsOn[h] : Deployed(DependencyKey(dep, ns))

\* No object is marked for deletion, nor does the worker think so.
NothingMarked ==
    /\ \A h \in HelmReleases : /\ hr[h] # NoHR => ~hr[h].del
                               /\ hrCache[h] # NoHR => ~hrCache[h].del
    /\ \A k \in Keys : app[k] # NoApp => ~app[k].del
    /\ worker.pc \notin {"delete", "recheck", "release"}
    /\ worker.pc = "finalize" => ~worker.obj.del

\* What the cache shows is there, if not as it shows it.
CacheBehind == \A k \in Keys : appCache[k] # NoApp => app[k] # NoApp

\* The gate was open for whatever has been written or is about to be.
GatePassed ==
    /\ worker.pc = "write" => Waited(worker.key, worker.app[1])
    /\ \A k \in Keys : app[k] # NoApp => Waited(app[k].owner, k[1])

DependencyInvariant == NothingMarked /\ CacheBehind /\ GatePassed

-----------------------------------------------------------------------------

\* An open gate stays open while no Application disappears.
LEMMA WaitedKept ==
    ASSUME \A k \in Keys : app[k] # NoApp => app'[k] # NoApp
    PROVE  \A h, ns : Waited(h, ns) => Waited(h, ns)'
  BY DEF Waited, Deployed, DependencyKey, Keys, AppNames

\* One Application is written, by whoever has it or by whoever may have it.
LEMMA OneWritten ==
    ASSUME TypeOK, DependencyInvariant, NEW k \in Keys, NEW a \in Application,
           app' = [app EXCEPT ![k] = a], UNCHANGED <<hr, hrCache, appCache>>, ~a.del,
           \/ app[k] # NoApp /\ a.owner = app[k].owner
           \/ Waited(a.owner, k[1]),
           \/ UNCHANGED worker
           \/ worker'.pc \in {"idle", "mirror"}
    PROVE  DependencyInvariant'
  <1> USE DEF DependencyInvariant
  <1>1. /\ a # NoApp /\ app'[k] = a
        /\ \A j \in Keys \ {k} : app'[j] = app[j]
    BY AbsentAssumption DEF TypeOK
  <1>2. \A h, ns : Waited(h, ns) => Waited(h, ns)'
    BY <1>1, WaitedKept
  <1>3. NothingMarked'
    BY <1>1 DEF NothingMarked
  <1>4. CacheBehind'
    BY <1>1 DEF CacheBehind
  <1>5. \A j \in Keys : app'[j] # NoApp => Waited(app'[j].owner, j[1])
    BY <1>1 DEF GatePassed
  <1>6. GatePassed'
    BY <1>2, <1>5 DEF GatePassed
  <1> QED BY <1>3, <1>4, <1>6

\* No Application is written, and nothing that matters to the gate is either.
LEMMA NoneWritten ==
    ASSUME DependencyInvariant, UNCHANGED <<app, appCache>>, NothingMarked',
           worker'.pc = "write" => Waited(worker'.key, worker'.app[1])
    PROVE  DependencyInvariant'
  <1>1. \A h, ns : Waited(h, ns) => Waited(h, ns)'
    BY WaitedKept
  <1> QED BY <1>1 DEF DependencyInvariant, CacheBehind, GatePassed

LEMMA DriftKeeps ==
    ASSUME NEW b \in Application, NEW a \in Drifted(b)
    PROVE  a \in Application /\ a.owner = b.owner /\ a.del = b.del
  <1>1. ASSUME NEW v \in Values, a = [b EXCEPT !.source = [@ EXCEPT !.values = v]]
        PROVE  a \in Application /\ a.owner = b.owner /\ a.del = b.del
    <2>1. [b.source EXCEPT !.values = v] \in Source
      BY DEF Application, Source
    <2> QED BY <1>1, <2>1 DEF Application
  <1>2. ASSUME a = [b EXCEPT !.cascade = FALSE]
        PROVE  a \in Application /\ a.owner = b.owner /\ a.del = b.del
    BY <1>2 DEF Application
  <1> QED BY <1>1, <1>2 DEF Drifted

\* Users who create, edit and move what they like.
LEMMA UserDependency ==
    ASSUME NobodyDeletes, TypeOK, DependencyInvariant, UserStep PROVE DependencyInvariant'
  <1> USE DEF DependencyInvariant
  <1>1. ASSUME NEW h \in HelmReleases, NEW o \in HelmReleaseObject, ~o.del,
               hr' = [hr EXCEPT ![h] = o], UNCHANGED <<app, appCache, hrCache, worker>>
        PROVE  DependencyInvariant'
    <2>1. NothingMarked'
      BY <1>1 DEF NothingMarked, TypeOK
    <2> QED BY <1>1, <2>1, NoneWritten DEF GatePassed
  <1>2. ASSUME NEW h \in HelmReleases, NEW s \in Specs, CreateHelmRelease(h, s)
        PROVE  DependencyInvariant'
    <2>1. [fin |-> FALSE, del |-> FALSE, spec |-> s, mirror |-> NoStatus] \in HelmReleaseObject
      BY DEF HelmReleaseObject, Statuses
    <2> QED BY <1>1, <1>2, <2>1 DEF CreateHelmRelease, UserOp, SameApplications
  <1>3. ASSUME NEW h \in HelmReleases, NEW s \in Specs, EditHelmRelease(h, s)
        PROVE  DependencyInvariant'
    <2> DEFINE o == [hr[h] EXCEPT !.spec = s]
    <2>1. o \in HelmReleaseObject /\ ~o.del
      BY <1>3 DEF EditHelmRelease, HelmReleaseObject, NothingMarked, TypeOK
    <2>2. hr' = [hr EXCEPT ![h] = o] /\ UNCHANGED <<app, appCache, hrCache, worker>>
      BY <1>3 DEF EditHelmRelease, UserOp, SameApplications
    <2> HIDE DEF o
    <2> QED BY <1>1, <2>1, <2>2
  <1>4. ASSUME NEW k \in Keys, UserEditsApplication(k) PROVE DependencyInvariant'
    <2>1. PICK a \in Drifted(app[k]) : SetApplication(k, a)
      BY <1>4 DEF UserEditsApplication
    <2>2. app[k] \in Application /\ app[k] # NoApp /\ ~app[k].del
      BY <1>4 DEF UserEditsApplication, TypeOK
    <2>3. a \in Application /\ a.owner = app[k].owner /\ ~a.del
      BY <2>1, <2>2, DriftKeeps
    <2> QED BY <1>4, <2>1, <2>2, <2>3, OneWritten DEF UserEditsApplication, UserOp, SetApplication
  <1>5. ASSUME UNCHANGED <<hr, app, appCache, hrCache, worker>> PROVE DependencyInvariant'
    <2>1. NothingMarked'
      BY <1>5 DEF NothingMarked
    <2> QED BY <1>5, <2>1, NoneWritten DEF GatePassed
  <1>6. ASSUME \/ \E url \in RepoURLs \cup {NoRepo} : EditRepository(url)
               \/ \E nss \in SUBSET ArgoNamespaces : MoveArgoServer(nss)
        PROVE  DependencyInvariant'
    BY <1>5, <1>6 DEF EditRepository, MoveArgoServer, UserOp, SameApplications
  <1>7. ASSUME NEW h \in HelmReleases, DeleteHelmRelease(h) PROVE FALSE
    BY <1>7 DEF NobodyDeletes, DeleteHelmRelease, UserOp
  <1>8. ASSUME NEW k \in Keys, UserDeletesApplication(k) PROVE FALSE
    BY <1>8 DEF NobodyDeletes, UserDeletesApplication, UserOp
  <1> QED BY <1>2, <1>3, <1>4, <1>6, <1>7, <1>8 DEF UserStep

LEMMA EnvironmentDependency ==
    ASSUME TypeOK, DependencyInvariant, ArgoStep \/ EventStep \/ Crash
    PROVE  DependencyInvariant'
  <1> USE DEF DependencyInvariant
  <1>1. ASSUME NEW k \in Keys, NEW st \in AppStatuses, ArgoReports(k, st)
        PROVE  DependencyInvariant'
    <2> DEFINE a == [app[k] EXCEPT !.status = st]
    <2>1. /\ a \in Application /\ a.owner = app[k].owner /\ ~a.del
          /\ app[k] # NoApp /\ app' = [app EXCEPT ![k] = a]
      BY <1>1 DEF ArgoReports, SetApplication, TypeOK, Application, Statuses, NothingMarked
    <2>2. UNCHANGED <<hr, hrCache, appCache, worker>>
      BY <1>1 DEF ArgoReports
    <2> HIDE DEF a
    <2> QED BY <2>1, <2>2, OneWritten
  <1>2. ASSUME NEW k \in Keys, ArgoPrunes(k) PROVE FALSE
    BY <1>2 DEF ArgoPrunes, NothingMarked
  <1>3. ASSUME NEW h \in HelmReleases, HelmReleaseEvent(h) \/ RequeueTimer(h) \/ Resync(h)
        PROVE  DependencyInvariant'
    <2>1. /\ UNCHANGED <<hr, app, appCache, worker>>
          /\ \/ UNCHANGED hrCache
             \/ hrCache' = [hrCache EXCEPT ![h] = hr[h]]
      BY <1>3 DEF HelmReleaseEvent, RequeueTimer, Resync, api, caches
    <2>2. NothingMarked'
      BY <2>1 DEF NothingMarked, TypeOK
    <2> QED BY <2>1, <2>2, NoneWritten DEF GatePassed
  \* The cache catches up with what is there.
  <1>4. ASSUME NEW k \in Keys, ApplicationEvent(k) PROVE DependencyInvariant'
    <2>1. UNCHANGED <<hr, app, hrCache, worker>> /\ appCache' = [appCache EXCEPT ![k] = app[k]]
      BY <1>4 DEF ApplicationEvent, api
    <2>2. NothingMarked'
      BY <2>1 DEF NothingMarked
    <2>3. CacheBehind'
      BY <2>1 DEF CacheBehind, TypeOK
    <2>4. GatePassed'
      BY <2>1, WaitedKept DEF GatePassed
    <2> QED BY <2>2, <2>3, <2>4
  <1>5. CASE Crash
    <2>1. UNCHANGED <<hr, app>> /\ hrCache' = hr /\ appCache' = app /\ worker' = Idle
      BY <1>5 DEF Crash, api
    <2>2. NothingMarked'
      BY <2>1 DEF NothingMarked, Idle
    <2>3. CacheBehind'
      BY <2>1 DEF CacheBehind
    <2>4. GatePassed'
      BY <2>1, WaitedKept DEF GatePassed, Idle
    <2> QED BY <2>2, <2>3, <2>4
  <1> QED BY <1>1, <1>2, <1>3, <1>4, <1>5 DEF ArgoStep, EventStep

\* The gate reads the cache; what that shows is there.
LEMMA GateSound ==
    ASSUME CacheBehind, NEW h \in HelmReleases, NEW ns, checkDependenciesHealth(h, ns)
    PROVE  Waited(h, ns)
  BY DEF CacheBehind, checkDependenciesHealth, Waited, Deployed

LEMMA ReconcileDependency ==
    ASSUME TypeOK, DependencyInvariant, NEW h \in HelmReleases, Reconcile(h)
    PROVE  DependencyInvariant'
  <1> USE DEF DependencyInvariant
  <1>1. UNCHANGED <<hr, app, hrCache, appCache>>
    BY DEF Reconcile, ReconcileNotFound, ReconcileNoArgo, ReconcileNothing, ReconcileDelete,
           ReconcileFinalizer, ReconcileBlocked, ReconcileSync, Take, api, caches
  <1>2. ASSUME worker'.pc = "write" => Waited(worker'.key, worker'.app[1]),
               worker'.pc \notin {"delete", "recheck", "release"},
               worker'.pc = "finalize" => ~worker'.obj.del
        PROVE  DependencyInvariant'
    <2>1. NothingMarked'
      BY <1>1, <1>2 DEF NothingMarked
    <2> QED BY <1>1, <1>2, <2>1, NoneWritten
  <1>3. CASE ReconcileNotFound(h) \/ ReconcileNoArgo(h) \/ ReconcileNothing(h) \/ ReconcileBlocked(h)
    <2>1. worker' = Idle
      BY <1>3 DEF ReconcileNotFound, ReconcileNoArgo, ReconcileNothing, ReconcileBlocked,
                  Return, ReturnLater
    <2> QED BY <1>2, <2>1 DEF Idle
  <1>4. CASE ReconcileDelete(h)
    BY <1>4 DEF ReconcileDelete, NothingMarked
  <1>5. CASE ReconcileFinalizer(h)
    BY <1>2, <1>5 DEF ReconcileFinalizer
  <1>6. CASE ReconcileSync(h)
    <2>1. PICK ns \in resolveArgoNamespace :
             /\ checkDependenciesHealth(h, ns)
             /\ worker'.pc = "write" /\ worker'.key = h
             /\ worker'.app = AppKey(h, hrCache[h], ns)
      BY <1>6 DEF ReconcileSync
    <2>2. worker'.app[1] = ns
      BY <2>1 DEF AppKey
    <2>3. Waited(h, ns)
      BY <2>1, GateSound
    <2> QED BY <1>2, <2>1, <2>2, <2>3
  <1> QED BY <1>3, <1>4, <1>5, <1>6 DEF Reconcile

LEMMA WorkerDependency ==
    ASSUME TypeOK, DependencyInvariant, WorkerStep PROVE DependencyInvariant'
  <1> USE DEF DependencyInvariant, At, Return, ReturnLater, SameApplications
  <1>1. ASSUME NEW h \in HelmReleases, NEW o \in HelmReleaseObject, ~o.del,
               hr' = hr \/ hr' = [hr EXCEPT ![h] = o],
               UNCHANGED <<app, appCache, hrCache>>, worker' = Idle
        PROVE  DependencyInvariant'
    <2>1. NothingMarked'
      BY <1>1 DEF NothingMarked, TypeOK, Idle
    <2> QED BY <1>1, <2>1, NoneWritten DEF Idle
  <1>2. CASE AddFinalizer
    <2> DEFINE o == [worker.obj EXCEPT !.fin = TRUE]
    <2>1. /\ worker.key \in HelmReleases /\ worker.obj \in HelmReleaseObject
          /\ ~worker.obj.del
      BY <1>2, WorkerTypes DEF AddFinalizer, NothingMarked
    <2>2. o \in HelmReleaseObject /\ ~o.del
      BY <2>1 DEF HelmReleaseObject
    <2>3. /\ hr' = hr \/ hr' = [hr EXCEPT ![worker.key] = o]
          /\ UNCHANGED <<app, appCache, hrCache>> /\ worker' = Idle
      BY <1>2 DEF AddFinalizer, UpdateHelmRelease, UpdateFails
    <2> HIDE DEF o
    <2> QED BY <1>1, <2>1, <2>2, <2>3
  <1>3. CASE DeleteApplication \/ RecheckApplication \/ ReleaseHelmRelease
    BY <1>3 DEF DeleteApplication, RecheckApplication, ReleaseHelmRelease, NothingMarked
  <1>4. CASE MirrorStatus
    <2> DEFINE h == worker.key  o == [hr[h] EXCEPT !.mirror = worker.status]
    <2>1. h \in HelmReleases /\ worker.status \in Statuses
      BY <1>4, WorkerTypes DEF MirrorStatus
    <2>2. UNCHANGED <<app, appCache, hrCache>> /\ worker' = Idle
      BY <1>4 DEF MirrorStatus
    <2>3. CASE UNCHANGED hr
      <3>1. NothingMarked'
        BY <2>2, <2>3 DEF NothingMarked, Idle
      <3> QED BY <2>2, <3>1, NoneWritten DEF Idle
    <2>4. CASE hr[h] # NoHR /\ hr' = [hr EXCEPT ![h] = o]
      <3>1. o \in HelmReleaseObject /\ ~o.del
        BY <2>1, <2>4 DEF HelmReleaseObject, NothingMarked, TypeOK
      <3> HIDE DEF o
      <3> QED BY <1>1, <2>1, <2>2, <2>4, <3>1
    <2> QED BY <1>4, <2>3, <2>4 DEF MirrorStatus
  \* The Application is written by whoever has waited, or stays with its owner.
  <1>5. CASE WriteApplication
    <2> DEFINE h == worker.key  k == worker.app
    <2>1. /\ h \in HelmReleases /\ k \in Keys /\ worker.pc = "write"
          /\ worker.base \in Application \cup {NoApp}
      BY <1>5, WorkerTypes DEF WriteApplication
    <2>2. Waited(h, k[1])
      BY <2>1 DEF GatePassed
    <2>3. /\ UNCHANGED <<hr, hrCache, appCache>>
          /\ \/ UNCHANGED app
             \/ Writable /\ app' = [app EXCEPT ![k] = Written]
          /\ worker'.pc \in {"idle", "mirror"}
      BY <1>5 DEF WriteApplication, GoOnToMirror, SetApplication, Idle
    <2>4. CASE UNCHANGED app
      <3>1. NothingMarked'
        BY <2>3, <2>4 DEF NothingMarked
      <3> QED BY <2>3, <2>4, <3>1, NoneWritten
    <2>5. CASE Writable /\ app' = [app EXCEPT ![k] = Written]
      <3>1. Written \in Application
        BY <2>1, <2>5, WrittenTyping
      <3>2. /\ ~Written.del
            /\ Written.owner = h \/ (app[k] # NoApp /\ Written.owner = app[k].owner)
        <4>1. CASE worker.base = NoApp
          BY <4>1 DEF Written, NewApplication
        <4>2. CASE worker.base # NoApp
          <5>1. app[k] \in Application /\ worker.base \in Application /\ ~app[k].del
            BY <2>1, <2>5, <4>2 DEF Writable, TypeOK, NothingMarked
          <5>2. Rendered(worker.base).owner = h
            BY <5>1 DEF Rendered, Application
          <5> QED BY <4>2, <5>1, <5>2, AbsentAssumption DEF Written, Merged, Application
        <4> QED BY <4>1, <4>2
      <3> QED BY <2>1, <2>2, <2>3, <2>5, <3>1, <3>2, OneWritten
    <2> QED BY <2>3, <2>4, <2>5
  <1> QED BY <1>2, <1>3, <1>4, <1>5 DEF WorkerStep

\* A release is not deployed before what it depends on, for any number of releases
\* that depend on each other in any way, with caches that lag behind, edits, moves
\* of Argo CD, conflicts, failing calls and restarts, if nobody deletes anything.
THEOREM DependenciesComeFirst ==
    ASSUME NobodyDeletes PROVE Spec => []DependenciesFirst
  <1>1. Init => DependencyInvariant
    BY DEF Init, DependencyInvariant, NothingMarked, CacheBehind, GatePassed, Idle
  <1>2. TypeOK /\ DependencyInvariant /\ [Next]_vars => DependencyInvariant'
    <2>1. DependencyInvariant /\ UNCHANGED vars => DependencyInvariant'
      <3> SUFFICES ASSUME DependencyInvariant, UNCHANGED vars PROVE DependencyInvariant'
        OBVIOUS
      <3>1. NothingMarked'
        BY DEF DependencyInvariant, NothingMarked, vars, api, caches
      <3> QED BY <3>1, NoneWritten DEF DependencyInvariant, GatePassed, vars, api, caches
    <2> QED BY <2>1, UserDependency, EnvironmentDependency, ReconcileDependency, WorkerDependency
            DEF Next
  <1>3. DependencyInvariant => DependenciesFirst
    BY DEF DependencyInvariant, GatePassed, DependenciesFirst, Waited, Deployed
  <1> QED BY <1>1, <1>2, <1>3, TypeCorrect, PTL DEF Spec

-----------------------------------------------------------------------------
(***************************************************************************)
(* Why no release lays hands on the Application of another, though both    *)
(* are written from caches that lag behind, and Argo CD may move.          *)
(***************************************************************************)

NamesOf(h) == {applicationName(NameOf[h], c, ClusterName) : c \in Charts}

\* No two releases of the cluster share a name, whatever their charts. (StableNames
\* takes also that none has two names, and that Argo CD stays where it is.)
DistinctNames == \A h, g \in HelmReleases : NamesOf(h) \cap NamesOf(g) # {} => h = g

ApplicationsNamed ==
    \A k \in Keys : app[k] # NoApp => k[2] \in NamesOf(app[k].owner)

WorkerNamed ==
    worker.pc \in {"write", "delete", "recheck", "release"} =>
        worker.app[2] \in NamesOf(worker.key)

WriterInvariant == ApplicationsNamed /\ WorkerNamed

\* An Application is written by the release it belongs to or may belong to.
LEMMA NamedWritten ==
    ASSUME TypeOK, WriterInvariant, NEW k \in Keys, NEW a \in Application \cup {NoApp},
           app' = [app EXCEPT ![k] = a], WorkerNamed',
           a = NoApp \/ (app[k] # NoApp /\ a.owner = app[k].owner) \/ k[2] \in NamesOf(a.owner)
    PROVE  WriterInvariant'
  <1>1. app'[k] = a /\ \A j \in Keys \ {k} : app'[j] = app[j]
    BY DEF TypeOK
  <1>2. ApplicationsNamed'
    BY <1>1 DEF WriterInvariant, ApplicationsNamed, NamesOf
  <1> QED BY <1>2 DEF WriterInvariant

LEMMA NoneNamed ==
    ASSUME WriterInvariant, UNCHANGED app, WorkerNamed' PROVE WriterInvariant'
  BY DEF WriterInvariant, ApplicationsNamed, NamesOf

LEMMA EnvironmentWriter ==
    ASSUME TypeOK, WriterInvariant, UserStep \/ ArgoStep \/ EventStep \/ Crash \/ UNCHANGED vars
    PROVE  WriterInvariant'
  <1>1. WorkerNamed'
    <2>1. UNCHANGED worker \/ worker' = Idle
      BY DEF UserStep, CreateHelmRelease, EditHelmRelease, DeleteHelmRelease,
             UserDeletesApplication, UserEditsApplication, EditRepository, MoveArgoServer, UserOp,
             ArgoStep, ArgoReports, ArgoPrunes, EventStep, HelmReleaseEvent, RequeueTimer, Resync,
             ApplicationEvent, Crash, vars
    <2> QED BY <2>1 DEF WriterInvariant, WorkerNamed, NamesOf, Idle
  <1>2. ASSUME NEW k \in Keys, UserDeletesApplication(k) PROVE WriterInvariant'
    <2>1. app[k] \in Application /\ app[k] # NoApp
      BY <1>2 DEF UserDeletesApplication, TypeOK
    <2> QED BY <1>1, <1>2, <2>1, DeletedMark, NamedWritten DEF UserDeletesApplication, SetApplication
  <1>3. ASSUME NEW k \in Keys, UserEditsApplication(k) PROVE WriterInvariant'
    <2>1. PICK a \in Drifted(app[k]) : SetApplication(k, a)
      BY <1>3 DEF UserEditsApplication
    <2>2. app[k] \in Application /\ app[k] # NoApp
      BY <1>3 DEF UserEditsApplication, TypeOK
    <2> QED BY <1>1, <2>1, <2>2, DriftKeeps, NamedWritten DEF SetApplication
  <1>4. ASSUME NEW k \in Keys, NEW st \in AppStatuses, ArgoReports(k, st) PROVE WriterInvariant'
    <2> DEFINE a == [app[k] EXCEPT !.status = st]
    <2>1. a \in Application /\ a.owner = app[k].owner /\ app[k] # NoApp
      BY <1>4 DEF ArgoReports, TypeOK, Application, Statuses
    <2>2. app' = [app EXCEPT ![k] = a]
      BY <1>4 DEF ArgoReports, SetApplication
    <2> HIDE DEF a
    <2> QED BY <1>1, <2>1, <2>2, NamedWritten
  <1>5. ASSUME NEW k \in Keys, ArgoPrunes(k) PROVE WriterInvariant'
    BY <1>1, <1>5, NamedWritten DEF ArgoPrunes, SetApplication
  <1>6. CASE UNCHANGED app
    BY <1>1, <1>6, NoneNamed
  <1> QED BY <1>2, <1>3, <1>4, <1>5, <1>6
          DEF UserStep, CreateHelmRelease, EditHelmRelease, DeleteHelmRelease, EditRepository,
              MoveArgoServer, SameApplications, ArgoStep, EventStep, HelmReleaseEvent,
              RequeueTimer, Resync, ApplicationEvent, Crash, api, vars

\* A reconcile turns to a name of its release.
LEMMA ReconcileWriter ==
    ASSUME TypeOK, WriterInvariant, NEW h \in HelmReleases, Reconcile(h) PROVE WriterInvariant'
  <1>1. UNCHANGED app
    BY DEF Reconcile, ReconcileNotFound, ReconcileNoArgo, ReconcileNothing, ReconcileDelete,
           ReconcileFinalizer, ReconcileBlocked, ReconcileSync, Take, api
  <1>2. ASSUME NEW ns, hrCache[h] # NoHR PROVE AppKey(h, hrCache[h], ns)[2] \in NamesOf(h)
    <2>1. hrCache[h].spec.chart \in Charts
      BY <1>2 DEF TypeOK, HelmReleaseObject, Charts
    <2> QED BY <2>1 DEF AppKey, NamesOf
  <1>3. WorkerNamed'
    <2>1. CASE ReconcileDelete(h) \/ ReconcileSync(h)
      <3>1. \E ns : worker'.key = h /\ worker'.app = AppKey(h, hrCache[h], ns)
        BY <2>1 DEF ReconcileDelete, ReconcileSync
      <3>2. hrCache[h] # NoHR
        BY <2>1 DEF ReconcileDelete, ReconcileSync
      <3> QED BY <1>2, <3>1, <3>2 DEF WorkerNamed, NamesOf
    <2>2. CASE ReconcileFinalizer(h)
      BY <2>2 DEF ReconcileFinalizer, WorkerNamed
    <2>3. CASE ReconcileNotFound(h) \/ ReconcileNoArgo(h) \/ ReconcileNothing(h) \/ ReconcileBlocked(h)
      BY <2>3 DEF ReconcileNotFound, ReconcileNoArgo, ReconcileNothing, ReconcileBlocked,
                  Return, ReturnLater, Idle, WorkerNamed
    <2> QED BY <2>1, <2>2, <2>3 DEF Reconcile
  <1> QED BY <1>1, <1>3, NoneNamed

LEMMA WorkerWriter ==
    ASSUME TypeOK, WriterInvariant, WorkerStep PROVE WriterInvariant'
  <1> USE DEF At, Return, ReturnLater, SameApplications
  <1>1. WorkerNamed'
    <2>1. \/ worker'.pc \in {"idle", "mirror"}
          \/ /\ worker.pc \in {"delete", "recheck"}
             /\ worker' \in {[worker EXCEPT !.pc = "recheck"], [worker EXCEPT !.pc = "release"]}
      BY DEF WorkerStep, AddFinalizer, DeleteApplication, RecheckApplication, ReleaseHelmRelease,
             WriteApplication, MirrorStatus, GoOnToMirror, Idle
    <2>2. CASE worker'.pc \in {"idle", "mirror"}
      BY <2>2 DEF WorkerNamed
    <2>3. ASSUME worker.pc \in {"delete", "recheck"}, NEW step, worker' = [worker EXCEPT !.pc = step]
          PROVE  WorkerNamed'
      <3>1. worker'.app = worker.app /\ worker'.key = worker.key
        BY <2>3, WorkerTypes
      <3>2. worker.app[2] \in NamesOf(worker.key)
        BY <2>3 DEF WriterInvariant, WorkerNamed
      <3> QED BY <3>1, <3>2 DEF WorkerNamed, NamesOf
    <2> QED BY <2>1, <2>2, <2>3
  <1>2. CASE DeleteApplication
    <2> DEFINE k == worker.app
    <2>1. k \in Keys
      BY <1>2, WorkerTypes DEF DeleteApplication
    <2>2. UNCHANGED app \/ app' = [app EXCEPT ![k] = Deleted(app[k])]
      BY <1>2 DEF DeleteApplication, SetApplication
    <2>3. CASE app[k] = NoApp
      <3>1. Deleted(app[k]) = NoApp
        BY <2>3 DEF Deleted
      <3> QED BY <1>1, <2>1, <2>2, <3>1, NamedWritten, NoneNamed
    <2>4. CASE app[k] # NoApp
      <3>1. app[k] \in Application
        BY <2>1, <2>4 DEF TypeOK
      <3> QED BY <1>1, <2>1, <2>2, <2>4, <3>1, DeletedMark, NamedWritten, NoneNamed
    <2> QED BY <2>3, <2>4
  <1>3. CASE WriteApplication
    <2> DEFINE k == worker.app
    <2>1. /\ worker.pc = "write" /\ worker.key \in HelmReleases /\ k \in Keys
          /\ worker.base \in Application \cup {NoApp}
      BY <1>3, WorkerTypes DEF WriteApplication
    <2>2. k[2] \in NamesOf(worker.key)
      BY <2>1 DEF WriterInvariant, WorkerNamed
    <2>3. UNCHANGED app \/ (Writable /\ app' = [app EXCEPT ![k] = Written])
      BY <1>3 DEF WriteApplication, SetApplication
    <2>4. ASSUME Writable
          PROVE  /\ Written \in Application
                 /\ Written.owner = worker.key \/ (app[k] # NoApp /\ Written.owner = app[k].owner)
      <3>1. CASE worker.base = NoApp
        BY <2>1, <2>4, <3>1, WrittenTyping DEF Written, NewApplication
      <3>2. CASE worker.base # NoApp
        <4>1. app[k] \in Application /\ app[k] # NoApp /\ worker.base \in Application
          BY <2>1, <2>4, <3>2 DEF Writable, TypeOK
        <4>2. Rendered(worker.base).owner = worker.key
          BY <4>1 DEF Rendered, Application
        <4>3. Written.owner \in {worker.key, app[k].owner}
          BY <3>2, <4>1, <4>2 DEF Written, Merged, Application
        <4> QED BY <2>1, <2>4, <4>1, <4>3, WrittenTyping
      <3> QED BY <3>1, <3>2
    <2> QED BY <1>1, <2>1, <2>2, <2>3, <2>4, NamedWritten, NoneNamed
  <1>4. CASE AddFinalizer \/ RecheckApplication \/ ReleaseHelmRelease \/ MirrorStatus
    <2>1. UNCHANGED app
      BY <1>4 DEF AddFinalizer, RecheckApplication, ReleaseHelmRelease, MirrorStatus,
                  UpdateHelmRelease, UpdateFails
    <2> QED BY <1>1, <2>1, NoneNamed
  <1> QED BY <1>2, <1>3, <1>4 DEF WorkerStep

LEMMA WriterInvariantHolds == Spec => []WriterInvariant
  <1>1. Init => WriterInvariant
    BY DEF Init, WriterInvariant, ApplicationsNamed, WorkerNamed, Idle
  <1>2. TypeOK /\ WriterInvariant /\ [Next]_vars => WriterInvariant'
    BY EnvironmentWriter, ReconcileWriter, WorkerWriter DEF Next
  <1> QED BY <1>1, <1>2, TypeCorrect, PTL DEF Spec

\* What one step may do to an Application that is there.
Writes ==
    \A k \in Keys :
        /\ app[k] # NoApp
        /\ app'[k] # app[k]
        /\ worker # Idle /\ worker.pc \in {"write", "delete"} /\ worker' # worker
        => app[k].owner = worker.key

LEMMA StepWrites ==
    ASSUME DistinctNames, TypeOK, WriterInvariant, [Next]_vars PROVE [Writes]_vars
  <1> SUFFICES ASSUME NEW k \in Keys, app[k] # NoApp, app'[k] # app[k],
                      worker # Idle, worker.pc \in {"write", "delete"}, worker' # worker
               PROVE  app[k].owner = worker.key
    BY DEF Writes
  <1>1. WorkerStep
    <2>1. ~UNCHANGED vars
      BY DEF vars, api
    <2>2. ~UserStep
      BY DEF UserStep, CreateHelmRelease, EditHelmRelease, DeleteHelmRelease,
             UserDeletesApplication, UserEditsApplication, EditRepository, MoveArgoServer, UserOp
    <2>3. ~ArgoStep
      BY DEF ArgoStep, ArgoReports, ArgoPrunes
    <2>4. ~EventStep /\ ~Crash
      BY DEF EventStep, HelmReleaseEvent, RequeueTimer, Resync, ApplicationEvent, Crash, api
    <2>5. \A h \in HelmReleases : ~Reconcile(h)
      BY DEF Reconcile, ReconcileNotFound, ReconcileNoArgo, ReconcileNothing, ReconcileDelete,
             ReconcileFinalizer, ReconcileBlocked, ReconcileSync, Take
    <2> QED BY <2>1, <2>2, <2>3, <2>4, <2>5 DEF Next
  <1>2. worker.app = k
    <2>1. /\ WriteApplication \/ DeleteApplication
          /\ worker.app \in Keys
      BY <1>1, WorkerTypes DEF WorkerStep, AddFinalizer, RecheckApplication, ReleaseHelmRelease,
                             MirrorStatus, WriteApplication, DeleteApplication, At
    <2>2. \E a : app' = app \/ app' = [app EXCEPT ![worker.app] = a]
      BY <2>1 DEF WriteApplication, DeleteApplication, SetApplication, SameApplications
    <2> QED BY <2>1, <2>2 DEF TypeOK
  <1>3. k[2] \in NamesOf(app[k].owner) /\ k[2] \in NamesOf(worker.key)
    BY <1>2 DEF WriterInvariant, ApplicationsNamed, WorkerNamed
  <1>4. app[k].owner \in HelmReleases /\ worker.key \in HelmReleases
    BY WorkerTypes DEF TypeOK, Application
  <1> QED BY <1>3, <1>4 DEF DistinctNames

\* No release patches or deletes the Application of another one, for any number of
\* releases and namespaces of Argo CD, with lagging caches, deletions, edits by hand,
\* conflicts, failing calls and restarts, if no two releases have a name in common.
THEOREM WritersKeepApart == ASSUME DistinctNames PROVE Spec => OneWriter
  <1>1. TypeOK /\ WriterInvariant /\ [Next]_vars => [Writes]_vars
    BY StepWrites
  <1>2. Spec => [][Writes]_vars
    BY <1>1, TypeCorrect, WriterInvariantHolds, PTL DEF Spec
  <1> QED BY <1>2, PTL DEF OneWriter, Writes

=============================================================================
