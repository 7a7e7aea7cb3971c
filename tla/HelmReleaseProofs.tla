------------------------- MODULE HelmReleaseProofs -------------------------
(* Theorems about HelmReleaseReconciler, for every value of its constants. *)
EXTENDS HelmReleaseHistory, TLAPS

\* The projection of a release is one of the keys.
LEMMA KeyTyping ==
    ASSUME NEW h \in HelmReleases, NEW o \in HelmReleaseObject, NEW ns \in ArgoNamespaces
    PROVE  AppKey(h, o, ns) \in Keys
  <1>1. o.spec.chart \in Charts
    BY DEF HelmReleaseObject, Charts
  <1>2. applicationName(NameOf[h], o.spec.chart, ClusterName) \in AppNames
    BY <1>1 DEF AppNames
  <1> QED BY <1>2 DEF AppKey, Keys

LEMMA ResolveTyping ==
    ASSUME TypeOK PROVE resolveArgoNamespace \subseteq ArgoNamespaces
  BY ConstantsAssumption DEF TypeOK, resolveArgoNamespace

\* A source put together field by field from two sources is a source.
LEMMA SourceTyping ==
    ASSUME NEW a \in Source, NEW b \in Source, NEW c \in Source
    PROVE  [f \in DOMAIN c |-> IF b[f] = c[f] THEN a[f] ELSE c[f]] \in Source
  BY DEF Source

\* Writing an Application, or none, where there was one keeps the types.
LEMMA SetTyping ==
    ASSUME TypeOK, NEW k \in Keys, NEW a \in Application \cup {NoApp}, SetApplication(k, a)
    PROVE  /\ app' \in [Keys -> Application \cup {NoApp}]
           /\ appEvents' \in [Keys -> SUBSET HelmReleases]
  BY DEF TypeOK, SetApplication, Owners, Application

LEMMA DeletedTyping ==
    ASSUME NEW a \in Application \cup {NoApp} PROVE Deleted(a) \in Application \cup {NoApp}
  BY DEF Deleted, Application

\* kubectl edit leaves an Application an Application.
LEMMA DriftTyping ==
    ASSUME NEW b \in Application, NEW a \in Drifted(b) PROVE a \in Application
  <1>1. ASSUME NEW v \in Values
        PROVE  [b EXCEPT !.source = [@ EXCEPT !.values = v]] \in Application
    <2>1. [b.source EXCEPT !.values = v] \in Source
      BY DEF Application, Source
    <2> QED BY <2>1 DEF Application
  <1>2. [b EXCEPT !.cascade = FALSE] \in Application
    BY DEF Application
  <1> QED BY <1>1, <1>2 DEF Drifted

-----------------------------------------------------------------------------

LEMMA InitTyping == Init => TypeOK
  BY ConstantsAssumption, AbsentAssumption
     DEF Init, TypeOK, WorkerStates, Idle

LEMMA UserTyping == TypeOK /\ UserStep => TypeOK'
  <1> SUFFICES ASSUME TypeOK, UserStep PROVE TypeOK'
    OBVIOUS
  <1>1. ASSUME NEW h \in HelmReleases, NEW s \in Specs, CreateHelmRelease(h, s)
        PROVE  TypeOK'
    <2>1. [fin |-> FALSE, del |-> FALSE, spec |-> s, mirror |-> NoStatus] \in HelmReleaseObject
      BY DEF HelmReleaseObject, Statuses
    <2> QED BY <1>1, <2>1, ConstantsAssumption DEF CreateHelmRelease, UserOp, SameApplications, TypeOK
  <1>2. ASSUME NEW h \in HelmReleases, NEW s \in Specs, EditHelmRelease(h, s)
        PROVE  TypeOK'
    <2>1. [hr[h] EXCEPT !.spec = s] \in HelmReleaseObject
      BY <1>2 DEF TypeOK, EditHelmRelease, HelmReleaseObject
    <2> QED BY <1>2, <2>1, ConstantsAssumption DEF EditHelmRelease, UserOp, SameApplications, TypeOK
  <1>3. ASSUME NEW h \in HelmReleases, DeleteHelmRelease(h)
        PROVE  TypeOK'
    <2>1. [hr[h] EXCEPT !.del = TRUE] \in HelmReleaseObject
      BY <1>3 DEF TypeOK, DeleteHelmRelease, HelmReleaseObject
    <2> QED BY <1>3, <2>1, ConstantsAssumption DEF DeleteHelmRelease, UserOp, SameApplications, TypeOK
  <1>4. ASSUME NEW k \in Keys, UserDeletesApplication(k)
        PROVE  TypeOK'
    <2>1. Deleted(app[k]) \in Application \cup {NoApp}
      BY DeletedTyping DEF TypeOK
    <2> QED BY <1>4, <2>1, SetTyping, ConstantsAssumption DEF UserDeletesApplication, UserOp, TypeOK
  <1>5. ASSUME NEW k \in Keys, UserEditsApplication(k)
        PROVE  TypeOK'
    <2>1. PICK a \in Drifted(app[k]) : SetApplication(k, a)
      BY <1>5 DEF UserEditsApplication
    <2>2. app[k] \in Application
      BY <1>5 DEF UserEditsApplication, TypeOK
    <2>3. a \in Application
      BY <2>1, <2>2, DriftTyping
    <2> QED BY <1>5, <2>1, <2>3, SetTyping, ConstantsAssumption DEF UserEditsApplication, UserOp, TypeOK
  <1>6. ASSUME NEW url \in RepoURLs \cup {NoRepo}, EditRepository(url)
        PROVE  TypeOK'
    BY <1>6, ConstantsAssumption DEF EditRepository, UserOp, SameApplications, Listed, TypeOK
  <1>7. ASSUME NEW nss \in SUBSET ArgoNamespaces, MoveArgoServer(nss)
        PROVE  TypeOK'
    BY <1>7, ConstantsAssumption DEF MoveArgoServer, UserOp, SameApplications, Listed, TypeOK
  <1> QED BY <1>1, <1>2, <1>3, <1>4, <1>5, <1>6, <1>7 DEF UserStep

LEMMA EnvironmentTyping == TypeOK /\ (ArgoStep \/ EventStep \/ Crash) => TypeOK'
  <1> SUFFICES ASSUME TypeOK, ArgoStep \/ EventStep \/ Crash PROVE TypeOK'
    OBVIOUS
  <1>1. ASSUME NEW k \in Keys, NEW st \in AppStatuses, ArgoReports(k, st)
        PROVE  TypeOK'
    <2>1. [app[k] EXCEPT !.status = st] \in Application
      BY <1>1 DEF ArgoReports, TypeOK, Application, Statuses
    <2> QED BY <1>1, <2>1, SetTyping DEF ArgoReports, bounds, TypeOK
  <1>2. ASSUME NEW k \in Keys, ArgoPrunes(k)
        PROVE  TypeOK'
    BY <1>2, SetTyping DEF ArgoPrunes, bounds, TypeOK
  <1>3. ASSUME NEW h \in HelmReleases, HelmReleaseEvent(h) \/ RequeueTimer(h) \/ Resync(h)
        PROVE  TypeOK'
    BY <1>3 DEF HelmReleaseEvent, RequeueTimer, Resync, api, caches, bounds, TypeOK
  <1>4. ASSUME NEW k \in Keys, ApplicationEvent(k)
        PROVE  TypeOK'
    BY <1>4 DEF ApplicationEvent, api, bounds, TypeOK
  <1>5. CASE Crash
    <2>1. Owners({app[k] : k \in Keys}) \subseteq HelmReleases
      BY DEF Owners, TypeOK, Application
    <2> QED BY <1>5, <2>1, ConstantsAssumption DEF Crash, api, TypeOK, WorkerStates, Idle
  <1> QED BY <1>1, <1>2, <1>3, <1>4, <1>5 DEF ArgoStep, EventStep

LEMMA ReconcileTyping ==
    ASSUME TypeOK, NEW h \in HelmReleases, Reconcile(h) PROVE TypeOK'
  <1> USE DEF Take, Return, ReturnLater, api, caches, bounds
  <1> DEFINE o == hrCache[h]
  <1>0. resolveArgoNamespace \subseteq ArgoNamespaces
    BY ResolveTyping
  <1>1. CASE ReconcileNotFound(h) \/ ReconcileNoArgo(h) \/ ReconcileNothing(h) \/ ReconcileBlocked(h)
    BY <1>1 DEF ReconcileNotFound, ReconcileNoArgo, ReconcileNothing, ReconcileBlocked,
                TypeOK, WorkerStates
  <1>2. CASE ReconcileDelete(h)
    <2>1. PICK ns \in ArgoNamespaces :
             worker' = [pc |-> "delete", key |-> h, obj |-> o, app |-> AppKey(h, o, ns)]
      BY <1>2, <1>0 DEF ReconcileDelete
    <2>2. o \in HelmReleaseObject
      BY <1>2 DEF ReconcileDelete, TypeOK
    <2>3. AppKey(h, o, ns) \in Keys
      BY <2>2, KeyTyping
    <2>4. worker' \in WorkerStates
      BY <2>1, <2>2, <2>3 DEF WorkerStates
    <2> QED BY <1>2, <2>4 DEF ReconcileDelete, TypeOK
  <1>3. CASE ReconcileFinalizer(h)
    <2>1. worker' \in WorkerStates
      BY <1>3 DEF ReconcileFinalizer, TypeOK, WorkerStates
    <2> QED BY <1>3, <2>1 DEF ReconcileFinalizer, TypeOK
  <1>4. CASE ReconcileSync(h)
    <2>1. PICK ns \in ArgoNamespaces :
             /\ Renders(o)
             /\ worker' = [pc |-> "write", key |-> h, obj |-> o, app |-> AppKey(h, o, ns),
                           base |-> appCache[AppKey(h, o, ns)], source |-> Desired(o)]
      BY <1>4, <1>0 DEF ReconcileSync
    <2>2. o \in HelmReleaseObject
      BY <1>4 DEF ReconcileSync, TypeOK
    <2>3. AppKey(h, o, ns) \in Keys
      BY <2>2, KeyTyping
    <2>4. Desired(o) \in Source
      BY <2>1, <2>2 DEF Desired, Source, HelmReleaseObject, Charts, Values, Renders, TypeOK
    <2>5. appCache[AppKey(h, o, ns)] \in Application \cup {NoApp}
      BY <2>3 DEF TypeOK
    <2>6. worker' \in WorkerStates
      BY <2>1, <2>2, <2>3, <2>4, <2>5 DEF WorkerStates
    <2> QED BY <1>4, <2>6 DEF ReconcileSync, TypeOK
  <1> QED BY <1>1, <1>2, <1>3, <1>4 DEF Reconcile

\* What the worker holds at each of its calls.
LEMMA WorkerTypes ==
    ASSUME TypeOK
    PROVE  /\ worker.pc = "finalize" =>
                  worker \in [pc : {"finalize"}, key : HelmReleases, obj : HelmReleaseObject]
           /\ worker.pc \in {"delete", "recheck", "release"} =>
                  worker \in [pc : {"delete", "recheck", "release"}, key : HelmReleases,
                              obj : HelmReleaseObject, app : Keys]
           /\ worker.pc = "write" =>
                  worker \in [pc : {"write"}, key : HelmReleases, obj : HelmReleaseObject,
                              app : Keys, base : Application \cup {NoApp}, source : Source]
           /\ worker.pc = "mirror" =>
                  worker \in [pc : {"mirror"}, key : HelmReleases, obj : HelmReleaseObject,
                              status : Statuses]
  BY DEF TypeOK, WorkerStates, Idle

LEMMA FaultTyping ==
    ASSUME TypeOK, NEW kind, Fault(kind) PROVE faults' \in 0..MaxFaults
  BY ConstantsAssumption DEF TypeOK, Fault

\* The Application CreateOrPatch writes.
LEMMA WrittenTyping ==
    ASSUME TypeOK, worker.pc = "write", Writable PROVE Written \in Application
  <1>1. /\ worker.key \in HelmReleases
        /\ worker.source \in Source
        /\ worker.base \in Application \cup {NoApp}
        /\ app[worker.app] \in Application \cup {NoApp}
    BY WorkerTypes DEF TypeOK
  <1>2. CASE worker.base = NoApp
    BY <1>1, <1>2 DEF Written, NewApplication, Application, Statuses
  <1>3. CASE worker.base # NoApp
    <2> DEFINE a == app[worker.app]  b == worker.base  c == Rendered(worker.base)
    <2>1. a \in Application /\ b \in Application
      BY <1>1, <1>3 DEF Writable
    <2>2. c \in Application
      BY <1>1, <2>1 DEF Rendered, Application
    <2>3. [f \in DOMAIN c.source |->
              IF b.source[f] = c.source[f] THEN a.source[f] ELSE c.source[f]] \in Source
      BY <2>1, <2>2, SourceTyping DEF Application
    <2>4. Merged(a, b, c) \in Application
      BY <2>1, <2>2, <2>3 DEF Merged, Application
    <2> QED BY <1>3, <2>4 DEF Written
  <1> QED BY <1>2, <1>3

LEMMA WorkerTyping == TypeOK /\ WorkerStep => TypeOK'
  <1> SUFFICES ASSUME TypeOK, WorkerStep PROVE TypeOK'
    OBVIOUS
  <1> USE DEF At, Return, ReturnLater, SameApplications
  <1>0. Idle \in WorkerStates
    BY DEF WorkerStates
  <1>1. ASSUME NEW o \in HelmReleaseObject \cup {NoHR},
               worker.pc \in {"finalize", "release"},
               UNCHANGED <<repo, services, hrCache, appCache, queue, userOps, crashes>>,
               \/ UpdateHelmRelease(o) /\ Return
               \/ UpdateFails(o) /\ ReturnLater(worker.key)
        PROVE  TypeOK'
    <2>1. worker.key \in HelmReleases
      BY <1>1, WorkerTypes
    <2>2. hr' \in [HelmReleases -> HelmReleaseObject \cup {NoHR}]
      BY <1>1, <2>1 DEF UpdateHelmRelease, UpdateFails, TypeOK
    <2>3. faults' \in 0..MaxFaults
      BY <1>1, FaultTyping DEF UpdateHelmRelease, UpdateFails, TypeOK
    <2> QED BY <1>0, <1>1, <2>1, <2>2, <2>3 DEF UpdateHelmRelease, UpdateFails, TypeOK
  <1>2. CASE AddFinalizer
    <2>1. worker.obj \in HelmReleaseObject
      BY <1>2, WorkerTypes DEF AddFinalizer
    <2>2. [worker.obj EXCEPT !.fin = TRUE] \in HelmReleaseObject
      BY <2>1 DEF HelmReleaseObject
    <2> QED BY <1>1, <1>2, <2>2 DEF AddFinalizer
  <1>3. CASE ReleaseHelmRelease
    BY <1>1, <1>3 DEF ReleaseHelmRelease
  <1>4. CASE DeleteApplication
    <2>1. /\ worker.key \in HelmReleases /\ worker.app \in Keys
          /\ worker.pc = "delete"
      BY <1>4, WorkerTypes DEF DeleteApplication
    <2>2. \A step \in {"recheck", "release"} : [worker EXCEPT !.pc = step] \in WorkerStates
      BY <2>1, WorkerTypes DEF WorkerStates
    <2>3. Deleted(app[worker.app]) \in Application \cup {NoApp}
      BY <2>1, DeletedTyping DEF TypeOK
    <2>4. /\ app' \in [Keys -> Application \cup {NoApp}]
          /\ appEvents' \in [Keys -> SUBSET HelmReleases]
      BY <1>4, <2>1, <2>3, SetTyping DEF DeleteApplication, TypeOK
    <2>5. faults' \in 0..MaxFaults
      BY <1>4, FaultTyping DEF DeleteApplication, TypeOK
    <2>6. worker' \in WorkerStates /\ delayed' \subseteq HelmReleases
      BY <1>0, <1>4, <2>1, <2>2 DEF DeleteApplication, TypeOK
    <2> QED BY <1>4, <2>4, <2>5, <2>6 DEF DeleteApplication, TypeOK
  <1>5. CASE RecheckApplication
    <2>1. /\ worker.key \in HelmReleases /\ worker.app \in Keys
          /\ worker.pc = "recheck"
      BY <1>5, WorkerTypes DEF RecheckApplication
    <2>2. [worker EXCEPT !.pc = "release"] \in WorkerStates
      BY <2>1, WorkerTypes DEF WorkerStates
    <2> QED BY <1>0, <1>5, <2>1, <2>2 DEF RecheckApplication, TypeOK
  <1>6. CASE WriteApplication
    <2>1. /\ worker.key \in HelmReleases /\ worker.app \in Keys
          /\ worker.obj \in HelmReleaseObject
          /\ worker.base \in Application \cup {NoApp}
          /\ worker.pc = "write"
      BY <1>6, WorkerTypes DEF WriteApplication
    <2>2. Writable => Written \in Application
      BY <2>1, WrittenTyping
    <2>3. /\ app' \in [Keys -> Application \cup {NoApp}]
          /\ appEvents' \in [Keys -> SUBSET HelmReleases]
      BY <1>6, <2>1, <2>2, SetTyping DEF WriteApplication, TypeOK
    <2>4. faults' \in 0..MaxFaults
      BY <1>6, FaultTyping DEF WriteApplication, GoOnToMirror, TypeOK
    <2>5. Unchanged => worker.base.status \in Statuses
      BY <2>1 DEF Unchanged, Application
    <2>6. Writable => Written.status \in Statuses
      BY <2>2 DEF Application
    <2>7. ASSUME NEW st \in Statuses PROVE
            [pc |-> "mirror", key |-> worker.key, obj |-> worker.obj, status |-> st] \in WorkerStates
      BY <2>1 DEF WorkerStates
    <2>8. worker' \in WorkerStates /\ delayed' \subseteq HelmReleases
      BY <1>0, <1>6, <2>1, <2>5, <2>6, <2>7 DEF WriteApplication, GoOnToMirror, TypeOK
    <2> QED BY <1>6, <2>3, <2>4, <2>8 DEF WriteApplication, TypeOK
  <1>7. CASE MirrorStatus
    <2>1. worker.key \in HelmReleases /\ worker.status \in Statuses
      BY <1>7, WorkerTypes DEF MirrorStatus
    <2>2. hr[worker.key] # NoHR =>
            [hr[worker.key] EXCEPT !.mirror = worker.status] \in HelmReleaseObject
      BY <2>1 DEF TypeOK, HelmReleaseObject
    <2>3. hr' \in [HelmReleases -> HelmReleaseObject \cup {NoHR}]
      BY <1>7, <2>1, <2>2 DEF MirrorStatus, TypeOK
    <2>4. faults' \in 0..MaxFaults
      BY <1>7, FaultTyping DEF MirrorStatus, TypeOK
    <2> QED BY <1>0, <1>7, <2>3, <2>4 DEF MirrorStatus, TypeOK
  <1> QED BY <1>2, <1>3, <1>4, <1>5, <1>6, <1>7 DEF WorkerStep

LEMMA NextTyping == TypeOK /\ [Next]_vars => TypeOK'
  <1>1. TypeOK /\ UNCHANGED vars => TypeOK'
    BY DEF vars, api, caches, bounds, TypeOK
  <1> QED BY <1>1, UserTyping, EnvironmentTyping, ReconcileTyping, WorkerTyping DEF Next

\* Every variable of the reconciler keeps its type, whatever the users, Argo CD,
\* failing calls and restarts do to it.
THEOREM TypeCorrect == Spec => []TypeOK
  BY InitTyping, NextTyping, PTL DEF Spec

-----------------------------------------------------------------------------
(***************************************************************************)
(* Orphaned Applications, when every release keeps its Application name    *)
(* and Argo CD does not move: only those the deletion has overlooked.      *)
(*                                                                         *)
(* The lemmas about steps are for any set of lost Applications in which    *)
(* the step's own misses are; that the observer may forget those that are  *)
(* gone, or held again, is shown in the end (SoundShrinks).                *)
(***************************************************************************)

\* A release has one key, and no other release has it.
LEMMA HomeUnique ==
    ASSUME StableNames, NEW h \in HelmReleases, NEW g \in HelmReleases,
           NEW k \in Home(h), NEW j \in Home(g)
    PROVE  (h = g) <=> (k = j)
  <1>1. PICK o \in HelmReleaseObject : k = AppKey(h, o, ArgoNamespace)
    BY DEF Home
  <1>2. PICK x \in HelmReleaseObject : j = AppKey(g, x, ArgoNamespace)
    BY DEF Home
  <1>3. o.spec.chart \in Charts /\ x.spec.chart \in Charts
    BY DEF HelmReleaseObject, Charts
  <1> QED BY <1>1, <1>2, <1>3 DEF StableNames, AppKey

\* Deleting, pruning or editing an Application takes no release's away from it.
LEMMA HeldKept ==
    ASSUME NEW lost, TypeOK, ApplicationsHeld(lost), UNCHANGED hr,
           NEW k \in Keys, NEW a, SetApplication(k, a),
           a = NoApp \/ (app[k] # NoApp /\ a.owner = app[k].owner)
    PROVE  /\ ApplicationsHeld(lost)'
           /\ \A j \in Keys : app[j] = NoApp => app'[j] = NoApp
  BY DEF TypeOK, ApplicationsHeld, SetApplication, Home, AppKey

LEMMA DeletedOwner ==
    ASSUME NEW a \in Application \cup {NoApp}
    PROVE  Deleted(a) = NoApp \/ (a # NoApp /\ Deleted(a).owner = a.owner)
  BY DEF Deleted, Application

LEMMA InitRelease == ASSUME NEW lost PROVE Init => ReleaseSound(lost)
  BY DEF Init, ReleaseSound, ApplicationsHeld, CacheSound, WorkerSound, Finalized, Idle

\* Nothing but the worker takes a finalizer away or adds one.
LEMMA UserRelease ==
    ASSUME NEW lost, TypeOK, ReleaseSound(lost), UserStep
    PROVE  ReleaseSound(lost)'
  <1> USE DEF ReleaseSound
  <1>1. ASSUME NEW h \in HelmReleases, UNCHANGED <<app, hrCache, worker>>,
               NEW o \in HelmReleaseObject \cup {NoHR}, hr' = [hr EXCEPT ![h] = o],
               Finalized(hr[h]) => Finalized(o) /\ (hr[h].del => o.del),
               ~Finalized(hr[h]) => ~Finalized(o)
        PROVE  ReleaseSound(lost)'
    <2>1. \A g \in HelmReleases : /\ Finalized(hr[g]) <=> Finalized(hr'[g])
                                  /\ Finalized(hr[g]) /\ hr[g].del => hr'[g].del
      BY <1>1 DEF TypeOK
    <2>2. ApplicationsHeld(lost)'
      BY <1>1, <2>1 DEF ApplicationsHeld, Home, AppKey
    <2>3. CacheSound'
      BY <1>1, <2>1 DEF CacheSound
    <2>4. worker.pc # "idle" => worker.key \in HelmReleases
      BY WorkerTypes DEF TypeOK, WorkerStates, Idle
    <2>5. WorkerSound(lost)'
      BY <1>1, <2>1, <2>4, WorkerTypes DEF WorkerSound, Home, AppKey
    <2> QED BY <2>2, <2>3, <2>5
  <1>2. ASSUME NEW k \in Keys, NEW a, SetApplication(k, a), UNCHANGED <<hr, hrCache, worker>>,
               a = NoApp \/ (app[k] # NoApp /\ a.owner = app[k].owner)
        PROVE  ReleaseSound(lost)'
    <2>1. /\ ApplicationsHeld(lost)'
          /\ \A j \in Keys : app[j] = NoApp => app'[j] = NoApp
      BY <1>2, HeldKept
    <2>2. CacheSound'
      BY <1>2 DEF CacheSound
    <2>3. WorkerSound(lost)'
      BY <1>2, <2>1, WorkerTypes DEF WorkerSound, Home, AppKey
    <2> QED BY <2>1, <2>2, <2>3
  <1>3. ASSUME NEW h \in HelmReleases, NEW s \in Specs, CreateHelmRelease(h, s)
        PROVE  ReleaseSound(lost)'
    <2> DEFINE o == [fin |-> FALSE, del |-> FALSE, spec |-> s, mirror |-> NoStatus]
    <2>1. o \in HelmReleaseObject
      BY DEF HelmReleaseObject, Statuses
    <2> QED BY <1>1, <1>3, <2>1 DEF CreateHelmRelease, UserOp, SameApplications, Finalized
  <1>4. ASSUME NEW h \in HelmReleases, NEW s \in Specs, EditHelmRelease(h, s)
        PROVE  ReleaseSound(lost)'
    <2> DEFINE o == [hr[h] EXCEPT !.spec = s]
    <2>1. /\ o \in HelmReleaseObject
          /\ o.fin = hr[h].fin /\ o.del = hr[h].del
      BY <1>4 DEF EditHelmRelease, TypeOK, HelmReleaseObject
    <2>2. o # NoHR
      BY <2>1, AbsentAssumption
    <2> QED BY <1>1, <1>4, <2>1, <2>2 DEF EditHelmRelease, UserOp, SameApplications, Finalized
  <1>5. ASSUME NEW h \in HelmReleases, DeleteHelmRelease(h)
        PROVE  ReleaseSound(lost)'
    <2> DEFINE o == IF hr[h].fin THEN [hr[h] EXCEPT !.del = TRUE] ELSE NoHR
    <2>1. o \in HelmReleaseObject \cup {NoHR}
      BY <1>5 DEF DeleteHelmRelease, TypeOK, HelmReleaseObject
    <2>2. hr[h].fin => o # NoHR /\ o.fin /\ o.del
      BY <1>5, AbsentAssumption DEF DeleteHelmRelease, TypeOK, HelmReleaseObject
    <2> QED BY <1>1, <1>5, <2>1, <2>2 DEF DeleteHelmRelease, UserOp, SameApplications, Finalized
  <1>6. ASSUME NEW k \in Keys, UserDeletesApplication(k)
        PROVE  ReleaseSound(lost)'
    BY <1>2, <1>6, DeletedOwner DEF UserDeletesApplication, UserOp, TypeOK
  <1>7. ASSUME NEW k \in Keys, UserEditsApplication(k)
        PROVE  ReleaseSound(lost)'
    <2>1. PICK a \in Drifted(app[k]) : SetApplication(k, a)
      BY <1>7 DEF UserEditsApplication
    <2>2. app[k] # NoApp /\ app[k] \in Application
      BY <1>7 DEF UserEditsApplication, TypeOK
    <2>3. a.owner = app[k].owner
      BY <2>1, <2>2 DEF Drifted, Application
    <2> QED BY <1>2, <1>7, <2>1, <2>2, <2>3 DEF UserEditsApplication, UserOp
  <1>8. ASSUME UNCHANGED <<hr, app, hrCache, worker>>
        PROVE  ReleaseSound(lost)'
    BY <1>8 DEF ApplicationsHeld, CacheSound, WorkerSound, Home, AppKey
  <1>9. ASSUME NEW url, EditRepository(url) PROVE ReleaseSound(lost)'
    BY <1>8, <1>9 DEF EditRepository, UserOp, SameApplications
  <1>10. ASSUME NEW nss, MoveArgoServer(nss) PROVE ReleaseSound(lost)'
    BY <1>8, <1>10 DEF MoveArgoServer, UserOp, SameApplications
  <1> QED BY <1>3, <1>4, <1>5, <1>6, <1>7, <1>9, <1>10 DEF UserStep

LEMMA EnvironmentRelease ==
    ASSUME NEW lost, TypeOK, ReleaseSound(lost), ArgoStep \/ EventStep \/ Crash
    PROVE  ReleaseSound(lost)'
  <1> USE DEF ReleaseSound
  <1>1. ASSUME NEW k \in Keys, NEW a, SetApplication(k, a), UNCHANGED <<hr, hrCache, worker>>,
               a = NoApp \/ (app[k] # NoApp /\ a.owner = app[k].owner)
        PROVE  ReleaseSound(lost)'
    <2>1. /\ ApplicationsHeld(lost)'
          /\ \A j \in Keys : app[j] = NoApp => app'[j] = NoApp
      BY <1>1, HeldKept
    <2>2. CacheSound'
      BY <1>1 DEF CacheSound
    <2>3. WorkerSound(lost)'
      BY <1>1, <2>1, WorkerTypes DEF WorkerSound, Home, AppKey
    <2> QED BY <2>1, <2>2, <2>3
  <1>2. ASSUME NEW k \in Keys, NEW st \in AppStatuses, ArgoReports(k, st)
        PROVE  ReleaseSound(lost)'
    <2>1. [app[k] EXCEPT !.status = st].owner = app[k].owner
      BY <1>2 DEF ArgoReports, TypeOK, Application
    <2> QED BY <1>1, <1>2, <2>1 DEF ArgoReports
  <1>3. ASSUME NEW k \in Keys, ArgoPrunes(k) PROVE ReleaseSound(lost)'
    BY <1>1, <1>3 DEF ArgoPrunes
  <1>4. ASSUME UNCHANGED <<hr, app, hrCache, worker>> PROVE ReleaseSound(lost)'
    BY <1>4 DEF ApplicationsHeld, CacheSound, WorkerSound, Home, AppKey
  <1>5. ASSUME NEW h \in HelmReleases, RequeueTimer(h) \/ Resync(h) PROVE ReleaseSound(lost)'
    BY <1>4, <1>5 DEF RequeueTimer, Resync, api, caches
  <1>6. ASSUME NEW k \in Keys, ApplicationEvent(k) PROVE ReleaseSound(lost)'
    BY <1>4, <1>6 DEF ApplicationEvent, api
  <1>7. ASSUME NEW h \in HelmReleases, HelmReleaseEvent(h) PROVE ReleaseSound(lost)'
    <2>1. ApplicationsHeld(lost)'
      BY <1>7 DEF HelmReleaseEvent, api, ApplicationsHeld, Home, AppKey
    <2>2. CacheSound'
      BY <1>7 DEF HelmReleaseEvent, api, CacheSound, TypeOK
    <2>3. WorkerSound(lost)'
      BY <1>7, WorkerTypes DEF HelmReleaseEvent, api, WorkerSound, Home, AppKey, TypeOK
    <2> QED BY <2>1, <2>2, <2>3
  <1>8. CASE Crash
    BY <1>8 DEF Crash, api, ApplicationsHeld, CacheSound, WorkerSound, Idle, Home, AppKey
  <1> QED BY <1>2, <1>3, <1>5, <1>6, <1>7, <1>8 DEF ArgoStep, EventStep

\* What a reconcile reads from the cache is sound when it reads it.
LEMMA ReconcileRelease ==
    ASSUME NEW lost, StableNames, TypeOK, ReleaseSound(lost), NEW h \in HelmReleases, Reconcile(h)
    PROVE  ReleaseSound(lost)'
  <1> USE DEF ReleaseSound
  <1>1. UNCHANGED <<hr, app, hrCache>>
    BY DEF Reconcile, ReconcileNotFound, ReconcileNoArgo, ReconcileNothing, ReconcileDelete,
           ReconcileFinalizer, ReconcileBlocked, ReconcileSync, Take, api, caches
  <1>2. ApplicationsHeld(lost)' /\ CacheSound'
    BY <1>1 DEF ApplicationsHeld, CacheSound, Home, AppKey
  <1>3. resolveArgoNamespace = {ArgoNamespace}
    BY DEF StableNames, resolveArgoNamespace
  <1>4. CASE ReconcileNotFound(h) \/ ReconcileNoArgo(h) \/ ReconcileNothing(h) \/ ReconcileBlocked(h)
    <2>1. worker' = Idle
      BY <1>4 DEF ReconcileNotFound, ReconcileNoArgo, ReconcileNothing, ReconcileBlocked,
                  Return, ReturnLater
    <2> QED BY <1>2, <2>1 DEF WorkerSound, Idle
  <1>5. CASE ReconcileDelete(h)
    <2>1. worker' = [pc |-> "delete", key |-> h, obj |-> hrCache[h],
                     app |-> AppKey(h, hrCache[h], ArgoNamespace)]
      BY <1>3, <1>5 DEF ReconcileDelete
    <2>2. hrCache[h] \in HelmReleaseObject /\ hrCache[h].fin /\ hrCache[h].del
      BY <1>5 DEF ReconcileDelete, TypeOK
    <2>3. AppKey(h, hrCache[h], ArgoNamespace) \in Home(h)
      BY <2>2 DEF Home
    <2>4. Finalized(hr[h]) => hr[h].del
      BY <1>5, <2>2 DEF CacheSound, Finalized, ReconcileDelete
    <2>5. worker'.app \in Home(h)'
      BY <2>1, <2>3 DEF Home, AppKey
    <2> QED BY <1>1, <1>2, <2>1, <2>2, <2>4, <2>5 DEF WorkerSound
  <1>6. CASE ReconcileFinalizer(h)
    BY <1>1, <1>2, <1>6 DEF ReconcileFinalizer, WorkerSound, Finalized
  <1>7. CASE ReconcileSync(h)
    <2> DEFINE k == AppKey(h, hrCache[h], ArgoNamespace)
    <2>1. worker' = [pc |-> "write", key |-> h, obj |-> hrCache[h], app |-> k,
                     base |-> appCache[k], source |-> Desired(hrCache[h])]
      BY <1>3, <1>7 DEF ReconcileSync
    <2>2. hrCache[h] \in HelmReleaseObject /\ hrCache[h].fin /\ ~hrCache[h].del
      BY <1>7 DEF ReconcileSync, Live, TypeOK
    <2>3. k \in Home(h)
      BY <2>2 DEF Home
    <2>4. Finalized(hr[h])
      BY <1>7, <2>2 DEF CacheSound, Finalized, ReconcileSync
    <2>5. worker'.app \in Home(h)'
      BY <2>1, <2>3 DEF Home, AppKey
    <2> QED BY <1>1, <1>2, <2>1, <2>4, <2>5 DEF WorkerSound
  <1> QED BY <1>4, <1>5, <1>6, <1>7 DEF Reconcile

\* What the invariant says of the HelmReleases depends on their finalizers only.
LEMMA HoldsKept ==
    ASSUME NEW lost, ApplicationsHeld(lost), CacheSound, UNCHANGED <<app, hrCache>>,
           \A g \in HelmReleases : /\ Finalized(hr[g]) <=> Finalized(hr'[g])
                                   /\ Finalized(hr[g]) /\ hr[g].del => hr'[g].del
    PROVE  ApplicationsHeld(lost)' /\ CacheSound'
  <1>1. ApplicationsHeld(lost)'
    BY DEF ApplicationsHeld, Home, AppKey
  <1>2. CacheSound'
    BY DEF CacheSound
  <1> QED BY <1>1, <1>2

LEMMA WorkerRelease ==
    ASSUME NEW lost, StableNames, TypeOK, ReleaseSound(lost), WorkerStep,
           \A k \in Keys : Misses(k) => k \in lost
    PROVE  ReleaseSound(lost)'
  <1> USE DEF ReleaseSound, At, Return, ReturnLater, SameApplications
  <1>0. ASSUME worker' = Idle PROVE WorkerSound(lost)'
    BY <1>0 DEF WorkerSound, Idle
  \* The finalizer is added to a release that the cache does not hold as deleted.
  <1>1. CASE AddFinalizer
    <2> DEFINE h == worker.key  o == [worker.obj EXCEPT !.fin = TRUE]
    <2>1. /\ h \in HelmReleases
          /\ worker.obj \in HelmReleaseObject
          /\ worker.pc = "finalize"
      BY <1>1, WorkerTypes DEF AddFinalizer
    <2>2. /\ hr' = hr \/ (hr[h] = worker.obj /\ hr' = [hr EXCEPT ![h] = o])
          /\ UNCHANGED <<app, hrCache>>
          /\ worker' = Idle
      BY <1>1 DEF AddFinalizer, UpdateHelmRelease, UpdateFails
    <2>3. o # NoHR /\ o.fin /\ o.del = worker.obj.del
      BY <2>1, AbsentAssumption DEF HelmReleaseObject
    <2>4. ApplicationsHeld(lost)'
      BY <2>1, <2>2, <2>3 DEF ApplicationsHeld, Finalized, Home, AppKey, TypeOK
    <2>5. hr[h] = worker.obj => ~Finalized(hrCache[h])
      BY <2>1 DEF WorkerSound, Finalized
    <2>6. CacheSound'
      BY <2>1, <2>2, <2>3, <2>5 DEF CacheSound, Finalized, TypeOK
    <2> QED BY <1>0, <2>2, <2>4, <2>6
  <1>2. CASE DeleteApplication
    <2> DEFINE k == worker.app
    <2>1. k \in Keys /\ worker.pc = "delete"
      BY <1>2, WorkerTypes DEF DeleteApplication
    <2>2. UNCHANGED <<hr, hrCache>>
      BY <1>2 DEF DeleteApplication
    <2>3. UNCHANGED app \/ SetApplication(k, Deleted(app[k]))
      BY <1>2 DEF DeleteApplication
    <2>4. ApplicationsHeld(lost)'
      <3>1. CASE UNCHANGED app
        BY <2>2, <3>1 DEF ApplicationsHeld, Home, AppKey
      <3>2. CASE SetApplication(k, Deleted(app[k]))
        BY <2>1, <2>2, <3>2, HeldKept, DeletedOwner DEF TypeOK
      <3> QED BY <2>3, <3>1, <3>2
    <2>5. CacheSound'
      BY <2>2 DEF CacheSound
    <2>6. \/ worker' = Idle
          \/ worker' = [worker EXCEPT !.pc = "recheck"]
          \/ /\ worker' = [worker EXCEPT !.pc = "release"] /\ UNCHANGED app
             /\ app[k] = NoApp \/ k \in lost
      <3>1. \/ worker' = Idle
            \/ worker' = [worker EXCEPT !.pc = "recheck"]
            \/ /\ worker' = [worker EXCEPT !.pc = "release"] /\ UNCHANGED app
               /\ appCache[k] = NoApp
        BY <1>2 DEF DeleteApplication
      <3>2. worker' = [worker EXCEPT !.pc = "release"] => worker'.pc = "release"
        BY <1>2, WorkerTypes DEF DeleteApplication
      <3> QED BY <2>1, <3>1, <3>2 DEF Misses
    <2>7. WorkerSound(lost)'
      BY <1>0, <2>1, <2>2, <2>6, WorkerTypes DEF WorkerSound, Home, AppKey
    <2> QED BY <2>4, <2>5, <2>7
  <1>3. CASE RecheckApplication
    <2> DEFINE k == worker.app
    <2>1. worker.pc = "recheck"
      BY <1>3 DEF RecheckApplication
    <2>2. UNCHANGED <<hr, hrCache, app>>
      BY <1>3 DEF RecheckApplication
    <2>3. \/ worker' = Idle
          \/ worker' = [worker EXCEPT !.pc = "release"] /\ (app[k] = NoApp \/ k \in lost)
      <3>1. \/ worker' = Idle
            \/ worker' = [worker EXCEPT !.pc = "release"] /\ appCache[k] = NoApp
        BY <1>3 DEF RecheckApplication
      <3>2. /\ k \in Keys
            /\ worker' = [worker EXCEPT !.pc = "release"] => worker'.pc = "release"
        BY <1>3, WorkerTypes DEF RecheckApplication
      <3> QED BY <2>1, <3>1, <3>2 DEF Misses
    <2>4. ApplicationsHeld(lost)' /\ CacheSound'
      BY <2>2 DEF ApplicationsHeld, CacheSound, Home, AppKey
    <2>5. WorkerSound(lost)'
      BY <1>0, <2>1, <2>2, <2>3, WorkerTypes DEF WorkerSound, Home, AppKey
    <2> QED BY <2>4, <2>5
  \* The release goes. Its Application can only be where the worker has looked,
  \* and is not there or lost.
  <1>4. CASE ReleaseHelmRelease
    <2> DEFINE h == worker.key
    <2>1. /\ h \in HelmReleases /\ worker.app \in Home(h) /\ worker.app \in Keys
          /\ app[worker.app] = NoApp \/ worker.app \in lost
          /\ Finalized(hrCache[h]) => hrCache[h].del
      BY <1>4, WorkerTypes DEF ReleaseHelmRelease, WorkerSound
    <2>2. /\ hr' = hr \/ hr' = [hr EXCEPT ![h] = NoHR]
          /\ UNCHANGED <<app, hrCache>>
          /\ worker' = Idle
      BY <1>4 DEF ReleaseHelmRelease, UpdateHelmRelease, UpdateFails
    <2>3. ApplicationsHeld(lost)'
      <3> SUFFICES ASSUME NEW k \in Keys, NEW g \in HelmReleases,
                          app[k] # NoApp, app[k].owner = g
                   PROVE  (Finalized(hr'[g]) \/ k \in lost) /\ k \in Home(g)
        BY <2>2 DEF ApplicationsHeld, Home, AppKey
      <3>1. (Finalized(hr[g]) \/ k \in lost) /\ k \in Home(g)
        BY DEF ApplicationsHeld
      <3>2. g # h \/ k = worker.app
        BY <2>1, <3>1, HomeUnique
      <3> QED BY <2>1, <2>2, <3>1, <3>2 DEF TypeOK
    <2>4. CacheSound'
      BY <2>1, <2>2 DEF CacheSound, Finalized, TypeOK
    <2> QED BY <1>0, <2>2, <2>3, <2>4
  \* An Application is written only for a release that is held.
  <1>5. CASE WriteApplication
    <2> DEFINE h == worker.key  k == worker.app
    <2>1. /\ h \in HelmReleases /\ k \in Keys /\ worker.pc = "write"
          /\ worker.base \in Application \cup {NoApp}
      BY <1>5, WorkerTypes DEF WriteApplication
    <2>2. Finalized(hr[h]) /\ k \in Home(h)
      BY <2>1 DEF WorkerSound
    <2>3. /\ UNCHANGED <<hr, hrCache>>
          /\ \/ UNCHANGED app
             \/ Writable /\ app' = [app EXCEPT ![k] = Written]
          /\ worker' = Idle \/ worker'.pc = "mirror"
      BY <1>5 DEF WriteApplication, GoOnToMirror, SetApplication
    <2>4. Writable => \/ Written.owner = h
                      \/ app[k] # NoApp /\ Written.owner = app[k].owner
      <3>1. CASE worker.base = NoApp
        BY <3>1 DEF Written, NewApplication
      <3>2. CASE worker.base # NoApp
        <4>1. (app[k] \in Application /\ worker.base \in Application) \/ ~Writable
          BY <2>1, <3>2 DEF Writable, TypeOK
        <4>2. Rendered(worker.base).owner = h \/ ~Writable
          BY <4>1 DEF Rendered, Application
        <4> QED BY <3>2, <4>1, <4>2, AbsentAssumption DEF Written, Merged, Application
      <3> QED BY <3>1, <3>2
    <2>5. ApplicationsHeld(lost)'
      <3> SUFFICES ASSUME NEW j \in Keys, NEW g \in HelmReleases,
                          app'[j] # NoApp, app'[j].owner = g
                   PROVE  (Finalized(hr[g]) \/ j \in lost) /\ j \in Home(g)
        BY <2>3 DEF ApplicationsHeld, Home, AppKey
      <3>1. CASE app'[j] = app[j]
        BY <3>1 DEF ApplicationsHeld
      <3>2. CASE j = k /\ Writable /\ app'[j] = Written
        <4>1. CASE g = h
          BY <2>2, <3>2, <4>1
        <4>2. CASE app[k] # NoApp /\ g = app[k].owner
          BY <3>2, <4>2 DEF ApplicationsHeld
        <4> QED BY <2>4, <3>2, <4>1, <4>2
      <3> QED BY <2>1, <2>3, <3>1, <3>2 DEF TypeOK
    <2>6. CacheSound'
      BY <2>3 DEF CacheSound
    <2>7. WorkerSound(lost)'
      BY <1>0, <2>3 DEF WorkerSound
    <2> QED BY <2>5, <2>6, <2>7
  <1>6. CASE MirrorStatus
    <2> DEFINE h == worker.key  o == [hr[h] EXCEPT !.mirror = worker.status]
    <2>1. h \in HelmReleases
      BY <1>6, WorkerTypes DEF MirrorStatus
    <2>2. /\ hr' = hr \/ (hr[h] # NoHR /\ hr' = [hr EXCEPT ![h] = o])
          /\ worker' = Idle
      BY <1>6 DEF MirrorStatus
    <2>5. UNCHANGED <<app, hrCache>>
      BY <1>6 DEF MirrorStatus
    <2>3. hr[h] # NoHR => o # NoHR /\ o.fin = hr[h].fin /\ o.del = hr[h].del
      BY <1>6, <2>1, WorkerTypes, AbsentAssumption DEF MirrorStatus, HelmReleaseObject, TypeOK
    <2>4. \A g \in HelmReleases : /\ Finalized(hr[g]) <=> Finalized(hr'[g])
                                  /\ Finalized(hr[g]) /\ hr[g].del => hr'[g].del
      BY <2>1, <2>2, <2>3 DEF Finalized, TypeOK
    <2> QED BY <1>0, <2>2, <2>4, <2>5, HoldsKept
  <1> QED BY <1>1, <1>2, <1>3, <1>4, <1>5, <1>6 DEF WorkerStep

\* All of the lost that still matter are in few.
Covers(few, lost) == \A k \in Keys : k \in lost /\ Unheld(k) => k \in few

\* Nothing is lost that is gone, or held by its release: those may be forgotten.
LEMMA SoundShrinks ==
    ASSUME NEW lost, StableNames, TypeOK, ReleaseSound(lost), NEW few,
           Covers(few, lost)
    PROVE  ReleaseSound(few)
  <1>1. ApplicationsHeld(few)
    <2> SUFFICES ASSUME NEW k \in Keys, NEW h \in HelmReleases, app[k] # NoApp, app[k].owner = h
                 PROVE  k \in Home(h) /\ (Finalized(hr[h]) \/ k \in few)
      BY DEF ApplicationsHeld
    <2>1. k \in Home(h) /\ (Finalized(hr[h]) \/ k \in lost)
      BY DEF ReleaseSound, ApplicationsHeld
    <2> QED BY <2>1 DEF Covers, Unheld, OwnersAt, Phase
  <1>2. WorkerSound(few)
    <2>1. CASE worker.pc # "release"
      BY <2>1 DEF ReleaseSound, WorkerSound
    <2>2. CASE worker.pc = "release"
      <3> DEFINE h == worker.key  k == worker.app
      <3>1. /\ h \in HelmReleases /\ k \in Keys /\ k \in Home(h)
            /\ Finalized(hr[h]) => hr[h].del
            /\ app[k] = NoApp \/ k \in lost
        BY <2>2, WorkerTypes DEF ReleaseSound, WorkerSound
      <3>2. ASSUME app[k] # NoApp PROVE app[k].owner = h
        <4>1. app[k].owner \in HelmReleases /\ k \in Home(app[k].owner)
          BY <3>1, <3>2 DEF ReleaseSound, ApplicationsHeld, TypeOK, Application
        <4> QED BY <3>1, <4>1, HomeUnique
      <3>3. app[k] = NoApp \/ k \in few
        BY <3>1, <3>2 DEF Covers, Unheld, OwnersAt, Phase
      <3> QED BY <2>2, <3>3 DEF ReleaseSound, WorkerSound
    <2> QED BY <2>1, <2>2
  <1> QED BY <1>1, <1>2 DEF ReleaseSound

\* The same of the next state.
LEMMA SoundShrinksNext ==
    ASSUME StableNames, NEW lost, NEW few
    PROVE  (TypeOK /\ ReleaseSound(lost) /\ Covers(few, lost) => ReleaseSound(few))'
  <1>1. TypeOK /\ ReleaseSound(lost) /\ Covers(few, lost) => ReleaseSound(few)
    BY SoundShrinks
  <1> QED BY <1>1, PTL

LEMMA NextRelease ==
    ASSUME StableNames, TypeOK, TypeOK', ReleaseInvariant, HistoryNext
    PROVE  ReleaseInvariant'
  <1>1. PICK lost : lost = missed \cup {k \in Keys : Misses(k)}
    OBVIOUS
  <1>2. ReleaseSound(lost)
    BY <1>1, SoundShrinks DEF Covers, ReleaseInvariant
  <1>3. ReleaseSound(lost)'
    BY <1>1, <1>2, UserRelease, EnvironmentRelease, ReconcileRelease, WorkerRelease
       DEF HistoryNext, Next
  <1>4. PICK few : few = missed'
    OBVIOUS
  <1>5. Covers(few, lost)'
    BY <1>1, <1>4 DEF Covers, HistoryNext, Overlooked
  <1>6. ReleaseSound(few)'
    BY <1>3, <1>5, SoundShrinksNext
  <1> QED BY <1>4, <1>6 DEF ReleaseInvariant

LEMMA HistoryTypes == HistorySpec => []TypeOK
  <1>1. HistoryInit => TypeOK
    BY InitTyping DEF HistoryInit
  <1>2. TypeOK /\ [HistoryNext]_<<vars, missed>> => TypeOK'
    BY NextTyping DEF HistoryNext, vars
  <1> QED BY <1>1, <1>2, PTL DEF HistorySpec

\* The inductive invariant holds in every reachable state, however far both caches
\* trail the API servers.
THEOREM ReleaseInvariantHolds ==
    ASSUME StableNames PROVE HistorySpec => []ReleaseInvariant
  <1>1. HistoryInit => ReleaseInvariant
    BY InitRelease DEF HistoryInit, ReleaseInvariant
  <1>2. TypeOK /\ TypeOK' /\ ReleaseInvariant /\ [HistoryNext]_<<vars, missed>> => ReleaseInvariant'
    <2>1. ReleaseInvariant /\ UNCHANGED <<vars, missed>> => ReleaseInvariant'
      BY DEF vars, api, caches, ReleaseInvariant, ReleaseSound, ApplicationsHeld, CacheSound,
             WorkerSound, Home, AppKey
    <2> QED BY <2>1, NextRelease
  <1> QED BY <1>1, <1>2, HistoryTypes, PTL DEF HistorySpec

\* An Application outlives its HelmRelease only where the deletion path was told by
\* the cache that there was none. Stale HelmReleases, stale patches, conflicts,
\* failing or half-done calls, crashes, and a release that is deleted and created
\* again at any moment leave none behind.
THEOREM OnlyTheMissed ==
    ASSUME StableNames PROVE HistorySpec => []OnlyMissedOrphaned
  <1>1. TypeOK /\ ReleaseInvariant => OnlyMissedOrphaned
    BY DEF ReleaseInvariant, ReleaseSound, ApplicationsHeld, OnlyMissedOrphaned, Finalized,
           TypeOK, Application
  <1> QED BY <1>1, ReleaseInvariantHolds, HistoryTypes, PTL

-----------------------------------------------------------------------------
(***************************************************************************)
(* Nothing is forgotten. This takes no assumption: names may clash, Argo   *)
(* CD may move, every cache may lag, every call may fail. What a call that *)
(* nobody is told of leaves behind is what RestSound says of a release at  *)
(* rest; what makes it inductive is that every write of an Application is  *)
(* announced to its old owner and to its new one (EventsSound), so that a  *)
(* worker that was not called back still knows what it has read            *)
(* (WorkerAware).                                                          *)
(***************************************************************************)

\* A step that a release is not told of leaves alone what it depends on.
Undisturbed(h) ==
    /\ ~Heard(h)
    /\ hrCache'[h] = hrCache[h]
    /\ \A k \in Keys : app'[k] # app[k] => h \notin Owners({app[k], app'[k]})
    /\ hrCache[h] # NoHR =>
          /\ resolveArgoNamespace' = resolveArgoNamespace
          /\ hrCache[h].spec.chart # NoChart => repo' = repo

\* Finalizer and conditions of a release stay.
Steady(h) ==
    /\ Finalized(hr'[h]) <=> Finalized(hr[h])
    /\ Finalized(hr[h]) => hr'[h].mirror = hr[h].mirror

\* Every write of an Application is announced to its old owner and its new one.
LEMMA SetTells ==
    ASSUME TypeOK, EventsSound, NEW k \in Keys, NEW a \in Application \cup {NoApp},
           SetApplication(k, a), UNCHANGED appCache
    PROVE  /\ EventsSound'
           /\ \A j \in Keys : /\ appEvents[j] \subseteq appEvents'[j]
                              /\ app'[j] # app[j] => Owners({app[j], app'[j]}) \subseteq appEvents'[j]
  <1>1. \A j \in Keys \ {k} : app'[j] = app[j] /\ appEvents'[j] = appEvents[j]
    BY DEF SetApplication, TypeOK
  <1>2. app'[k] = a
    BY DEF SetApplication, TypeOK
  <1>3. appEvents'[k] = IF a = app[k] THEN appEvents[k] ELSE appEvents[k] \cup Owners({app[k], a})
    BY DEF SetApplication, TypeOK
  <1>4. EventsSound'
    <2> SUFFICES ASSUME NEW j \in Keys, appCache[j] # app'[j]
                 PROVE  Owners({appCache[j], app'[j]}) \subseteq appEvents'[j]
      BY DEF EventsSound, Owners
    <2>1. CASE j # k
      BY <1>1, <2>1 DEF EventsSound, Owners
    <2>2. CASE j = k /\ a = app[k]
      BY <1>2, <1>3, <2>2 DEF EventsSound, Owners
    <2>3. CASE j = k /\ a # app[k]
      <3>1. appEvents'[k] = appEvents[k] \cup Owners({app[k], a})
        BY <1>3, <2>3
      <3>2. appCache[k] = app[k] \/ Owners({appCache[k], app[k]}) \subseteq appEvents[k]
        BY DEF EventsSound
      <3> QED BY <1>2, <2>3, <3>1, <3>2 DEF Owners
    <2> QED BY <2>1, <2>2, <2>3
  <1> QED BY <1>1, <1>2, <1>3, <1>4

\* Who is not told of a write has none of the Applications it touches.
LEMMA NotTold ==
    ASSUME NEW h \in HelmReleases, ~Heard(h)', queue \cup delayed \subseteq queue' \cup delayed',
           \A j \in Keys : /\ appEvents[j] \subseteq appEvents'[j]
                           /\ app'[j] # app[j] => Owners({app[j], app'[j]}) \subseteq appEvents'[j]
    PROVE  /\ ~Heard(h)
           /\ \A k \in Keys : app'[k] # app[k] => h \notin Owners({app[k], app'[k]})
  BY DEF Heard

\* What an undisturbed release finds in place stays there.
LEMMA PlaceKept ==
    ASSUME TypeOK, NEW h \in HelmReleases, NEW o \in HelmReleaseObject, Undisturbed(h),
           o = hrCache[h], o # NoHR, o.spec.chart # NoChart, InPlace(h, o)
    PROVE  /\ InPlace(h, o)'
           /\ \A st : HasStatus(h, o, st) => HasStatus(h, o, st)'
  <1>1. resolveArgoNamespace' = resolveArgoNamespace /\ repo' = repo
    BY DEF Undisturbed
  <1>2. ASSUME NEW ns \in ArgoNamespaces, resolveArgoNamespace = {ns}
        PROVE  app'[AppKey(h, o, ns)] = app[AppKey(h, o, ns)]
    <2>1. AppKey(h, o, ns) \in Keys
      BY KeyTyping
    <2>2. app[AppKey(h, o, ns)] # NoApp /\ app[AppKey(h, o, ns)].owner = h
      BY <1>2 DEF InPlace, Projection
    <2> QED BY <2>1, <2>2 DEF Undisturbed, Owners
  <1>3. \A ns : AppKey(h, o, ns)' = AppKey(h, o, ns)
    BY DEF AppKey
  <1>4. Desired(o)' = Desired(o)
    BY <1>1 DEF Desired
  <1>5. InPlace(h, o)'
    BY <1>1, <1>2, <1>3, <1>4 DEF InPlace, Projection
  <1>6. ASSUME NEW st, HasStatus(h, o, st) PROVE HasStatus(h, o, st)'
    BY <1>1, <1>2, <1>3, <1>6 DEF HasStatus
  <1> QED BY <1>5, <1>6

LEMMA RestKept ==
    ASSUME TypeOK, NEW h \in HelmReleases, RestSound(h), ~Busy(h), Steady(h),
           ~Heard(h)' => Undisturbed(h)
    PROVE  RestSound(h)'
  <1> SUFFICES ASSUME ~Heard(h)', NEW o \in HelmReleaseObject, o = hrCache[h], o # NoHR,
                      Undisturbed(h)
               PROVE  /\ ~o.del /\ ~o.fin => Finalized(hr'[h])
                      /\ o.del /\ o.fin => ~Finalized(hr'[h])
                      /\ Live(o) /\ Renders(o)' =>
                           /\ InPlace(h, o)'
                           /\ "status" \notin Faults /\ Finalized(hr'[h]) =>
                                HasStatus(h, o, o.mirror)' \/ HasStatus(h, o, hr[h].mirror)'
    <2>1. CASE Heard(h)' \/ hrCache'[h] = NoHR
      BY <2>1 DEF RestSound
    <2>2. CASE ~Heard(h)' /\ hrCache'[h] # NoHR
      <3>1. Undisturbed(h) /\ hrCache'[h] = hrCache[h] /\ hrCache[h] \in HelmReleaseObject
        BY <2>2 DEF Undisturbed, TypeOK
      <3> QED BY <2>2, <3>1 DEF RestSound, Finalized, Live
    <2> QED BY <2>1, <2>2
  <1>1. ~Heard(h)
    BY DEF Undisturbed
  <1>2. /\ ~o.del /\ ~o.fin => Finalized(hr'[h])
        /\ o.del /\ o.fin => ~Finalized(hr'[h])
    BY <1>1 DEF RestSound, Steady
  <1>3. ASSUME Live(o), Renders(o)'
        PROVE  /\ InPlace(h, o)'
               /\ "status" \notin Faults /\ Finalized(hr'[h]) =>
                     HasStatus(h, o, o.mirror)' \/ HasStatus(h, o, hr[h].mirror)'
    <2>1. o.spec.chart # NoChart /\ repo' # NoRepo
      BY <1>3 DEF Renders
    <2>2. Renders(o)
      BY <2>1 DEF Renders, Undisturbed
    <2>3. InPlace(h, o)
      BY <1>1, <1>3, <2>2 DEF RestSound
    <2>4. InPlace(h, o)' /\ \A st : HasStatus(h, o, st) => HasStatus(h, o, st)'
      BY <2>1, <2>3, PlaceKept
    <2>5. "status" \notin Faults /\ Finalized(hr[h]) =>
             HasStatus(h, o, o.mirror) \/ HasStatus(h, o, hr[h].mirror)
      BY <1>1, <1>3, <2>2 DEF RestSound
    <2>6. HasStatus(h, o, o.mirror) => HasStatus(h, o, o.mirror)'
      BY <2>4
    <2>7. ASSUME Finalized(hr[h]), HasStatus(h, o, hr[h].mirror)
          PROVE  HasStatus(h, o, hr[h].mirror)'
      <3>1. PICK st : st = hr[h].mirror /\ st = hr'[h].mirror
        BY <2>7 DEF Steady
      <3>2. HasStatus(h, o, st)'
        BY <2>4, <2>7, <3>1
      <3> QED BY <3>1, <3>2 DEF HasStatus
    <2> QED BY <2>4, <2>5, <2>6, <2>7 DEF Steady
  <1> QED BY <1>2, <1>3

\* What the worker has read holds as long as it is not called back.
LEMMA WorkerKept ==
    ASSUME TypeOK, WorkerAware, UNCHANGED worker,
           \A h \in HelmReleases : ~Heard(h)' => Undisturbed(h)
    PROVE  WorkerAware'
  <1>1. CASE worker = Idle
    BY <1>1 DEF WorkerAware, Idle
  <1>2. CASE worker # Idle
    <2>1. PICK h \in HelmReleases, o \in HelmReleaseObject : h = worker.key /\ o = worker.obj
      BY <1>2 DEF TypeOK, WorkerStates
    <2>2. /\ worker.pc = "finalize" => ~o.del /\ ~o.fin
          /\ worker.pc \in {"delete", "recheck", "release"} => o.del /\ o.fin
          /\ worker.pc \in {"write", "mirror"} => Live(o) /\ o.spec.chart # NoChart
      BY <2>1 DEF WorkerAware
    <2>3. ASSUME ~Heard(h)'
          PROVE  ~Heard(h) /\ Undisturbed(h) /\ o = hrCache[h] /\ o # NoHR /\ o = hrCache'[h]
      BY <1>2, <2>1, <2>3, AbsentAssumption DEF WorkerAware, Undisturbed
    <2>4. ASSUME worker.pc = "write", ~Heard(h)'
          PROVE  /\ \A ns \in ArgoNamespaces :
                       resolveArgoNamespace' = {ns} => worker.app = AppKey(h, o, ns)
                 /\ worker.source = Desired(o)'
                 /\ worker.base # NoApp =>
                       IF worker.base.owner = h THEN app'[worker.app] = worker.base
                       ELSE app'[worker.app] = NoApp \/ app'[worker.app].owner # h
      <3>1. resolveArgoNamespace' = resolveArgoNamespace /\ repo' = repo
        BY <2>2, <2>3, <2>4 DEF Undisturbed
      <3>2. worker.app \in Keys /\ worker.base \in Application \cup {NoApp}
        BY <2>4, WorkerTypes
      <3>3. /\ \A ns \in ArgoNamespaces :
                  resolveArgoNamespace = {ns} => worker.app = AppKey(h, o, ns)
            /\ worker.source = Desired(o)
            /\ worker.base # NoApp =>
                  IF worker.base.owner = h THEN app[worker.app] = worker.base
                  ELSE app[worker.app] = NoApp \/ app[worker.app].owner # h
        BY <2>1, <2>3, <2>4 DEF WorkerAware
      <3>4. app'[worker.app] # app[worker.app] =>
                h \notin Owners({app[worker.app], app'[worker.app]})
        BY <2>3, <2>4, <3>2 DEF Undisturbed
      <3> QED BY <3>1, <3>3, <3>4 DEF Owners, Desired
    <2>5. ASSUME worker.pc = "mirror", ~Heard(h)'
          PROVE  InPlace(h, o)' /\ HasStatus(h, o, worker.status)'
      <3>1. InPlace(h, o) /\ HasStatus(h, o, worker.status)
        BY <2>1, <2>3, <2>5 DEF WorkerAware
      <3>2. PICK st : st = worker.status
        OBVIOUS
      <3>3. InPlace(h, o)' /\ HasStatus(h, o, st)'
        BY <2>2, <2>3, <2>5, <3>1, <3>2, PlaceKept
      <3> QED BY <3>2, <3>3 DEF HasStatus
    <2>6. \A ns : AppKey(h, o, ns)' = AppKey(h, o, ns)
      BY DEF AppKey
    <2>7. h = worker'.key /\ o = worker'.obj
      BY <2>1
    <2> QED BY <2>2, <2>3, <2>4, <2>5, <2>6, <2>7 DEF WorkerAware, Live
  <1> QED BY <1>1, <1>2

\* A step that is no step of the worker, and that every release it matters to is told
\* of.
LEMMA WakeKept ==
    ASSUME TypeOK, WakeInvariant, UNCHANGED worker, EventsSound', DeletedHeld',
           \A h \in HelmReleases : Steady(h),
           \A h \in HelmReleases : ~Heard(h)' => Undisturbed(h)
    PROVE  WakeInvariant'
  <1>1. WorkerAware'
    BY WorkerKept DEF WakeInvariant
  <1>2. ASSUME NEW h \in HelmReleases PROVE RestSound(h)'
    <2>1. CASE Busy(h)
      BY <2>1 DEF RestSound, Busy
    <2>2. CASE ~Busy(h)
      BY <2>2, RestKept DEF WakeInvariant
    <2> QED BY <2>1, <2>2
  <1> QED BY <1>1, <1>2 DEF WakeInvariant

\* A step in which the caches, the queue and all but one Application stay.
LEMMA WriteWake ==
    ASSUME TypeOK, WakeInvariant, NEW k \in Keys, NEW a \in Application \cup {NoApp},
           SetApplication(k, a),
           UNCHANGED <<hr, repo, services, hrCache, appCache, queue, delayed, worker>>
    PROVE  WakeInvariant'
  <1>1. /\ EventsSound'
        /\ \A j \in Keys : /\ appEvents[j] \subseteq appEvents'[j]
                           /\ app'[j] # app[j] => Owners({app[j], app'[j]}) \subseteq appEvents'[j]
    BY SetTells DEF WakeInvariant
  <1>2. resolveArgoNamespace' = resolveArgoNamespace
    BY DEF resolveArgoNamespace
  <1>3. ASSUME NEW h \in HelmReleases, ~Heard(h)' PROVE Undisturbed(h)
    <2>1. /\ ~Heard(h)
          /\ \A j \in Keys : app'[j] # app[j] => h \notin Owners({app[j], app'[j]})
      BY <1>1, <1>3, NotTold
    <2> QED BY <1>2, <2>1 DEF Undisturbed
  <1>4. DeletedHeld' /\ \A h \in HelmReleases : Steady(h)
    BY DEF WakeInvariant, DeletedHeld, Steady, Finalized
  <1> QED BY <1>1, <1>3, <1>4, WakeKept

\* A step in which one HelmRelease changes, but neither its finalizer nor its conditions.
LEMMA EditWake ==
    ASSUME TypeOK, WakeInvariant, NEW h \in HelmReleases, NEW o \in HelmReleaseObject \cup {NoHR},
           hr' = [hr EXCEPT ![h] = o],
           Finalized(o) <=> Finalized(hr[h]), Finalized(o) => o.mirror = hr[h].mirror,
           o # NoHR /\ o.del => o.fin,
           UNCHANGED <<app, appEvents, repo, services, hrCache, appCache, queue, delayed, worker>>
    PROVE  WakeInvariant'
  <1>1. EventsSound'
    BY DEF WakeInvariant, EventsSound, Owners
  <1>2. resolveArgoNamespace' = resolveArgoNamespace
    BY DEF resolveArgoNamespace
  <1>3. ASSUME NEW g \in HelmReleases, ~Heard(g)' PROVE Undisturbed(g)
    BY <1>2, <1>3 DEF Undisturbed, Heard
  <1>4. DeletedHeld' /\ \A g \in HelmReleases : Steady(g)
    BY DEF WakeInvariant, DeletedHeld, Steady, TypeOK
  <1> QED BY <1>1, <1>3, <1>4, WakeKept

\* A step in which HelmReleases and Applications stay, and what else changes is told.
LEMMA CallWake ==
    ASSUME TypeOK, WakeInvariant, UNCHANGED <<hr, app, worker>>, EventsSound',
           \A h \in HelmReleases : ~Heard(h)' => Undisturbed(h)
    PROVE  WakeInvariant'
  BY WakeKept DEF WakeInvariant, DeletedHeld, Steady, Finalized

LEMMA UserWake == TypeOK /\ WakeInvariant /\ UserStep => WakeInvariant'
  <1> SUFFICES ASSUME TypeOK, WakeInvariant, UserStep PROVE WakeInvariant'
    OBVIOUS
  <1>1. ASSUME NEW h \in HelmReleases, NEW s \in Specs, CreateHelmRelease(h, s)
        PROVE  WakeInvariant'
    <2> DEFINE o == [fin |-> FALSE, del |-> FALSE, spec |-> s, mirror |-> NoStatus]
    <2>1. o \in HelmReleaseObject
      BY DEF HelmReleaseObject, Statuses
    <2> QED BY <1>1, <2>1, EditWake DEF CreateHelmRelease, UserOp, SameApplications, Finalized
  <1>2. ASSUME NEW h \in HelmReleases, NEW s \in Specs, EditHelmRelease(h, s)
        PROVE  WakeInvariant'
    <2> DEFINE o == [hr[h] EXCEPT !.spec = s]
    <2>1. /\ o \in HelmReleaseObject /\ hr[h] # NoHR
          /\ o.fin = hr[h].fin /\ o.del = hr[h].del /\ o.mirror = hr[h].mirror
      BY <1>2 DEF EditHelmRelease, TypeOK, HelmReleaseObject
    <2>2. hr' = [hr EXCEPT ![h] = o]
      BY <1>2 DEF EditHelmRelease
    <2> HIDE DEF o
    <2>3. o # NoHR
      BY <2>1, AbsentAssumption
    <2> QED BY <1>2, <2>1, <2>2, <2>3, EditWake
            DEF EditHelmRelease, UserOp, SameApplications, Finalized, WakeInvariant, DeletedHeld
  <1>3. ASSUME NEW h \in HelmReleases, DeleteHelmRelease(h)
        PROVE  WakeInvariant'
    <2>1. hr[h] # NoHR /\ hr[h] \in HelmReleaseObject
      BY <1>3 DEF DeleteHelmRelease, TypeOK
    <2>2. CASE hr[h].fin
      <3> DEFINE o == [hr[h] EXCEPT !.del = TRUE]
      <3>1. o \in HelmReleaseObject /\ o.fin /\ o.mirror = hr[h].mirror
        BY <2>1, <2>2 DEF HelmReleaseObject
      <3>2. hr' = [hr EXCEPT ![h] = o]
        BY <1>3, <2>2 DEF DeleteHelmRelease
      <3> HIDE DEF o
      <3>3. o # NoHR
        BY <3>1, AbsentAssumption
      <3> QED BY <1>3, <2>1, <2>2, <3>1, <3>2, <3>3, EditWake
              DEF DeleteHelmRelease, UserOp, SameApplications, Finalized
    <2>3. CASE ~hr[h].fin
      <3>1. hr' = [hr EXCEPT ![h] = NoHR]
        BY <1>3, <2>3 DEF DeleteHelmRelease
      <3> QED BY <1>3, <2>3, <3>1, EditWake
              DEF DeleteHelmRelease, UserOp, SameApplications, Finalized
    <2> QED BY <2>2, <2>3
  <1>4. ASSUME NEW k \in Keys, UserDeletesApplication(k)
        PROVE  WakeInvariant'
    <2>1. Deleted(app[k]) \in Application \cup {NoApp}
      BY DeletedTyping DEF TypeOK
    <2> QED BY <1>4, <2>1, WriteWake DEF UserDeletesApplication, UserOp
  <1>5. ASSUME NEW k \in Keys, UserEditsApplication(k)
        PROVE  WakeInvariant'
    <2>1. PICK a \in Drifted(app[k]) : SetApplication(k, a)
      BY <1>5 DEF UserEditsApplication
    <2>2. app[k] \in Application
      BY <1>5 DEF UserEditsApplication, TypeOK
    <2>3. a \in Application
      BY <2>1, <2>2, DriftTyping
    <2> QED BY <1>5, <2>1, <2>3, WriteWake DEF UserEditsApplication, UserOp
  <1>6. ASSUME NEW url \in RepoURLs \cup {NoRepo}, EditRepository(url)
        PROVE  WakeInvariant'
    <2>1. /\ queue' = queue \cup {h \in Listed : hrCache[h].spec.chart # NoChart}
          /\ UNCHANGED <<hr, app, appEvents, services, hrCache, appCache, delayed, worker>>
      BY <1>6 DEF EditRepository, UserOp, SameApplications
    <2>2. resolveArgoNamespace' = resolveArgoNamespace
      BY <2>1 DEF resolveArgoNamespace
    <2>3. ASSUME NEW h \in HelmReleases, ~Heard(h)' PROVE Undisturbed(h)
      BY <2>1, <2>2, <2>3 DEF Undisturbed, Heard, Listed
    <2> QED BY <2>1, <2>3, CallWake DEF WakeInvariant, EventsSound, Owners
  <1>7. ASSUME NEW nss \in SUBSET ArgoNamespaces, MoveArgoServer(nss)
        PROVE  WakeInvariant'
    <2>1. /\ queue' = queue \cup Listed
          /\ UNCHANGED <<hr, app, appEvents, repo, hrCache, appCache, delayed, worker>>
      BY <1>7 DEF MoveArgoServer, UserOp, SameApplications
    <2>2. ASSUME NEW h \in HelmReleases, ~Heard(h)' PROVE Undisturbed(h)
      BY <2>1, <2>2 DEF Undisturbed, Heard, Listed
    <2> QED BY <2>1, <2>2, CallWake DEF WakeInvariant, EventsSound, Owners
  <1> QED BY <1>1, <1>2, <1>3, <1>4, <1>5, <1>6, <1>7 DEF UserStep

LEMMA EnvironmentWake ==
    TypeOK /\ WakeInvariant /\ (ArgoStep \/ EventStep \/ UNCHANGED vars) => WakeInvariant'
  <1> SUFFICES ASSUME TypeOK, WakeInvariant, ArgoStep \/ EventStep \/ UNCHANGED vars
               PROVE  WakeInvariant'
    OBVIOUS
  <1>1. ASSUME NEW k \in Keys, NEW st \in AppStatuses, ArgoReports(k, st) PROVE WakeInvariant'
    <2>1. [app[k] EXCEPT !.status = st] \in Application
      BY <1>1 DEF ArgoReports, TypeOK, Application, Statuses
    <2> QED BY <1>1, <2>1, WriteWake DEF ArgoReports
  <1>2. ASSUME NEW k \in Keys, ArgoPrunes(k) PROVE WakeInvariant'
    BY <1>2, WriteWake DEF ArgoPrunes
  <1>3. ASSUME NEW h \in HelmReleases, RequeueTimer(h) \/ Resync(h) PROVE WakeInvariant'
    <2>1. /\ UNCHANGED <<hr, app, repo, services, hrCache, appCache, appEvents, worker>>
          /\ queue \cup delayed \subseteq queue' \cup delayed'
      BY <1>3 DEF RequeueTimer, Resync, api, caches
    <2>2. resolveArgoNamespace' = resolveArgoNamespace
      BY <2>1 DEF resolveArgoNamespace
    <2>3. ASSUME NEW g \in HelmReleases, ~Heard(g)' PROVE Undisturbed(g)
      BY <2>1, <2>2, <2>3 DEF Undisturbed, Heard
    <2> QED BY <2>1, <2>3, CallWake DEF WakeInvariant, EventsSound, Owners
  <1>4. ASSUME NEW h \in HelmReleases, HelmReleaseEvent(h) PROVE WakeInvariant'
    <2>1. /\ UNCHANGED <<hr, app, repo, services, appCache, appEvents, delayed, worker>>
          /\ hrCache' = [hrCache EXCEPT ![h] = hr[h]]
          /\ queue' = queue \cup {h}
      BY <1>4 DEF HelmReleaseEvent, api
    <2>2. resolveArgoNamespace' = resolveArgoNamespace
      BY <2>1 DEF resolveArgoNamespace
    <2>3. ASSUME NEW g \in HelmReleases, ~Heard(g)' PROVE Undisturbed(g)
      BY <2>1, <2>2, <2>3 DEF Undisturbed, Heard, TypeOK
    <2> QED BY <2>1, <2>3, CallWake DEF WakeInvariant, EventsSound, Owners
  <1>5. ASSUME NEW k \in Keys, ApplicationEvent(k) PROVE WakeInvariant'
    <2>1. /\ UNCHANGED <<hr, app, repo, services, hrCache, delayed, worker>>
          /\ appCache' = [appCache EXCEPT ![k] = app[k]]
          /\ appEvents' = [appEvents EXCEPT ![k] = {}]
          /\ queue' = queue \cup appEvents[k]
      BY <1>5 DEF ApplicationEvent, api
    <2>2. resolveArgoNamespace' = resolveArgoNamespace
      BY <2>1 DEF resolveArgoNamespace
    <2>3. \A j \in Keys : /\ j # k => appCache'[j] = appCache[j] /\ appEvents'[j] = appEvents[j]
                          /\ appCache'[k] = app[k]
      BY <2>1 DEF TypeOK
    <2>4. EventsSound'
      <3> SUFFICES ASSUME NEW j \in Keys, appCache'[j] # app[j]
                   PROVE  Owners({appCache'[j], app[j]}) \subseteq appEvents'[j]
        BY <2>1 DEF EventsSound, Owners
      <3>1. j # k
        BY <2>3
      <3> QED BY <2>3, <3>1 DEF WakeInvariant, EventsSound, Owners
    <2>5. ASSUME NEW g \in HelmReleases, ~Heard(g)' PROVE Undisturbed(g)
      <3>1. ~Heard(g)
        BY <2>1, <2>3, <2>5 DEF Heard
      <3> QED BY <2>1, <2>2, <3>1 DEF Undisturbed
    <2> QED BY <2>1, <2>4, <2>5, CallWake
  <1>6. CASE UNCHANGED vars
    <2>1. UNCHANGED <<hr, app, repo, services, hrCache, appCache, appEvents, queue, delayed, worker>>
      BY <1>6 DEF vars, api, caches
    <2>2. resolveArgoNamespace' = resolveArgoNamespace
      BY <2>1 DEF resolveArgoNamespace
    <2>3. ASSUME NEW g \in HelmReleases, ~Heard(g)' PROVE Undisturbed(g)
      BY <2>1, <2>2, <2>3 DEF Undisturbed, Heard
    <2> QED BY <2>1, <2>3, CallWake DEF WakeInvariant, EventsSound, Owners
  <1> QED BY <1>1, <1>2, <1>3, <1>4, <1>5, <1>6 DEF ArgoStep, EventStep

\* After a restart everything that is listed is looked at.
LEMMA CrashWake == TypeOK /\ WakeInvariant /\ Crash => WakeInvariant'
  <1> SUFFICES ASSUME TypeOK, WakeInvariant, Crash PROVE WakeInvariant'
    OBVIOUS
  <1>1. /\ worker' = Idle /\ hrCache' = hr /\ appCache' = app
        /\ UNCHANGED <<hr, app>>
        /\ {h \in HelmReleases : hr[h] # NoHR} \subseteq queue'
    BY DEF Crash, api
  <1>2. EventsSound' /\ DeletedHeld' /\ WorkerAware'
    BY <1>1 DEF WakeInvariant, EventsSound, DeletedHeld, WorkerAware, Idle
  <1>3. ASSUME NEW h \in HelmReleases PROVE RestSound(h)'
    BY <1>1 DEF RestSound, Heard
  <1> QED BY <1>2, <1>3 DEF WakeInvariant

-----------------------------------------------------------------------------

\* What the reconcile of one release leaves of the others.
LEMMA OthersRest ==
    ASSUME TypeOK, WakeInvariant, NEW h \in HelmReleases,
           \A g \in HelmReleases \ {h} : ~Busy(g) /\ Steady(g) /\ (~Heard(g)' => Undisturbed(g))
    PROVE  \A g \in HelmReleases \ {h} : RestSound(g)'
  BY RestKept DEF WakeInvariant

\* A reconcile that makes no call leaves the release as its copy wants it, or comes
\* back; one that does knows what it has read.
LEMMA ReconcileWake ==
    ASSUME TypeOK, WakeInvariant, NEW h \in HelmReleases, Reconcile(h) PROVE WakeInvariant'
  <1> USE DEF Take, Return, ReturnLater, api, caches, bounds
  <1> DEFINE o == hrCache[h]
  <1>1. /\ worker = Idle /\ queue' = queue \ {h}
        /\ UNCHANGED <<hr, app, repo, services, hrCache, appCache, appEvents>>
        /\ delayed' = delayed \/ (delayed' = delayed \cup {h} /\ worker' = Idle)
    BY DEF Reconcile, ReconcileNotFound, ReconcileNoArgo, ReconcileNothing, ReconcileDelete,
           ReconcileFinalizer, ReconcileBlocked, ReconcileSync
  <1>2. resolveArgoNamespace' = resolveArgoNamespace
    BY <1>1 DEF resolveArgoNamespace
  <1>3. EventsSound' /\ DeletedHeld'
    BY <1>1 DEF WakeInvariant, EventsSound, DeletedHeld, Owners
  <1>4. \A g \in HelmReleases \ {h} : RestSound(g)'
    <2>1. ASSUME NEW g \in HelmReleases \ {h}
          PROVE  ~Busy(g) /\ Steady(g) /\ (~Heard(g)' => Undisturbed(g))
      BY <1>1, <1>2 DEF Busy, Steady, Finalized, Undisturbed, Heard
    <2> QED BY <2>1, OthersRest
  <1>5. ASSUME worker' = Idle, RestSound(h)' PROVE WakeInvariant'
    BY <1>3, <1>4, <1>5 DEF WakeInvariant, WorkerAware, Idle
  <1>6. ASSUME worker' # Idle, worker'.key = h, WorkerAware' PROVE WakeInvariant'
    <2>1. RestSound(h)'
      BY <1>6 DEF RestSound, Busy, Idle
    <2> QED BY <1>3, <1>4, <1>6, <2>1 DEF WakeInvariant
  <1>7. CASE ReconcileNoArgo(h) \/ ReconcileBlocked(h)
    <2>1. worker' = Idle /\ h \in delayed'
      BY <1>7 DEF ReconcileNoArgo, ReconcileBlocked
    <2> QED BY <1>5, <2>1 DEF RestSound, Heard
  <1>8. CASE ReconcileNotFound(h)
    <2>1. worker' = Idle /\ hrCache'[h] = NoHR
      BY <1>1, <1>8 DEF ReconcileNotFound
    <2> QED BY <1>5, <2>1 DEF RestSound
  <1>9. CASE ReconcileNothing(h)
    <2>1. worker' = Idle /\ IF o.del THEN ~o.fin ELSE o.fin /\ o.spec.suspend
      BY <1>9 DEF ReconcileNothing
    <2> QED BY <1>1, <1>5, <2>1 DEF RestSound, Live
  <1>10. CASE ReconcileDelete(h)
    <2>1. PICK k : worker' = [pc |-> "delete", key |-> h, obj |-> o, app |-> k]
      BY <1>10 DEF ReconcileDelete
    <2>2. o.del /\ o.fin
      BY <1>10 DEF ReconcileDelete
    <2>3. WorkerAware'
      BY <1>1, <2>1, <2>2 DEF WorkerAware
    <2> QED BY <1>6, <2>1, <2>3 DEF Idle
  <1>11. CASE ReconcileFinalizer(h)
    <2>1. worker' = [pc |-> "finalize", key |-> h, obj |-> o] /\ ~o.del /\ ~o.fin
      BY <1>11 DEF ReconcileFinalizer
    <2>2. WorkerAware'
      BY <1>1, <2>1 DEF WorkerAware
    <2> QED BY <1>6, <2>1, <2>2 DEF Idle
  <1>12. CASE ReconcileSync(h)
    <2>1. PICK ns \in resolveArgoNamespace :
             worker' = [pc |-> "write", key |-> h, obj |-> o, app |-> AppKey(h, o, ns),
                        base |-> appCache[AppKey(h, o, ns)], source |-> Desired(o)]
      BY <1>12 DEF ReconcileSync
    <2>2. Live(o) /\ Renders(o) /\ o \in HelmReleaseObject
      BY <1>12 DEF ReconcileSync, TypeOK
    <2> DEFINE k == AppKey(h, o, ns)
    <2>3. k \in Keys
      BY <2>2, KeyTyping, ResolveTyping
    \* An Application the cache is behind on has an event for its owners.
    <2>4. ASSUME ~Heard(h)', appCache[k] # NoApp
          PROVE  IF appCache[k].owner = h THEN app[k] = appCache[k]
                                          ELSE app[k] = NoApp \/ app[k].owner # h
      <3>1. h \notin appEvents[k]
        BY <1>1, <2>3, <2>4 DEF Heard
      <3>2. appCache[k] = app[k] \/ h \notin Owners({appCache[k], app[k]})
        BY <2>3, <3>1 DEF WakeInvariant, EventsSound
      <3> QED BY <2>4, <3>2 DEF Owners
    <2>5. \A n \in ArgoNamespaces : resolveArgoNamespace = {n} => k = AppKey(h, o, n)
      OBVIOUS
    <2>6. /\ worker'.pc = "write" /\ worker'.key = h /\ worker'.obj = o /\ worker'.app = k
          /\ worker'.base = appCache[k] /\ worker'.source = Desired(o)
      BY <2>1
    <2> HIDE DEF k
    <2>7. WorkerAware'
      BY <1>1, <1>2, <2>2, <2>4, <2>5, <2>6
         DEF WorkerAware, Live, Renders, Desired, AppKey
    <2> QED BY <1>6, <2>6, <2>7 DEF Idle
  <1> QED BY <1>7, <1>8, <1>9, <1>10, <1>11, <1>12 DEF Reconcile

\* What one call of the worker leaves of the releases it is not about.
LEMMA CallOthers ==
    ASSUME TypeOK, WakeInvariant, worker # Idle,
           UNCHANGED <<repo, services, hrCache, appCache, queue>>, delayed \subseteq delayed',
           \/ SameApplications
           \/ \E k \in Keys, a \in Application \cup {NoApp} : SetApplication(k, a),
           \A g \in HelmReleases \ {worker.key} : hr'[g] = hr[g]
    PROVE  /\ EventsSound'
           /\ \A g \in HelmReleases \ {worker.key} : RestSound(g)'
           /\ \A g \in HelmReleases : ~Heard(g)' => Undisturbed(g)
  <1>1. /\ EventsSound'
        /\ \A j \in Keys : /\ appEvents[j] \subseteq appEvents'[j]
                           /\ app'[j] # app[j] => Owners({app[j], app'[j]}) \subseteq appEvents'[j]
    <2>1. CASE SameApplications
      BY <2>1 DEF SameApplications, WakeInvariant, EventsSound, Owners
    <2>2. ASSUME NEW k \in Keys, NEW a \in Application \cup {NoApp}, SetApplication(k, a)
          PROVE  /\ EventsSound'
                 /\ \A j \in Keys : /\ appEvents[j] \subseteq appEvents'[j]
                                    /\ app'[j] # app[j] => Owners({app[j], app'[j]}) \subseteq appEvents'[j]
      BY <2>2, SetTells DEF WakeInvariant
    <2> QED BY <2>1, <2>2
  <1>2. resolveArgoNamespace' = resolveArgoNamespace
    BY DEF resolveArgoNamespace
  <1>3. ASSUME NEW g \in HelmReleases, ~Heard(g)' PROVE Undisturbed(g)
    <2>1. /\ ~Heard(g)
          /\ \A j \in Keys : app'[j] # app[j] => g \notin Owners({app[j], app'[j]})
      BY <1>1, <1>3, NotTold
    <2> QED BY <1>2, <2>1 DEF Undisturbed
  <1>4. worker.key \in HelmReleases
    BY DEF TypeOK, WorkerStates
  <1>5. \A g \in HelmReleases \ {worker.key} :
            ~Busy(g) /\ Steady(g) /\ (~Heard(g)' => Undisturbed(g))
    BY <1>3 DEF Busy, Steady, Finalized
  <1>6. \A g \in HelmReleases \ {worker.key} : RestSound(g)'
    BY <1>4, <1>5, OthersRest
  <1> QED BY <1>1, <1>3, <1>6

\* What CreateOrPatch leaves is the projection, if the Application it starts from
\* is not another release's and has not changed since it was read.
LEMMA WriteProjects ==
    ASSUME TypeOK, worker.pc = "write", worker.source = Desired(worker.obj),
           \/ worker.base = NoApp
           \/ worker.base # NoApp /\ worker.base.owner = worker.key /\ app[worker.app] = worker.base
    PROVE  /\ Unchanged => Projection(app[worker.app], worker.key, worker.obj)
                           /\ app[worker.app].status = worker.base.status
           /\ Writable  => Projection(Written, worker.key, worker.obj)
  <1>1. /\ worker.key \in HelmReleases
        /\ worker.source \in Source
        /\ worker.base \in Application \cup {NoApp}
    BY WorkerTypes
  <1>2. Written # NoApp \/ ~Writable
    BY WrittenTyping, AbsentAssumption
  <1>3. CASE worker.base = NoApp
    <2>1. ~Unchanged /\ Written = NewApplication
      BY <1>3 DEF Unchanged, Written
    <2> QED BY <1>2, <2>1 DEF NewApplication, Projection
  <1>4. CASE worker.base # NoApp /\ worker.base.owner = worker.key /\ app[worker.app] = worker.base
    <2> DEFINE b == worker.base  c == Rendered(b)
    <2>1. b \in Application
      BY <1>1, <1>4
    <2>2. c.owner = worker.key /\ c.cascade /\ c.source = worker.source
      BY <1>1, <2>1 DEF Rendered, Application
    <2>3. ASSUME Unchanged PROVE Projection(b, worker.key, worker.obj)
      BY <1>4, <2>2, <2>3 DEF Unchanged, Projection
    <2>4. Written = Merged(b, b, c)
      BY <1>4 DEF Written
    <2>5. [f \in DOMAIN c.source |->
              IF b.source[f] = c.source[f] THEN b.source[f] ELSE c.source[f]] = c.source
      <3>1. c.source \in Source
        BY <1>1, <2>2
      <3> HIDE DEF c
      <3> QED BY <3>1 DEF Source
    <2>6. Written.owner = c.owner /\ Written.cascade = c.cascade /\ Written.source = c.source
      <3> HIDE DEF c
      <3> QED BY <2>1, <2>4, <2>5 DEF Merged, Application
    <2>7. ASSUME Writable PROVE Projection(Written, worker.key, worker.obj)
      <3> HIDE DEF c
      <3> QED BY <1>2, <2>2, <2>6, <2>7 DEF Projection
    <2> QED BY <1>4, <2>3, <2>7 DEF Unchanged
  <1> QED BY <1>3, <1>4, WorkerTypes

LEMMA WorkerWake == TypeOK /\ WakeInvariant /\ WorkerStep => WakeInvariant'
  <1> SUFFICES ASSUME TypeOK, WakeInvariant, WorkerStep,
                      NEW h, h = worker.key, NEW o, o = worker.obj
               PROVE  WakeInvariant'
    OBVIOUS
  <1> USE DEF At, Return, ReturnLater
  <1>1. /\ worker # Idle /\ h \in HelmReleases /\ worker.obj \in HelmReleaseObject
        /\ UNCHANGED <<repo, services, hrCache, appCache, queue>> /\ delayed \subseteq delayed'
    BY WorkerTypes DEF WorkerStep, AddFinalizer, DeleteApplication, RecheckApplication,
           ReleaseHelmRelease, WriteApplication, MirrorStatus, GoOnToMirror, Idle
  <1>2. resolveArgoNamespace' = resolveArgoNamespace
    BY <1>1 DEF resolveArgoNamespace
  <1>3. WorkerAware
    BY DEF WakeInvariant
  \* The reconcile is over: the rest is what has become of its own release.
  <1>4. ASSUME worker' = Idle, DeletedHeld', EventsSound',
               \A g \in HelmReleases \ {h} : RestSound(g)', RestSound(h)'
        PROVE  WakeInvariant'
    BY <1>4 DEF WakeInvariant, WorkerAware, Idle
  <1>5. ASSUME worker' = Idle, h \in delayed' PROVE RestSound(h)'
    BY <1>5 DEF RestSound, Heard
  <1>6. ASSUME worker' # Idle, worker'.key = h, WorkerAware', UNCHANGED hr, EventsSound',
               \A g \in HelmReleases \ {h} : RestSound(g)'
        PROVE  WakeInvariant'
    <2>1. RestSound(h)'
      BY <1>6 DEF RestSound, Busy, Idle
    <2>2. DeletedHeld'
      BY <1>6 DEF WakeInvariant, DeletedHeld
    <2> QED BY <1>6, <2>1, <2>2 DEF WakeInvariant
  \* A copy that asks for a finalizer is outdated by the call.
  <1>7. CASE AddFinalizer
    <2> DEFINE new == [worker.obj EXCEPT !.fin = TRUE]
    <2>1. /\ worker.pc = "finalize" /\ worker' = Idle /\ SameApplications
          /\ \/ UNCHANGED hr /\ h \in delayed'
             \/ hr[h] = worker.obj /\ hr' = [hr EXCEPT ![h] = new]
      BY <1>7 DEF AddFinalizer, UpdateHelmRelease, UpdateFails
    <2>2. ~worker.obj.del /\ ~worker.obj.fin
      BY <1>3, <2>1 DEF WorkerAware
    <2>3. new.fin /\ new.del = worker.obj.del /\ new # NoHR
      BY <1>1, AbsentAssumption DEF HelmReleaseObject
    <2>4. \A g \in HelmReleases \ {h} : hr'[g] = hr[g]
      BY <2>1 DEF TypeOK
    <2>5. /\ EventsSound' /\ \A g \in HelmReleases \ {h} : RestSound(g)'
          /\ ~Heard(h)' => Undisturbed(h)
      BY <1>1, <2>1, <2>4, CallOthers
    <2>6. DeletedHeld'
      BY <1>1, <2>1, <2>3, <2>4 DEF WakeInvariant, DeletedHeld, TypeOK
    <2>7. CASE h \in delayed'
      BY <1>4, <1>5, <2>1, <2>5, <2>6, <2>7
    <2>8. CASE hr' = [hr EXCEPT ![h] = new]
      <3>1. hr'[h] = new
        BY <1>1, <2>8 DEF TypeOK
      <3>2. ~Heard(h)' => hrCache'[h] = worker.obj
        BY <1>1, <1>3, <2>5 DEF WorkerAware, Undisturbed
      <3> HIDE DEF new
      <3>3. RestSound(h)'
        BY <2>2, <2>3, <3>1, <3>2 DEF RestSound, Finalized, Live
      <3> QED BY <1>4, <2>1, <2>5, <2>6, <3>3
    <2> QED BY <2>1, <2>7, <2>8
  \* So is one that asks to be let go.
  <1>8. CASE ReleaseHelmRelease
    <2>1. /\ worker.pc = "release" /\ worker' = Idle /\ SameApplications
          /\ \/ UNCHANGED hr /\ h \in delayed'
             \/ hr' = [hr EXCEPT ![h] = NoHR]
      BY <1>8 DEF ReleaseHelmRelease, UpdateHelmRelease, UpdateFails
    <2>2. worker.obj.del /\ worker.obj.fin
      BY <1>3, <2>1 DEF WorkerAware
    <2>3. \A g \in HelmReleases \ {h} : hr'[g] = hr[g]
      BY <2>1 DEF TypeOK
    <2>4. /\ EventsSound' /\ \A g \in HelmReleases \ {h} : RestSound(g)'
          /\ ~Heard(h)' => Undisturbed(h)
      BY <1>1, <2>1, <2>3, CallOthers
    <2>5. DeletedHeld'
      BY <1>1, <2>1, <2>3 DEF WakeInvariant, DeletedHeld, TypeOK
    <2>6. CASE h \in delayed'
      BY <1>4, <1>5, <2>1, <2>4, <2>5, <2>6
    <2>7. CASE hr' = [hr EXCEPT ![h] = NoHR]
      <3>1. hr'[h] = NoHR
        BY <1>1, <2>7 DEF TypeOK
      <3>2. ~Heard(h)' => hrCache'[h] = worker.obj
        BY <1>1, <1>3, <2>4 DEF WorkerAware, Undisturbed
      <3>3. RestSound(h)'
        BY <2>2, <3>1, <3>2 DEF RestSound, Finalized, Live
      <3> QED BY <1>4, <2>1, <2>4, <2>5, <3>3
    <2> QED BY <2>1, <2>6, <2>7
  <1>9. CASE DeleteApplication \/ RecheckApplication
    <2>1. /\ worker.pc \in {"delete", "recheck"} /\ UNCHANGED hr
          /\ worker.app \in Keys
          /\ worker \in [pc : {"delete", "recheck", "release"}, key : HelmReleases,
                         obj : HelmReleaseObject, app : Keys]
      BY <1>9, WorkerTypes DEF DeleteApplication, RecheckApplication
    <2>2. SameApplications \/ SetApplication(worker.app, Deleted(app[worker.app]))
      BY <1>9 DEF DeleteApplication, RecheckApplication
    <2>3. Deleted(app[worker.app]) \in Application \cup {NoApp}
      BY <2>1, DeletedTyping DEF TypeOK
    <2>4. /\ EventsSound' /\ \A g \in HelmReleases \ {h} : RestSound(g)'
          /\ ~Heard(h)' => Undisturbed(h)
      BY <1>1, <2>1, <2>2, <2>3, CallOthers
    <2>5. DeletedHeld'
      BY <2>1 DEF WakeInvariant, DeletedHeld
    <2>6. \/ worker' = Idle /\ h \in delayed'
          \/ \E step \in {"recheck", "release"} : worker' = [worker EXCEPT !.pc = step]
      BY <1>9 DEF DeleteApplication, RecheckApplication
    <2>7. CASE worker' = Idle /\ h \in delayed'
      BY <1>4, <1>5, <2>4, <2>5, <2>7
    <2>8. ASSUME NEW step \in {"recheck", "release"}, worker' = [worker EXCEPT !.pc = step]
          PROVE  WakeInvariant'
      <3>1. worker'.pc = step /\ worker'.key = h /\ worker'.obj = worker.obj /\ worker' # Idle
        BY <2>1, <2>8 DEF Idle
      <3>2. worker.obj.del /\ worker.obj.fin
        BY <1>3, <2>1 DEF WorkerAware
      <3>3. ~Heard(h)' => worker.obj = hrCache'[h]
        BY <1>1, <1>3, <2>4 DEF WorkerAware, Undisturbed
      <3>4. WorkerAware'
        BY <3>1, <3>2, <3>3 DEF WorkerAware
      <3> QED BY <1>6, <2>1, <2>4, <3>1, <3>4
    <2> QED BY <2>6, <2>7, <2>8
  \* CreateOrPatch leaves the projection, or the release is told of what it has written.
  <1>10. CASE WriteApplication
    <2> PICK k : k = worker.app
      OBVIOUS
    <2>1. /\ worker.pc = "write" /\ UNCHANGED hr
          /\ worker \in [pc : {"write"}, key : HelmReleases, obj : HelmReleaseObject,
                         app : Keys, base : Application \cup {NoApp}, source : Source]
      BY <1>10, WorkerTypes DEF WriteApplication
    <2>2. SameApplications \/ (Writable /\ SetApplication(k, Written))
      BY <1>10 DEF WriteApplication
    <2>3. Writable => Written \in Application
      BY <2>1, WrittenTyping
    <2>4. /\ EventsSound' /\ \A g \in HelmReleases \ {h} : RestSound(g)'
          /\ ~Heard(h)' => Undisturbed(h)
      BY <1>1, <2>1, <2>2, <2>3, CallOthers
    <2>5. DeletedHeld'
      BY <2>1 DEF WakeInvariant, DeletedHeld
    <2>6. CASE worker' = Idle /\ h \in delayed'
      BY <1>4, <1>5, <2>4, <2>5, <2>6
    <2>7. ASSUME NEW st, worker' = [pc |-> "mirror", key |-> h, obj |-> o, status |-> st],
                 ~Heard(h)' => Projection(app'[k], h, o) /\ app'[k].status = st
          PROVE  WakeInvariant'
      <3>1. /\ worker'.pc = "mirror" /\ worker'.key = h /\ worker'.obj = o
            /\ worker'.status = st /\ worker' # Idle
        BY <2>7 DEF Idle
      <3>2. Live(o) /\ o.spec.chart # NoChart
        BY <1>3, <2>1 DEF WorkerAware
      <3>3. ASSUME ~Heard(h)' PROVE o = hrCache'[h] /\ InPlace(h, o)' /\ HasStatus(h, o, st)'
        <4>1. /\ Undisturbed(h) /\ o = hrCache[h] /\ o # NoHR
              /\ \A ns \in ArgoNamespaces : resolveArgoNamespace = {ns} => k = AppKey(h, o, ns)
          BY <1>1, <1>3, <2>1, <2>4, <3>3, AbsentAssumption DEF WorkerAware, Undisturbed
        <4>2. Desired(o)' = Desired(o) /\ \A ns : AppKey(h, o, ns)' = AppKey(h, o, ns)
          BY <1>1 DEF Desired, AppKey
        <4>3. Projection(app[k], h, o)' /\ app'[k].status = st
          BY <2>7, <3>3, <4>2 DEF Projection
        <4>4. InPlace(h, o)' /\ HasStatus(h, o, st)'
          BY <1>2, <4>1, <4>2, <4>3 DEF InPlace, HasStatus, Projection
        <4> QED BY <1>1, <4>1, <4>4
      <3>4. WorkerAware'
        BY <3>1, <3>2, <3>3 DEF WorkerAware, Live
      <3> QED BY <1>6, <2>1, <2>4, <3>1, <3>4
    \* Who is not told has found the Application as it was read, or none of its own.
    <2>8. ASSUME ~Heard(h)'
          PROVE  /\ worker.source = Desired(o)
                 /\ worker.base # NoApp =>
                       IF worker.base.owner = h THEN app[k] = worker.base
                                                ELSE app[k] = NoApp \/ app[k].owner # h
      BY <1>3, <2>1, <2>4, <2>8 DEF WorkerAware, Undisturbed
    <2>9. CASE Unchanged /\ GoOnToMirror(worker.base.status) /\ SameApplications
      <3>1. worker.base # NoApp /\ worker.base.owner = h
        BY <2>1, <2>9 DEF Unchanged, Rendered, Application
      <3>2. ASSUME ~Heard(h)'
            PROVE  Projection(app'[k], h, o) /\ app'[k].status = worker.base.status
        BY <2>1, <2>8, <2>9, <3>1, <3>2, WriteProjects DEF SameApplications
      <3> QED BY <2>7, <2>9, <3>2 DEF GoOnToMirror
    <2>10. CASE Writable /\ SetApplication(k, Written) /\ GoOnToMirror(Written.status)
      <3>1. app'[k] = Written
        BY <2>1, <2>10 DEF SetApplication, TypeOK
      <3>2. ASSUME ~Heard(h)' PROVE Projection(Written, h, o)
        <4>1. CASE worker.base = NoApp \/ worker.base.owner = h
          BY <2>1, <2>8, <2>10, <3>2, <4>1, WriteProjects
        <4>2. CASE worker.base # NoApp /\ worker.base.owner # h
          \* Taking it over from another release is an event of one's own.
          <5>1. app[k] # NoApp /\ app[k].owner # h /\ app[k] \in Application
            BY <2>1, <2>8, <2>10, <3>2, <4>2 DEF Writable, TypeOK
          <5>2. Written.owner = h
            BY <2>1, <4>2, <5>1 DEF Written, Merged, Rendered, Application
          <5>3. Written # app[k] /\ Written # NoApp /\ h \in Owners({app[k], Written})
            BY <2>3, <2>10, <5>1, <5>2, AbsentAssumption DEF Owners
          <5> QED BY <2>1, <2>4, <3>1, <3>2, <5>3 DEF Undisturbed
        <4> QED BY <4>1, <4>2
      <3> QED BY <2>7, <2>10, <3>1, <3>2 DEF GoOnToMirror
    <2> QED BY <1>10, <2>6, <2>9, <2>10 DEF WriteApplication
  \* The conditions are patched at last, or were the Application's already.
  <1>11. CASE MirrorStatus
    <2> PICK st : st = worker.status
      OBVIOUS
    <2>1. /\ worker.pc = "mirror" /\ worker' = Idle /\ SameApplications
          /\ st \in Statuses
          /\ \/ hr[h] # NoHR /\ hr' = [hr EXCEPT ![h].mirror = st]
             \/ (hr[h] = NoHR \/ o.mirror = st) /\ UNCHANGED hr
             \/ "status" \in Faults /\ UNCHANGED hr
      BY <1>11, WorkerTypes DEF MirrorStatus, Fault
    <2>2. /\ \A g \in HelmReleases \ {h} : hr'[g] = hr[g]
          /\ IF hr[h] = NoHR THEN hr'[h] = NoHR
                             ELSE /\ hr'[h] # NoHR
                                  /\ hr'[h].fin = hr[h].fin /\ hr'[h].del = hr[h].del
          /\ \/ "status" \in Faults \/ hr[h] = NoHR
             \/ o.mirror = st \/ hr'[h].mirror = st
      <3>1. CASE hr[h] # NoHR /\ hr' = [hr EXCEPT ![h].mirror = st]
        <4>1. hr[h] \in HelmReleaseObject /\ hr'[h] = [hr[h] EXCEPT !.mirror = st]
          BY <1>1, <3>1 DEF TypeOK
        <4>2. hr'[h] \in HelmReleaseObject /\ hr'[h].mirror = st
              /\ hr'[h].fin = hr[h].fin /\ hr'[h].del = hr[h].del
          BY <2>1, <4>1 DEF HelmReleaseObject
        <4> QED BY <1>1, <3>1, <4>2, AbsentAssumption DEF TypeOK
      <3> QED BY <2>1, <3>1
    <2>3. /\ EventsSound' /\ \A g \in HelmReleases \ {h} : RestSound(g)'
          /\ ~Heard(h)' => Undisturbed(h)
      BY <1>1, <2>1, <2>2, CallOthers
    <2>4. DeletedHeld'
      BY <1>1, <2>2 DEF WakeInvariant, DeletedHeld
    <2>5. Live(o) /\ o.spec.chart # NoChart
      BY <1>3, <2>1 DEF WorkerAware
    <2>6. ASSUME ~Heard(h)'
          PROVE  o = hrCache'[h] /\ InPlace(h, o)' /\ HasStatus(h, o, st)'
      <3>1. /\ Undisturbed(h) /\ o = hrCache[h] /\ o # NoHR
            /\ InPlace(h, o) /\ HasStatus(h, o, st)
        BY <1>1, <1>3, <2>1, <2>3, <2>6, AbsentAssumption DEF WorkerAware, Undisturbed
      <3>2. o \in HelmReleaseObject
        BY <1>1
      <3>3. InPlace(h, o)' /\ HasStatus(h, o, st)'
        BY <1>1, <2>5, <3>1, <3>2, PlaceKept
      <3> QED BY <1>1, <3>1, <3>3
    <2>7. RestSound(h)'
      <3> SUFFICES ASSUME ~Heard(h)' PROVE RestSound(h)'
        BY DEF RestSound
      <3>1. hrCache'[h] = o /\ o.fin /\ ~o.del
        BY <2>5, <2>6 DEF Live
      <3>2. "status" \notin Faults /\ Finalized(hr'[h]) => o.mirror = st \/ hr'[h].mirror = st
        BY <2>2 DEF Finalized
      <3>3. ASSUME hr'[h].mirror = st PROVE HasStatus(h, o, hr[h].mirror)'
        BY <2>6, <3>3 DEF HasStatus
      <3> QED BY <2>6, <3>1, <3>2, <3>3 DEF RestSound
    <2> QED BY <1>4, <2>1, <2>3, <2>4, <2>7
  <1> QED BY <1>7, <1>8, <1>9, <1>10, <1>11 DEF WorkerStep

LEMMA InitWake == Init => WakeInvariant
  BY DEF Init, WakeInvariant, EventsSound, DeletedHeld, WorkerAware, RestSound, Heard, Idle

\* The inductive invariant holds in every reachable state.
THEOREM WakeInvariantHolds == Spec => []WakeInvariant
  <1>1. TypeOK /\ WakeInvariant /\ [Next]_vars => WakeInvariant'
    BY UserWake, EnvironmentWake, CrashWake, ReconcileWake, WorkerWake DEF Next
  <1> QED BY <1>1, InitWake, TypeCorrect, PTL DEF Spec

\* A release nothing leads back to is settled: the finalizer is on it, and its
\* copy in the cache, which is the release itself, is in place.
LEMMA RestSettled ==
    ASSUME WakeInvariant, NEW h \in HelmReleases, Deployable(h), ~Attended(h)
    PROVE  /\ InPlace(h, hr[h])
           /\ "status" \notin Faults => HasStatus(h, hr[h], hr[h].mirror)
  <1>1. hrCache[h] = hr[h] /\ ~Heard(h) /\ ~Busy(h)
    BY DEF Attended
  <1>2. hr[h] # NoHR /\ ~hr[h].del /\ ~hr[h].spec.suspend /\ Renders(hr[h])
    BY DEF Deployable
  <1>3. Finalized(hr[h])
    BY <1>1, <1>2 DEF WakeInvariant, RestSound, Finalized
  <1>4. Live(hr[h])
    BY <1>2, <1>3 DEF Live, Finalized
  <1> QED BY <1>1, <1>2, <1>3, <1>4 DEF WakeInvariant, RestSound

\* No wake-up is lost: a release that is to be deployed and whose Application is not
\* its projection has an event, a request or a reconcile under way; whatever the
\* users, Argo CD, the API servers, the caches and the restarts do.
THEOREM WakeUpsKept == Spec => []NoLostWakeUp
  <1>1. TypeOK /\ WakeInvariant => NoLostWakeUp
    <2> SUFFICES ASSUME TypeOK, WakeInvariant, NEW h \in HelmReleases, Deployable(h), ~Attended(h)
                 PROVE  \E ns \in resolveArgoNamespace :
                           Projection(app[AppKey(h, hr[h], ns)], h, hr[h])
      BY DEF NoLostWakeUp
    <2>1. PICK ns \in resolveArgoNamespace : resolveArgoNamespace = {ns}
      BY DEF Deployable
    <2> QED BY <2>1, ResolveTyping, RestSettled DEF InPlace
  <1> QED BY <1>1, TypeCorrect, WakeInvariantHolds, PTL

\* A release that is being deleted is never left with its finalizer and nobody to
\* take it off.
THEOREM DeletionsAttended == Spec => []NoStrandedDeletion
  <1>1. WakeInvariant => NoStrandedDeletion
    BY DEF NoStrandedDeletion, Terminating, Attended, WakeInvariant, DeletedHeld, RestSound,
           Finalized
  <1> QED BY <1>1, WakeInvariantHolds, PTL

\* As long as no status patch fails, the conditions are behind the Application only
\* while something leads the operator back to the release.
THEOREM StatusesMirrored == Spec => []StatusCurrent
  <1>1. TypeOK /\ WakeInvariant => StatusCurrent
    <2> SUFFICES ASSUME TypeOK, WakeInvariant, NEW h \in HelmReleases, Deployable(h), ~Attended(h),
                        "status" \notin Faults, NEW ns \in resolveArgoNamespace
                 PROVE  app[AppKey(h, hr[h], ns)].status = hr[h].mirror
      BY DEF StatusCurrent
    <2>1. resolveArgoNamespace = {ns}
      BY DEF Deployable
    <2> QED BY <2>1, ResolveTyping, RestSettled DEF HasStatus
  <1> QED BY <1>1, TypeCorrect, WakeInvariantHolds, PTL
=============================================================================
