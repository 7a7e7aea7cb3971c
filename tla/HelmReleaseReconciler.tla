----------------------- MODULE HelmReleaseReconciler -----------------------
(***************************************************************************)
(* pkg/controller/helmrelease_controller.go: the reconciler that mirrors   *)
(* Flux HelmReleases onto Argo CD Applications, with what surrounds it:    *)
(* the two API servers it writes to, the informer caches it reads from,    *)
(* its workqueue, the users, and Argo CD.                                  *)
(*                                                                         *)
(* The controller has one worker (MaxConcurrentReconciles is left at 1).   *)
(* All reads go through the caches, all writes go to the API server, and a *)
(* cache learns of a write only when its watch event arrives. A reconcile  *)
(* is cut at its API calls: everything it reads from the caches up to the  *)
(* first call is one step, every call is a step of its own.                *)
(***************************************************************************)
EXTENDS Naming, Naturals, FiniteSets

CONSTANTS
    HelmReleases,   \* keys "<namespace>/<name>"
    NameOf,         \* their metadata.name, as token sequences (see Naming)
    DependsOn,      \* the names each one's spec.dependsOn lists
    Specs,          \* the specs users give: records [chart, values, suspend]
    RepoURLs,       \* URLs the HelmRepository may have
    ArgoNamespaces, \* namespaces Argo CD may live in
    ArgoNamespace,  \* --argo-namespace, or NoNamespace
    ClusterName,    \* --cluster-name, a token sequence; <<>> when not set
    AppStatuses,    \* what Argo CD reports: records [sync, op, health]
    NoHR, NoApp, NoRepo, NoNamespace

CONSTANTS
    UserOps,        \* the kinds of user operation of this instance
    Faults,         \* the kinds of API call that may fail
    MaxUserOps, MaxFaults, MaxCrashes   \* bounds on the environment

NoStatus == [sync |-> "", op |-> FALSE, health |-> ""]
Statuses == AppStatuses \cup {NoStatus}

Charts == {s.chart : s \in Specs}
Values == {s.values : s \in Specs}

\* What a HelmRelease contributes to Application.spec.source (and, through
\* values, to the rest of the spec); its fields are merged one by one.
Source == [chart : Charts, values : Values, repo : RepoURLs]

HelmReleaseObject ==
    [fin : BOOLEAN, del : BOOLEAN, spec : Specs, mirror : Statuses]

AppNames == {applicationName(NameOf[h], c, ClusterName) :
                h \in HelmReleases, c \in Charts}
Keys == ArgoNamespaces \X AppNames

Application == [owner : HelmReleases, source : Source, cascade : BOOLEAN,
                del : BOOLEAN, status : Statuses]

AppKey(h, o, ns) == <<ns, applicationName(NameOf[h], o.spec.chart, ClusterName)>>

ASSUME ConstantsAssumption ==
    /\ Specs \subseteq [chart : Charts, values : Values, suspend : BOOLEAN]
    /\ ArgoNamespace \in ArgoNamespaces \cup {NoNamespace}
    /\ MaxUserOps \in Nat /\ MaxFaults \in Nat /\ MaxCrashes \in Nat

ASSUME AbsentAssumption ==
    /\ NoHR \notin HelmReleaseObject
    /\ NoApp \notin Application
    /\ NoNamespace \notin ArgoNamespaces
    /\ NoRepo \notin RepoURLs

VARIABLES
    \* The API servers.
    hr,         \* HelmReleases, on the workload cluster
    app,        \* Applications, on the cluster Argo CD runs on
    repo,       \* URL of the HelmRepository the releases refer to
    services,   \* namespaces that have an argocd-server Service
    \* The operator's process.
    hrCache,    \* informer cache of hr
    appCache,   \* informer cache of app
    appEvents,  \* per Application, the releases its undelivered watch events name
    queue,      \* requests ready in the workqueue
    delayed,    \* requests waiting out RequeueAfter or the error backoff
    worker,     \* the reconcile in progress
    \* Bounds.
    userOps, faults, crashes

api    == <<hr, app, repo, services>>
caches == <<hrCache, appCache, appEvents>>
bounds == <<userOps, faults, crashes>>
vars   == <<api, caches, queue, delayed, worker, bounds>>

Idle == [pc |-> "idle"]

\* The local variables of Reconcile that are alive at each of its API calls:
\* the request, the cached HelmRelease, the Application's key, the cached
\* Application the patch starts from, the status that came back with it.
WorkerStates ==
    {Idle}
    \cup [pc : {"finalize"}, key : HelmReleases, obj : HelmReleaseObject]
    \cup [pc : {"delete", "recheck", "release"}, key : HelmReleases,
          obj : HelmReleaseObject, app : Keys]
    \cup [pc : {"write"}, key : HelmReleases, obj : HelmReleaseObject, app : Keys,
          base : Application \cup {NoApp}, source : Source]
    \cup [pc : {"mirror"}, key : HelmReleases, obj : HelmReleaseObject, status : Statuses]

TypeOK ==
    /\ hr \in [HelmReleases -> HelmReleaseObject \cup {NoHR}]
    /\ hrCache \in [HelmReleases -> HelmReleaseObject \cup {NoHR}]
    /\ app \in [Keys -> Application \cup {NoApp}]
    /\ appCache \in [Keys -> Application \cup {NoApp}]
    /\ appEvents \in [Keys -> SUBSET HelmReleases]
    /\ repo \in RepoURLs \cup {NoRepo}
    /\ services \subseteq ArgoNamespaces
    /\ queue \subseteq HelmReleases
    /\ delayed \subseteq HelmReleases
    /\ worker \in WorkerStates
    /\ userOps \in 0..MaxUserOps
    /\ faults \in 0..MaxFaults
    /\ crashes \in 0..MaxCrashes

Init ==
    /\ hr = [h \in HelmReleases |-> NoHR]
    /\ app = [k \in Keys |-> NoApp]
    /\ repo \in RepoURLs
    /\ services \in {{ns} : ns \in ArgoNamespaces}
    /\ hrCache = hr
    /\ appCache = app
    /\ appEvents = [k \in Keys |-> {}]
    /\ queue = {}
    /\ delayed = {}
    /\ worker = Idle
    /\ userOps = 0 /\ faults = 0 /\ crashes = 0

-----------------------------------------------------------------------------
(* The API server that keeps the Applications. *)

Owners(as) == {a.owner : a \in as \ {NoApp}}

\* A write that changes the Application under k is on its way to the watch, as
\* an event with the old object and the new one. A HelmRelease's events are not
\* counted: the last one alone brings the cache up to date.
SetApplication(k, a) ==
    /\ app' = [app EXCEPT ![k] = a]
    /\ appEvents' = [appEvents EXCEPT ![k] =
                        IF a = app[k] THEN @ ELSE @ \cup Owners({app[k], a})]

SameApplications == UNCHANGED <<app, appEvents>>

\* An Application with the cascade finalizer stays, marked, when it is deleted,
\* until Argo CD has pruned its resources.
Deleted(a) == IF a # NoApp /\ a.cascade THEN [a EXCEPT !.del = TRUE] ELSE NoApp

-----------------------------------------------------------------------------
(* Users, on either API server. *)

UserOp(kind) ==
    /\ kind \in UserOps
    /\ userOps < MaxUserOps
    /\ userOps' = userOps + 1
    /\ UNCHANGED <<hrCache, appCache, delayed, worker, faults, crashes>>

CreateHelmRelease(h, s) ==
    /\ UserOp("create")
    /\ hr[h] = NoHR
    /\ hr' = [hr EXCEPT ![h] =
                [fin |-> FALSE, del |-> FALSE, spec |-> s, mirror |-> NoStatus]]
    /\ SameApplications /\ UNCHANGED <<repo, services, queue>>

EditHelmRelease(h, s) ==
    /\ UserOp("edit")
    /\ hr[h] # NoHR
    /\ hr[h].spec # s
    /\ hr' = [hr EXCEPT ![h].spec = s]
    /\ SameApplications /\ UNCHANGED <<repo, services, queue>>

\* The API server keeps an object with finalizers and marks it.
DeleteHelmRelease(h) ==
    /\ UserOp("delete")
    /\ hr[h] # NoHR
    /\ ~hr[h].del
    /\ hr' = [hr EXCEPT ![h] = IF @.fin THEN [@ EXCEPT !.del = TRUE] ELSE NoHR]
    /\ SameApplications /\ UNCHANGED <<repo, services, queue>>

UserDeletesApplication(k) ==
    /\ UserOp("unapp")
    /\ app[k] # NoApp
    /\ SetApplication(k, Deleted(app[k]))
    /\ UNCHANGED <<hr, repo, services, queue>>

\* kubectl edit: another value in the spec, or the cascade finalizer stripped.
Drifted(a) == {[a EXCEPT !.source = [@ EXCEPT !.values = v]] : v \in Values}
              \cup {[a EXCEPT !.cascade = FALSE]}

UserEditsApplication(k) ==
    /\ UserOp("drift")
    /\ app[k] # NoApp
    /\ ~app[k].del
    /\ \E a \in Drifted(app[k]) \ {app[k]} : SetApplication(k, a)
    /\ UNCHANGED <<hr, repo, services, queue>>

\* The releases in the cache; the watches on HelmRepositories and Services list them.
Listed == {h \in HelmReleases : hrCache[h] # NoHR}

\* Faulty: HelmRepositories are not watched.
EditRepository_Unwatched(url) ==
    /\ UserOp("repo")
    /\ repo # url
    /\ repo' = url
    /\ SameApplications /\ UNCHANGED <<hr, services, queue>>

\* The HelmRepository gets another URL, or is removed. Its watch wakes the
\* releases in the cache that have a chart.
EditRepository(url) ==
    /\ UserOp("repo")
    /\ repo # url
    /\ repo' = url
    /\ queue' = queue \cup {h \in Listed : hrCache[h].spec.chart # NoChart}
    /\ SameApplications /\ UNCHANGED <<hr, services>>

\* Argo CD is installed, removed or moved. The Service watch wakes every release.
MoveArgoServer(nss) ==
    /\ UserOp("argo")
    /\ services # nss
    /\ services' = nss
    /\ queue' = queue \cup Listed
    /\ SameApplications /\ UNCHANGED <<hr, repo>>

-----------------------------------------------------------------------------
(* Argo CD. *)

\* Argo CD reports on an Application whenever it likes.
ArgoReports(k, st) ==
    /\ app[k] # NoApp
    /\ app[k].status # st
    /\ SetApplication(k, [app[k] EXCEPT !.status = st])
    /\ UNCHANGED <<hr, repo, services, hrCache, appCache, queue, delayed, worker, bounds>>

\* The cascade has pruned everything and its finalizer is removed.
ArgoPrunes(k) ==
    /\ app[k] # NoApp
    /\ app[k].del
    /\ SetApplication(k, NoApp)
    /\ UNCHANGED <<hr, repo, services, hrCache, appCache, queue, delayed, worker, bounds>>

-----------------------------------------------------------------------------
(* Watches and the workqueue. *)

\* A HelmRelease event. There is no predicate: the controller's own status
\* patches come back too.
HelmReleaseEvent(h) ==
    /\ hrCache[h] # hr[h]
    /\ hrCache' = [hrCache EXCEPT ![h] = hr[h]]
    /\ queue' = queue \cup {h}
    /\ UNCHANGED <<api, appCache, appEvents, delayed, worker, bounds>>

\* Faulty: a predicate lets status updates pass unnoticed.
ApplicationEvent_SpecChangesOnly(k) ==
    /\ appEvents[k] # {}
    /\ appCache' = [appCache EXCEPT ![k] = app[k]]
    /\ appEvents' = [appEvents EXCEPT ![k] = {}]
    /\ IF NoApp \in {app[k], appCache[k]} \/ app[k].source # appCache[k].source
       THEN queue' = queue \cup appEvents[k]
       ELSE UNCHANGED queue
    /\ UNCHANGED <<api, hrCache, delayed, worker, bounds>>

\* Application events wake the releases their annotations name; an update maps
\* the old object and the new one.
ApplicationEvent(k) ==
    /\ appEvents[k] # {}
    /\ appCache' = [appCache EXCEPT ![k] = app[k]]
    /\ appEvents' = [appEvents EXCEPT ![k] = {}]
    /\ queue' = queue \cup appEvents[k]
    /\ UNCHANGED <<api, hrCache, delayed, worker, bounds>>

\* RequeueAfter, or the rate limiter's backoff, is over.
RequeueTimer(h) ==
    /\ h \in delayed
    /\ delayed' = delayed \ {h}
    /\ queue' = queue \cup {h}
    /\ UNCHANGED <<api, caches, worker, bounds>>

\* The informers' periodic resync, and events that change no modelled field.
Resync(h) ==
    /\ h \in Listed
    /\ h \notin queue
    /\ queue' = queue \cup {h}
    /\ UNCHANGED <<api, caches, delayed, worker, bounds>>

-----------------------------------------------------------------------------
(* Reconcile, up to its first API call. *)

Take(h) ==
    /\ worker = Idle
    /\ h \in queue
    /\ queue' = queue \ {h}
    /\ UNCHANGED <<api, caches, bounds>>

Return == worker' = Idle /\ UNCHANGED delayed

ReturnLater(h) == worker' = Idle /\ delayed' = delayed \cup {h}

\* The configured namespace, or whichever Service the cache lists first.
resolveArgoNamespace ==
    IF ArgoNamespace # NoNamespace THEN {ArgoNamespace} ELSE services

\* Synced, or the last sync succeeded; and Healthy or on its way.
Installed(st) == /\ st.sync = "Synced" \/ st.op
                 /\ st.health \in {"Healthy", "Progressing"}

\* A dependency is looked up under the name its own name projects to: the
\* lookup knows nothing of the dependency's chart.
DependencyKey(dep, ns) == <<ns, applicationName(dep, NoChart, ClusterName)>>

\* Faulty: a dependency whose Application is missing does not block.
checkDependenciesHealth_IgnoresMissing(h, ns) ==
    \A dep \in DependsOn[h] :
        LET k == DependencyKey(dep, ns)
        IN  k \in Keys /\ appCache[k] # NoApp => Installed(appCache[k].status)

checkDependenciesHealth(h, ns) ==
    \A dep \in DependsOn[h] :
        LET k == DependencyKey(dep, ns)
        IN  k \in Keys /\ appCache[k] # NoApp /\ Installed(appCache[k].status)

\* spec.chart is required and its HelmRepository has to be found.
Renders(o) == o.spec.chart # NoChart /\ repo # NoRepo

Desired(o) == [chart |-> o.spec.chart, values |-> o.spec.values, repo |-> repo]

\* Faulty: a release is mirrored before it has the finalizer.
Live_Unfinalized(o) == ~o.del /\ ~o.spec.suspend

Live(o) == ~o.del /\ o.fin /\ ~o.spec.suspend

ReconcileNotFound(h) ==
    /\ Take(h)
    /\ hrCache[h] = NoHR
    /\ Return

ReconcileNoArgo(h) ==
    /\ Take(h)
    /\ hrCache[h] # NoHR
    /\ resolveArgoNamespace = {}
    /\ ReturnLater(h)

\* Faulty: suspension is honoured before deletion.
ReconcileNothing_SuspendFirst(h) ==
    /\ Take(h)
    /\ hrCache[h] # NoHR
    /\ resolveArgoNamespace # {}
    /\ hrCache[h].spec.suspend \/ (hrCache[h].del /\ ~hrCache[h].fin)
    /\ Return

\* Deleted and already released, or suspended.
ReconcileNothing(h) ==
    /\ Take(h)
    /\ hrCache[h] # NoHR
    /\ resolveArgoNamespace # {}
    /\ IF hrCache[h].del THEN ~hrCache[h].fin ELSE hrCache[h].fin /\ hrCache[h].spec.suspend
    /\ Return

ReconcileDelete(h) ==
    /\ Take(h)
    /\ hrCache[h] # NoHR
    /\ hrCache[h].del /\ hrCache[h].fin
    /\ \E ns \in resolveArgoNamespace :
          worker' = [pc |-> "delete", key |-> h, obj |-> hrCache[h],
                     app |-> AppKey(h, hrCache[h], ns)]
    /\ UNCHANGED delayed

ReconcileFinalizer(h) ==
    /\ Take(h)
    /\ hrCache[h] # NoHR
    /\ ~hrCache[h].del /\ ~hrCache[h].fin
    /\ resolveArgoNamespace # {}
    /\ worker' = [pc |-> "finalize", key |-> h, obj |-> hrCache[h]]
    /\ UNCHANGED delayed

\* Faulty: nothing comes back to a release that had to wait.
ReconcileBlocked_NoRequeue(h) ==
    /\ Take(h)
    /\ hrCache[h] # NoHR
    /\ Live(hrCache[h])
    /\ \E ns \in resolveArgoNamespace :
          ~ (checkDependenciesHealth(h, ns) /\ Renders(hrCache[h]))
    /\ Return

\* The dependency gate is closed, or syncApplication fails before it writes.
ReconcileBlocked(h) ==
    /\ Take(h)
    /\ hrCache[h] # NoHR
    /\ Live(hrCache[h])
    /\ \E ns \in resolveArgoNamespace :
          ~ (checkDependenciesHealth(h, ns) /\ Renders(hrCache[h]))
    /\ ReturnLater(h)

\* The gate is open: CreateOrPatch reads the Application and renders the new one.
ReconcileSync(h) ==
    /\ Take(h)
    /\ hrCache[h] # NoHR
    /\ Live(hrCache[h])
    /\ \E ns \in resolveArgoNamespace :
          LET k == AppKey(h, hrCache[h], ns)
          IN  /\ checkDependenciesHealth(h, ns)
              /\ Renders(hrCache[h])
              /\ worker' = [pc |-> "write", key |-> h, obj |-> hrCache[h], app |-> k,
                            base |-> appCache[k], source |-> Desired(hrCache[h])]
    /\ UNCHANGED delayed

Reconcile(h) ==
    \/ ReconcileNotFound(h) \/ ReconcileNoArgo(h) \/ ReconcileNothing(h)
    \/ ReconcileDelete(h) \/ ReconcileFinalizer(h)
    \/ ReconcileBlocked(h) \/ ReconcileSync(h)

-----------------------------------------------------------------------------
(* Reconcile, from its first API call on. *)

At(step) ==
    /\ worker.pc = step
    /\ UNCHANGED <<repo, services, hrCache, appCache, queue, userOps, crashes>>

\* A transient API error, a bounded number of times.
Fault(kind) == kind \in Faults /\ faults < MaxFaults /\ faults' = faults + 1

\* Update carries the resourceVersion it read: it succeeds only on that object.
UpdateHelmRelease(o) ==
    /\ hr[worker.key] = worker.obj
    /\ hr' = [hr EXCEPT ![worker.key] = o]
    /\ SameApplications
    /\ UNCHANGED faults

\* A conflict, or the call fails; what failed for the caller may have been applied.
UpdateFails(o) ==
    /\ \/ hr[worker.key] # worker.obj /\ UNCHANGED <<hr, faults>>
       \/ Fault("update") /\ UNCHANGED hr
       \/ Fault("update") /\ hr[worker.key] = worker.obj /\ hr' = [hr EXCEPT ![worker.key] = o]
    /\ SameApplications

\* Faulty: an error of the update is logged and that is all.
AddFinalizer_ErrorsLogged ==
    /\ At("finalize")
    /\ LET o == [worker.obj EXCEPT !.fin = TRUE]
       IN  UpdateHelmRelease(o) \/ UpdateFails(o)
    /\ Return

AddFinalizer ==
    /\ At("finalize")
    /\ LET o == [worker.obj EXCEPT !.fin = TRUE]
       IN  \/ UpdateHelmRelease(o) /\ Return
           \/ UpdateFails(o) /\ ReturnLater(worker.key)

\* deleteApplication, up to and including the Delete call.
DeleteApplication ==
    /\ At("delete")
    /\ LET cached == appCache[worker.app]
           Then(step) == worker' = [worker EXCEPT !.pc = step] /\ UNCHANGED <<delayed, faults>>
           Delete == SetApplication(worker.app, Deleted(app[worker.app]))
       IN  \/ cached = NoApp /\ Then("release") /\ SameApplications
           \/ cached # NoApp /\ cached.del /\ Then("recheck") /\ SameApplications
           \/ cached # NoApp /\ ~cached.del /\ Then("recheck") /\ Delete
           \/ /\ cached # NoApp /\ ~cached.del
              /\ Fault("application")
              /\ SameApplications \/ Delete
              /\ ReturnLater(worker.key)
    /\ UNCHANGED hr

\* Faulty: the HelmRelease is released while Argo CD is still pruning.
RecheckApplication_Impatient ==
    /\ At("recheck")
    /\ worker' = [worker EXCEPT !.pc = "release"]
    /\ SameApplications
    /\ UNCHANGED <<hr, delayed, faults>>

\* deleteApplication's second look.
RecheckApplication ==
    /\ At("recheck")
    /\ \/ /\ appCache[worker.app] = NoApp
          /\ worker' = [worker EXCEPT !.pc = "release"]
          /\ UNCHANGED delayed
       \/ /\ appCache[worker.app] # NoApp
          /\ ReturnLater(worker.key)
    /\ SameApplications
    /\ UNCHANGED <<hr, faults>>

\* Without its last finalizer the deleted HelmRelease disappears.
ReleaseHelmRelease ==
    /\ At("release")
    /\ \/ UpdateHelmRelease(NoHR) /\ Return
       \/ UpdateFails(NoHR) /\ ReturnLater(worker.key)

\* The fields syncApplication sets.
Rendered(a) == [a EXCEPT !.owner = worker.key, !.source = worker.source, !.cascade = TRUE]

\* Faulty: the annotation lacks the namespace.
NewApplication_NameOnly ==
    [owner |-> NameOf[worker.key], source |-> worker.source, cascade |-> TRUE,
     del |-> FALSE, status |-> NoStatus]

NewApplication == [owner |-> worker.key, source |-> worker.source, cascade |-> TRUE,
                   del |-> FALSE, status |-> NoStatus]

\* A merge patch carries the fields in which the rendered Application differs
\* from the cached one, and no resourceVersion.
Merged(current, from, to) ==
    [current EXCEPT
        !.owner   = IF from.owner = to.owner THEN @ ELSE to.owner,
        !.cascade = IF from.cascade = to.cascade THEN @ ELSE to.cascade,
        !.source  = [f \in DOMAIN to.source |->
                        IF from.source[f] = to.source[f] THEN @[f] ELSE to.source[f]]]

Written ==
    IF worker.base = NoApp
    THEN NewApplication
    ELSE Merged(app[worker.app], worker.base, Rendered(worker.base))

Unchanged == worker.base # NoApp /\ Rendered(worker.base) = worker.base

\* Create needs the Application to be absent, Patch needs it to be present.
Writable == (worker.base = NoApp) = (app[worker.app] = NoApp)

GoOnToMirror(st) ==
    /\ worker' = [pc |-> "mirror", key |-> worker.key, obj |-> worker.obj, status |-> st]
    /\ UNCHANGED <<delayed, faults>>

\* CreateOrPatch's API call, if it makes one. The status mirrored afterwards is
\* the one in the response.
WriteApplication ==
    /\ At("write")
    /\ \/ Unchanged /\ GoOnToMirror(worker.base.status) /\ SameApplications
       \/ /\ ~Unchanged /\ Writable
          /\ SetApplication(worker.app, Written)
          /\ GoOnToMirror(Written.status)
       \/ /\ ~Unchanged /\ ~Writable
          /\ ReturnLater(worker.key)
          /\ SameApplications
          /\ UNCHANGED faults
       \/ /\ ~Unchanged
          /\ Fault("application")
          /\ SameApplications \/ (Writable /\ SetApplication(worker.app, Written))
          /\ ReturnLater(worker.key)
    /\ UNCHANGED hr

\* The status patch has no resourceVersion. It is empty when the conditions
\* have not changed since the cached HelmRelease, unless their timestamp has.
\* An error is logged and that is all.
MirrorStatus ==
    /\ At("mirror")
    /\ \/ hr[worker.key] # NoHR /\ hr' = [hr EXCEPT ![worker.key].mirror = worker.status]
          /\ UNCHANGED faults
       \/ (hr[worker.key] = NoHR \/ worker.obj.mirror = worker.status) /\ UNCHANGED <<hr, faults>>
       \/ Fault("status") /\ UNCHANGED hr
    /\ Return
    /\ SameApplications

WorkerStep == \/ AddFinalizer \/ DeleteApplication \/ RecheckApplication
              \/ ReleaseHelmRelease \/ WriteApplication \/ MirrorStatus

\* The process dies and comes back, or loses the lease to another one: the
\* caches are listed afresh before the worker starts, and what they list is
\* enqueued.
Crash ==
    /\ crashes < MaxCrashes
    /\ crashes' = crashes + 1
    /\ worker' = Idle
    /\ delayed' = {}
    /\ hrCache' = hr
    /\ appCache' = app
    /\ appEvents' = [k \in Keys |-> {}]
    /\ queue' = {h \in HelmReleases : hr[h] # NoHR}
                \cup Owners({app[k] : k \in Keys})
    /\ UNCHANGED <<api, userOps, faults>>

-----------------------------------------------------------------------------

UserStep ==
    \/ \E h \in HelmReleases : \/ \E s \in Specs : CreateHelmRelease(h, s) \/ EditHelmRelease(h, s)
                               \/ DeleteHelmRelease(h)
    \/ \E k \in Keys : UserDeletesApplication(k) \/ UserEditsApplication(k)
    \/ \E url \in RepoURLs \cup {NoRepo} : EditRepository(url)
    \/ \E nss \in SUBSET ArgoNamespaces : MoveArgoServer(nss)

ArgoStep == \E k \in Keys : \/ \E st \in AppStatuses : ArgoReports(k, st)
                            \/ ArgoPrunes(k)

EventStep == \/ \E h \in HelmReleases : HelmReleaseEvent(h) \/ RequeueTimer(h) \/ Resync(h)
             \/ \E k \in Keys : ApplicationEvent(k)

Next == \/ UserStep \/ ArgoStep \/ EventStep \/ Crash
        \/ \E h \in HelmReleases : Reconcile(h)
        \/ WorkerStep

Spec == Init /\ [][Next]_vars

\* Watch events arrive, timers fire, a cascade ends and the worker goes on; the
\* workqueue is first-in first-out, so no request in it waits for ever. Nothing
\* obliges the users, Argo CD's reports or the resync.
Fairness ==
    /\ \A h \in HelmReleases : /\ WF_vars(HelmReleaseEvent(h))
                               /\ WF_vars(RequeueTimer(h))
                               /\ SF_vars(Reconcile(h))
    /\ \A k \in Keys : WF_vars(ApplicationEvent(k)) /\ WF_vars(ArgoPrunes(k))
    /\ WF_vars(WorkerStep)

FairSpec == Spec /\ Fairness
=============================================================================
