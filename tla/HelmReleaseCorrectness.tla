----------------------- MODULE HelmReleaseCorrectness -----------------------
(* What the reconciler of HelmReleaseReconciler promises. *)
EXTENDS HelmReleaseReconciler

\* The finalizer "ensures the bridge can clean up the Argo CD Application before
\* the originating HelmRelease is removed": no Application is ever left behind
\* by a HelmRelease that is gone.
NoOrphanedApplication ==
    \A k \in Keys : app[k] # NoApp => hr[app[k].owner] # NoHR

\* An Application is the work of one release: it is created, patched and deleted
\* by the release its annotation names, never by another one.
OneWriter ==
    [][\A k \in Keys :
          /\ app[k] # NoApp
          /\ app'[k] # app[k]
          /\ worker # Idle /\ worker.pc \in {"write", "delete"} /\ worker' # worker
          => app[k].owner = worker.key]_vars

\* A release waits for the releases it depends on: its Application is not there
\* before theirs (where nobody deletes anything afterwards).
DependenciesFirst ==
    \A h \in HelmReleases, k \in Keys :
        app[k] # NoApp /\ app[k].owner = h =>
            \A dep \in DependsOn[h] : app[DependencyKey(dep, k[1])] # NoApp

-----------------------------------------------------------------------------

\* The release d is there under the name dep, and its Application is installed.
IsInstalled(d, dep, ns) ==
    /\ NameOf[d] = dep
    /\ hr[d] # NoHR
    /\ LET a == app[AppKey(d, hr[d], ns)]
       IN  a # NoApp /\ a.owner = d /\ Installed(a.status)

\* The user wants this release deployed, and it is known from what and where.
Deployable(h) ==
    /\ hr[h] # NoHR
    /\ ~hr[h].del
    /\ ~hr[h].spec.suspend
    /\ Renders(hr[h])
    /\ \E ns \in resolveArgoNamespace : resolveArgoNamespace = {ns}

\* And nothing outside stands in the way.
Wanted(h) ==
    /\ Deployable(h)
    /\ \A ns \in resolveArgoNamespace, dep \in DependsOn[h] :
          \E d \in HelmReleases : IsInstalled(d, dep, ns)

\* The Application is what the HelmRelease o of the key h says.
Projection(a, h, o) == /\ a # NoApp
                       /\ a.cascade
                       /\ a.owner = h
                       /\ a.source = Desired(o)

Projected(h) ==
    /\ hr[h] # NoHR
    /\ \E ns \in resolveArgoNamespace :
          LET a == app[AppKey(h, hr[h], ns)]
          IN  Projection(a, h, hr[h]) /\ ~a.del

\* A release that stays wanted is, from some time on, mirrored for good: by way
\* of edits, drift, a deleted Application, stale caches, conflicts, failing calls
\* and restarts, no wake-up is lost and no stale patch is the last word.
Converges == \A h \in HelmReleases : <>[]Wanted(h) => <>[]Projected(h)

\* A deleted release is let go in the end, if Argo CD's namespace can be found:
\* its Application is deleted, however often the deletion is retried, and the
\* finalizer does not stay behind, suspended or not.
Terminating(h) == hr[h] # NoHR /\ hr[h].del

DeletionFinishes ==
    \A h \in HelmReleases :
        <>[](resolveArgoNamespace # {}) => (Terminating(h) ~> ~Terminating(h))

\* The conditions of a HelmRelease end up being those of its Application: a
\* status that stays is mirrored, although the patch is computed from a cached
\* HelmRelease and nothing retries it.
MirrorConverges ==
    \A h \in HelmReleases, st \in Statuses :
        <>[](/\ Wanted(h)
             /\ \E ns \in resolveArgoNamespace :
                   LET a == app[AppKey(h, hr[h], ns)] IN a # NoApp /\ a.status = st)
        => <>[](hr[h] # NoHR /\ hr[h].mirror = st)

-----------------------------------------------------------------------------
(* Why nothing is forgotten, though a cache may miss what has been and gone. *)

Finalized(o) == o # NoHR /\ o.fin

\* A request for the release, or an event of an Application that was or is its own.
Heard(h) == \/ h \in queue \cup delayed
            \/ \E k \in Keys : h \in appEvents[k]

Busy(h) == worker # Idle /\ worker.key = h

\* Something leads the operator back to the release.
Attended(h) == Heard(h) \/ Busy(h) \/ hrCache[h] # hr[h]

\* The operator does not rest before a release is mirrored, whatever was changed,
\* in whichever order it heard of it, and whoever else writes the Application. (One
\* that is being pruned is looked at again when it has gone.)
NoLostWakeUp ==
    \A h \in HelmReleases : Deployable(h) /\ ~Attended(h) =>
        \E ns \in resolveArgoNamespace : Projection(app[AppKey(h, hr[h], ns)], h, hr[h])

\* Nor before a deleted release is let go.
NoStrandedDeletion == \A h \in HelmReleases : Terminating(h) => Attended(h)

\* Nor before the conditions are those of the Application. A status patch that
\* fails is logged and that is all, so that this takes that none does.
StatusCurrent ==
    \A h \in HelmReleases : Deployable(h) /\ ~Attended(h) /\ "status" \notin Faults =>
        \A ns \in resolveArgoNamespace : app[AppKey(h, hr[h], ns)].status = hr[h].mirror

\* An Application that has changed under the cache has told its old owner and its new one.
EventsSound ==
    \A k \in Keys : appCache[k] # app[k] => Owners({appCache[k], app[k]}) \subseteq appEvents[k]

\* An object is marked for deletion only as long as a finalizer keeps it.
DeletedHeld == \A h \in HelmReleases : hr[h] # NoHR /\ hr[h].del => hr[h].fin

\* Where there is no doubt where it belongs, the Application of the cached release
\* o is there.
InPlace(h, o) ==
    \A ns \in ArgoNamespaces :
        resolveArgoNamespace = {ns} => Projection(app[AppKey(h, o, ns)], h, o)

HasStatus(h, o, st) ==
    \A ns \in ArgoNamespaces :
        resolveArgoNamespace = {ns} => app[AppKey(h, o, ns)].status = st

\* A release nobody will look at again is as its copy in the cache wants it. Where
\* the copy asks for a call, the call was made, and the copy is outdated.
RestSound(h) ==
    LET o == hrCache[h]
    IN  ~Heard(h) /\ ~Busy(h) /\ o # NoHR =>
            /\ ~o.del /\ ~o.fin => Finalized(hr[h])
            /\ o.del /\ o.fin => ~Finalized(hr[h])
            /\ Live(o) /\ Renders(o) =>
                  /\ InPlace(h, o)
                  /\ "status" \notin Faults /\ Finalized(hr[h]) =>
                        HasStatus(h, o, o.mirror) \/ HasStatus(h, o, hr[h].mirror)

\* What a worker that was not called back has read still holds: the HelmRelease, the
\* repository, Argo CD's namespace, and of the Application as much as it relies on.
WorkerAware ==
    LET h == worker.key
        o == worker.obj
        a == app[worker.app]
    IN  /\ worker.pc = "finalize" => ~o.del /\ ~o.fin
        /\ worker.pc \in {"delete", "recheck", "release"} => o.del /\ o.fin
        /\ worker.pc \in {"write", "mirror"} => Live(o) /\ o.spec.chart # NoChart
        /\ worker # Idle /\ ~Heard(h) => o = hrCache[h]
        /\ worker.pc = "write" /\ ~Heard(h) =>
              /\ \A ns \in ArgoNamespaces :
                    resolveArgoNamespace = {ns} => worker.app = AppKey(h, o, ns)
              /\ worker.source = Desired(o)
              /\ worker.base # NoApp =>
                    IF worker.base.owner = h THEN a = worker.base
                                             ELSE a = NoApp \/ a.owner # h
        /\ worker.pc = "mirror" /\ ~Heard(h) =>
              InPlace(h, o) /\ HasStatus(h, o, worker.status)

\* The inductive invariant behind NoLostWakeUp, NoStrandedDeletion and StatusCurrent.
WakeInvariant ==
    EventsSound /\ DeletedHeld /\ WorkerAware /\ \A h \in HelmReleases : RestSound(h)
=============================================================================
