------------------------- MODULE HelmReleaseHistory -------------------------
(***************************************************************************)
(* When an Application is left behind by its HelmRelease, and when not.    *)
(*                                                                         *)
(* deleteApplication takes NotFound from the cache as proof that there is  *)
(* no Application, but the cache may not have heard of it yet. This module *)
(* watches the reconciler and writes down which Applications that has      *)
(* happened to; whatever else it may do wrong, those are the only ones     *)
(* that are ever left behind.                                              *)
(***************************************************************************)
EXTENDS HelmReleaseCorrectness

VARIABLE
    missed      \* observer: the Applications their release's deletion has overlooked

\* A release as a bystander sees it.
Phase(h) == IF ~Finalized(hr[h]) THEN "out" ELSE IF hr[h].del THEN "leaving" ELSE "held"

\* The deletion path goes on to let the release go, because the cache shows no
\* Application under k, though there is one.
Misses(k) ==
    /\ worker.pc \in {"delete", "recheck"}
    /\ worker'.pc = "release"
    /\ worker.app = k
    /\ appCache[k] = NoApp
    /\ app[k] # NoApp

\* The release of an Application as a bystander sees it.
OwnersAt(k) == IF app[k] = NoApp THEN {} ELSE {app[k].owner}

Unheld(k) == \E h \in OwnersAt(k) : Phase(h) # "held"

\* An Application stays overlooked until it is gone, or its release is there again
\* and held by the finalizer.
Overlooked == {k \in Keys : Unheld(k)' /\ (k \in missed \/ Misses(k))}

HistoryInit == Init /\ missed = {}

HistoryNext == Next /\ missed' = Overlooked

HistorySpec == HistoryInit /\ [][HistoryNext]_<<vars, missed>>

-----------------------------------------------------------------------------

\* No Application is left behind by a HelmRelease that is gone, except where the
\* deletion was told that there was none: stale copies of the HelmRelease, stale
\* patches, conflicts, calls that fail or are half done, a restart at any moment
\* and a release that is deleted and created again leave nothing behind.
OnlyMissedOrphaned ==
    \A k \in Keys : app[k] # NoApp /\ hr[app[k].owner] = NoHR => k \in missed

-----------------------------------------------------------------------------
(* Why that is so. *)

\* Every release has one Application name, whatever its chart, and no two have
\* the same; Argo CD does not move.
StableNames ==
    /\ ArgoNamespace # NoNamespace
    /\ \A h, g \in HelmReleases, c, d \in Charts :
          applicationName(NameOf[h], c, ClusterName) = applicationName(NameOf[g], d, ClusterName)
          <=> h = g

\* The keys a release may look for its Application under.
Home(h) == {AppKey(h, o, ArgoNamespace) : o \in HelmReleaseObject}

\* For as long as an Application exists, being pruned or not, its release will look
\* for it where it is, and is held by the finalizer unless it is one of the lost.
ApplicationsHeld(lost) ==
    \A k \in Keys, h \in HelmReleases :
        app[k] # NoApp /\ app[k].owner = h =>
            /\ k \in Home(h)
            /\ Finalized(hr[h]) \/ k \in lost

\* A stale HelmRelease in the cache cannot mislead: one that looks live is still
\* held by its finalizer, one that looks deleted has not come back to life.
CacheSound ==
    \A h \in HelmReleases : Finalized(hrCache[h]) =>
        IF hrCache[h].del
        THEN Finalized(hr[h]) => hr[h].del
        ELSE Finalized(hr[h])

\* The same for the HelmRelease the worker holds, and the cache behind its back.
\* When it is about to let the release go, there is no Application, or it is lost.
WorkerSound(lost) ==
    LET h == worker.key
        o == worker.obj
    IN  /\ worker.pc = "finalize" =>
              /\ ~o.fin /\ ~o.del
              /\ Finalized(hrCache[h]) => Finalized(hr[h])
        /\ worker.pc = "write" => Finalized(hr[h]) /\ worker.app \in Home(h)
        /\ worker.pc \in {"delete", "recheck", "release"} =>
              /\ o.fin /\ o.del
              /\ worker.app \in Home(h)
              /\ Finalized(hr[h]) => hr[h].del
              /\ Finalized(hrCache[h]) => hrCache[h].del
        /\ worker.pc = "release" => app[worker.app] = NoApp \/ worker.app \in lost

ReleaseSound(lost) == ApplicationsHeld(lost) /\ CacheSound /\ WorkerSound(lost)

\* The inductive invariant behind OnlyMissedOrphaned.
ReleaseInvariant == ReleaseSound(missed)

-----------------------------------------------------------------------------

BeingDeleted(k) == app[k] # NoApp /\ app[k].del

Mirror == INSTANCE ApplicationMirror WITH
    Releases <- HelmReleases,
    Homes    <- [h \in HelmReleases |-> Home(h)],
    phase    <- [h \in HelmReleases |-> Phase(h)],
    owner    <- [k \in Keys |-> OwnersAt(k)],
    going    <- {k \in Keys : BeingDeleted(k)},
    lost     <- missed

\* The reconciler, with its caches, its conflicts, its failing calls and its
\* restarts, is nothing but a way to keep that mirror: an Application appears
\* under a name of its own, for a release the finalizer holds already, it never
\* changes hands, and a release is let go only without any, or with one that has
\* been overlooked after the user deleted it.
ImplementsMirror == Mirror!Spec
=============================================================================
