--------------------------- MODULE ClusterNaming ---------------------------
(***************************************************************************)
(* Managed mode: one fargocd instance per workload cluster, all of them    *)
(* writing Applications into the same namespace of one principal Argo CD.  *)
(* An instance knows nothing of the others; only applicationName keeps     *)
(* their Applications apart. Each instance's reconcile is one step here    *)
(* (HelmReleaseReconciler takes it apart).                                 *)
(***************************************************************************)
EXTENDS Integers, Naming

CONSTANTS
    Clusters,   \* the --cluster-name values, as token sequences
    Releases,   \* HelmReleases that may exist: [cluster, namespace, name, chart]
    NoApp       \* no Application under that name

ReleaseType(r) == /\ r.cluster \in Clusters
                  /\ DOMAIN r = {"cluster", "namespace", "name", "chart"}

ASSUME ReleasesAssumption == \A r \in Releases : ReleaseType(r)

\* What tells whose Application it is: the back-link annotation, which is
\* "<namespace>/<name>" and the same on every cluster, and the agent's label,
\* by which the principal routes the Application to its cluster.
Application(r) == [helmrelease |-> <<r.namespace, r.name>>, agent |-> r.cluster]

Applications == {Application(r) : r \in Releases}

ASSUME NoAppAssumption == NoApp \notin Applications

VARIABLES
    present,    \* the HelmReleases that exist, each on its own cluster
    principal   \* Application name -> annotation and label found there, or NoApp

vars == <<present, principal>>

AppOf(r) == applicationName(r.name, r.chart, r.cluster)

AppNames == {AppOf(r) : r \in Releases}

TypeOK == /\ present \subseteq Releases
          /\ principal \in [AppNames -> Applications \cup {NoApp}]

Init == /\ present = {}
        /\ principal = [k \in AppNames |-> NoApp]

\* A user installs a HelmRelease. One object per namespace and name on a cluster.
InstallRelease(r) ==
    /\ \A q \in present : Application(q) # Application(r)
    /\ present' = present \cup {r}
    /\ UNCHANGED principal

\* CreateOrPatch under the projected name: whatever Application is found there
\* is patched, annotation and label included, without a look at whose it is.
SyncRelease(r) ==
    /\ r \in present
    /\ principal' = [principal EXCEPT ![AppOf(r)] = Application(r)]
    /\ UNCHANGED present

\* Faulty: the HelmRelease is let go with its Application still there.
DeleteRelease_Abandons(r) ==
    /\ r \in present
    /\ present' = present \ {r}
    /\ UNCHANGED principal

\* The deletion path: delete the Application under the projected name, whatever
\* its annotation says, and let the HelmRelease go.
DeleteRelease(r) ==
    /\ r \in present
    /\ present' = present \ {r}
    /\ principal' = [principal EXCEPT ![AppOf(r)] = NoApp]

Next == \E r \in Releases : InstallRelease(r) \/ SyncRelease(r) \/ DeleteRelease(r)

Spec == Init /\ [][Next]_vars

-----------------------------------------------------------------------------

\* naming.go:34-37 says that the cluster suffix is there "so that releases
\* from different clusters do not collide". If they never do, an Application
\* stays the mirror of its HelmRelease for as long as that HelmRelease exists:
\* no other release takes it over, and no other release's removal deletes it.
KeptForItsOwner ==
    [][\A r \in present \cap present' :
          principal[AppOf(r)] = Application(r) => principal'[AppOf(r)] = Application(r)]_vars

-----------------------------------------------------------------------------
(* When the projection keeps clusters apart. *)

\* The name c ends in the name d, as every name does in the empty one.
EndsIn(c, d) == /\ Len(d) <= Len(c)
                /\ \A i \in 1 .. Len(d) : c[Len(c) - Len(d) + i] = d[i]

\* Names are token sequences and no cluster's name ends in another's. A fleet
\* with "east" and "us-east" has not got this, one with "east" and "us-west" has.
SuffixFree ==
    /\ \A r \in Releases : r.cluster \in Seq(STRING) /\ r.name \in Seq(STRING)
    /\ \A r, q \in Releases : EndsIn(r.cluster, q.cluster) => r.cluster = q.cluster

\* The projection leaves the namespace out: on one cluster a name is used once.
NamespacesApart ==
    \A r, q \in Releases :
        r.cluster = q.cluster /\ r.name = q.name => r.namespace = q.namespace

\* The ACE release keeps its name, and that is nobody else's projection.
ACEApart ==
    \A r, q \in Releases :
        isACE(r.name, r.chart) /\ AppOf(r) = AppOf(q) => Application(r) = Application(q)

\* What makes KeptForItsOwner inductive, and what the way back relies on: every
\* Application is routed to a cluster (the label) on which the HelmRelease that
\* its annotation names exists and projects to this very Application. The
\* annotation alone would not do: it wakes releases of that name on all clusters.
OwnersInvariant ==
    /\ TypeOK
    /\ \A r, q \in present : Application(r) = Application(q) => r = q
    /\ \A k \in AppNames : principal[k] # NoApp =>
          \E r \in present : AppOf(r) = k /\ Application(r) = principal[k]
=============================================================================
