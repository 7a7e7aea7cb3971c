---------------------------- MODULE AddonManager ----------------------------
(***************************************************************************)
(* pkg/manager with pkg/mode and the embedded chart: how the operator gets *)
(* onto a cluster. On the clusters the hub manages, the add-on manager     *)
(* turns its own flags and what it knows of the cluster into values, and   *)
(* the chart turns those into a Deployment. On the others an administrator *)
(* runs the chart with values of his own.                                  *)
(*                                                                         *)
(* Of a rendered Deployment there is what decides whether its pods start,  *)
(* where they write, and whether two renders are the same: the mode, the   *)
(* kubeconfig, the cluster name, the number of replicas, the user it runs  *)
(* as, and the serving certificate, whose hash annotates the pods.         *)
(***************************************************************************)
EXTENDS Naturals, FiniteSets

CONSTANTS
    Clusters,
    Sites,          \* the kinds of cluster there are: [hosted, openshift, probed]
    HubOptions,     \* the flags the hub may be given: [mode, file, secret]
    ChartValues,    \* what an administrator may choose: [mode, remote, named, replicas],
                    \* any mode at all, for the chart passes on what it is given
    NoManifest,
    MaxChanges      \* bound on restarts of the hub and runs of the chart

Modes == {"in-cluster", "autonomous", "managed"}

\* mode.Parse: what the given mode stands for, or "invalid".
Parse(mode) ==
    CASE mode \in Modes -> mode
      [] mode = ""      -> "in-cluster"
      [] OTHER          -> "invalid"

\* On a hosted cluster an administrator runs the chart himself; OpenShift refuses
\* pods with a user of their own choice; the liveness probe is a value of the chart.
Site == [hosted : BOOLEAN, openshift : BOOLEAN, probed : BOOLEAN]

ManagerOptions ==
    [mode : Modes \cup {"", "unknown"},
     file : {"none", "empty", "readable", "unreadable"},   \* --argo-kubeconfig-file
     secret : BOOLEAN]                            \* --argo-kubeconfig-secret

Manifest ==
    [mode : Modes \cup {"", "unknown"}, remote : BOOLEAN, named : BOOLEAN,
     replicas : {1, 2}, user : {"fixed", "range"}, cert : 0..MaxChanges]

ASSUME OptionsAssumption ==
    /\ Sites \subseteq Site
    /\ HubOptions \subseteq ManagerOptions
    /\ ChartValues \subseteq [mode : Modes \cup {"", "unknown"}, remote : BOOLEAN,
                              named : BOOLEAN, replicas : {1, 2}]
    /\ MaxChanges \in Nat
    /\ NoManifest \notin Manifest

VARIABLES
    opts,       \* the flags the hub runs with
    hub,        \* is the add-on manager serving?
    cert,       \* the certificate it has generated
    site,       \* what kind of cluster each is: it never changes
    claims,     \* what each ManagedCluster says of its platform
    manifest,   \* the Deployment on each cluster
    changes     \* restarts and runs so far; it tells the certificates apart

hubVars == <<opts, hub, cert, site, claims, manifest, changes>>

HubTypeOK ==
    /\ opts \in HubOptions
    /\ hub \in {"down", "serving"}
    /\ cert \in 0..MaxChanges
    /\ site \in [Clusters -> Sites]
    /\ claims \in [Clusters -> {"none", "info", "malformed"}]
    /\ manifest \in [Clusters -> Manifest \cup {NoManifest}]
    /\ changes \in 0..MaxChanges

HubInit ==
    /\ opts \in HubOptions
    /\ hub = "down"
    /\ cert = 0
    /\ site \in [Clusters -> Sites]
    /\ claims \in [Clusters -> {"none", "malformed"}]
    /\ \A c \in Clusters : site[c].hosted => claims[c] = "none"
    /\ manifest = [c \in Clusters |-> NoManifest]
    /\ changes = 0

-----------------------------------------------------------------------------
(* The chart. *)

\* Faulty: nothing stops a managed operator without kubeconfig or name.
Fails_Never(v) == FALSE

\* A chart in managed mode insists on a kubeconfig and a name.
Fails(v) == v.mode = "managed" /\ ~(v.remote /\ v.named)

-----------------------------------------------------------------------------
(* The hub. *)

\* It is started again, with other flags or because it has died.
RestartHub(o) ==
    /\ changes < MaxChanges
    /\ changes' = changes + 1
    /\ opts' = o
    /\ hub' = "down"
    /\ UNCHANGED <<cert, site, claims, manifest>>

\* Validate and GetConfigValues: the process ends when the mode is unknown or the
\* kubeconfig cannot be read.
Valid(o) == Parse(o.mode) # "invalid" /\ o.file # "unreadable"

\* Another one for every process.
generateServingCert == changes

\* Otherwise it makes its certificate and serves.
StartHub ==
    /\ hub = "down"
    /\ Valid(opts)
    /\ hub' = "serving"
    /\ cert' = generateServingCert
    /\ UNCHANGED <<opts, site, claims, manifest, changes>>

\* A kubeconfig reaches the pods as the content of a file or by a Secret's name.
Kubeconfig(o) == o.file = "readable" \/ o.secret

\* The user the pods run as: the one of the chart until the cluster is known to be
\* one of OpenShift.
User(c) == IF claims[c] = "info" /\ site[c].openshift THEN "range" ELSE "fixed"

\* Faulty: every render has a certificate of its own.
Values_FreshCert(c) ==
    [mode |-> opts.mode, remote |-> Kubeconfig(opts), named |-> TRUE, replicas |-> 1,
     user |-> User(c),
     cert |-> IF manifest[c] # NoManifest /\ manifest[c].cert = 0 THEN 1 ELSE 0]

\* The values for one cluster; the number of replicas is left to the chart.
Values(c) ==
    [mode |-> opts.mode, remote |-> Kubeconfig(opts), named |-> TRUE, replicas |-> 1,
     user |-> User(c), cert |-> cert]

\* A cluster is rendered, and its Deployment updated: again and again, whether
\* anything has changed or not.
Render(c) ==
    /\ hub = "serving"
    /\ ~site[c].hosted
    /\ claims[c] # "malformed"
    /\ ~Fails(Values(c))
    /\ manifest' = [manifest EXCEPT ![c] = Values(c)]
    /\ UNCHANGED <<opts, hub, cert, site, claims, changes>>

\* The klusterlet reports the cluster's claims.
Claim(c) ==
    /\ ~site[c].hosted /\ claims[c] # "info"
    /\ claims' = [claims EXCEPT ![c] = "info"]
    /\ UNCHANGED <<opts, hub, cert, site, manifest, changes>>

-----------------------------------------------------------------------------

\* helm upgrade --install, with a certificate of its own in every run.
RunChart(c, v) ==
    /\ site[c].hosted
    /\ changes < MaxChanges
    /\ changes' = changes + 1
    /\ ~Fails(v)
    /\ manifest' = [manifest EXCEPT ![c] =
                       [mode |-> v.mode, remote |-> v.remote, named |-> v.named,
                        replicas |-> v.replicas,
                        user |-> IF site[c].openshift THEN "range" ELSE "fixed",
                        cert |-> changes']]
    /\ UNCHANGED <<opts, hub, cert, site, claims>>

HubNext ==
    \/ \E o \in HubOptions : RestartHub(o)
    \/ StartHub
    \/ \E c \in Clusters : Render(c) \/ Claim(c) \/ \E v \in ChartValues : RunChart(c, v)
=============================================================================
