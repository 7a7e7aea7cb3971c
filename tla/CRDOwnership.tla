---------------------------- MODULE CRDOwnership ----------------------------
(***************************************************************************)
(* Which HelmRelease's Application writes a CustomResourceDefinition that  *)
(* several charts ship (helmCRDRegistry and its use in syncApplication), and *)
(* the CRDs too large for Argo CD to apply.                                *)
(*                                                                         *)
(* An Application writes every CRD of its chart except those its           *)
(* ignoreDifferences name. The registry of shipped CRDs and the memo of    *)
(* chart analyses live in the process; the ignoreDifferences live in the   *)
(* Application. One reconcile is one step: there is one worker, and no one *)
(* else touches the registry (HelmReleaseReconciler takes the reconcile    *)
(* apart).                                                                 *)
(***************************************************************************)
EXTENDS Naturals, FiniteSets

CONSTANTS
    Releases,       \* HelmReleases, as the ranks of their keys in lexicographic order
    CRDs,
    Versions,       \* chart versions, each of some chart and repository
    Contents,       \* what a version ships: in crds/, and among its templates as the
                    \* values have it
    NoContent, NoApp,
    UserOps,        \* the kinds of user operation of this instance
    Faults,         \* the steps of a reconcile that may fail
    MaxUserOps, MaxFaults, MaxCrashes   \* bounds on the environment

\* A document with a CRD; is it longer than oversizedCRDBytes?
Document == [name : CRDs, large : BOOLEAN]

ContentType == [version : Versions, files : SUBSET Document, templates : SUBSET Document]

\* What a chart ships, wherever it has it.
Shipped(c) == c.files \cup c.templates

Names(docs) == {d.name : d \in docs}
Large(docs) == Names({d \in docs : d.large})

\* A chart has no CRD in two sizes; values do not reach crds/.
ASSUME ConstantsAssumption ==
    /\ Releases \subseteq Nat
    /\ Contents \subseteq ContentType
    /\ \A c \in Contents : \A d, e \in Shipped(c) : d.name = e.name => d = e
    /\ \A c, d \in Contents : c.version = d.version => c.files = d.files
    /\ MaxUserOps \in Nat /\ MaxFaults \in Nat /\ MaxCrashes \in Nat

\* An Application: the chart it renders and the CRDs its rules keep it off.
Application == [content : Contents, ignored : SUBSET CRDs]

ASSUME AbsentAssumption ==
    /\ NoContent \notin Contents
    /\ NoApp \notin Application

VARIABLES
    chart,      \* what each HelmRelease's chart ships; NoContent: no such HelmRelease
    suspended,  \* the releases with spec.suspend
    app,        \* each release's Application
    installed,  \* the CRDs that exist on the cluster
    byRelease,  \* the registry: the CRDs each release is known to ship; an entry
                \* that is missing and an empty one own nothing alike
    memo,       \* analyses remembered: pairs <<release, content that was analysed>>
    pending,    \* releases with a reconcile to come
    userOps, faults, crashes

process == <<byRelease, memo, pending>>
bounds  == <<userOps, faults, crashes>>
vars    == <<chart, suspended, app, installed, process, bounds>>

TypeOK ==
    /\ chart \in [Releases -> Contents \cup {NoContent}]
    /\ suspended \subseteq Releases
    /\ app \in [Releases -> Application \cup {NoApp}]
    /\ installed \subseteq CRDs
    /\ byRelease \in [Releases -> SUBSET CRDs]
    /\ memo \subseteq Releases \X Contents
    /\ pending \subseteq Releases
    /\ userOps \in 0..MaxUserOps /\ faults \in 0..MaxFaults /\ crashes \in 0..MaxCrashes

Init ==
    /\ chart = [r \in Releases |-> NoContent]
    /\ suspended = {}
    /\ app = [r \in Releases |-> NoApp]
    /\ installed \in {{}} \cup {{d} : d \in CRDs}
    /\ byRelease = [r \in Releases |-> {}]
    /\ memo = {}
    /\ pending = {}
    /\ userOps = 0 /\ faults = 0 /\ crashes = 0

-----------------------------------------------------------------------------
(* Users. *)

UserOp(kind, r) ==
    /\ kind \in UserOps
    /\ userOps < MaxUserOps
    /\ userOps' = userOps + 1
    /\ pending' = pending \cup {r}
    /\ UNCHANGED <<app, installed, byRelease, memo, faults, crashes>>

\* A HelmRelease is created, or its chart or its values change.
Install(r, c) ==
    /\ UserOp("install", r)
    /\ chart[r] # c
    /\ chart' = [chart EXCEPT ![r] = c]
    /\ UNCHANGED suspended

Uninstall(r) ==
    /\ UserOp("uninstall", r)
    /\ chart[r] # NoContent
    /\ chart' = [chart EXCEPT ![r] = NoContent]
    /\ suspended' = suspended \ {r}

Suspend(r) ==
    /\ UserOp("suspend", r)
    /\ chart[r] # NoContent /\ r \notin suspended
    /\ suspended' = suspended \cup {r}
    /\ UNCHANGED chart

-----------------------------------------------------------------------------
(* The operator. *)

\* Faulty: a release that ships the CRD itself is not smaller than itself.
Owns_Strictly(r, crd, registry) ==
    /\ crd \in registry[r]
    /\ \A q \in Releases : crd \in registry[q] => r < q

\* owner(crd): the smallest key among the releases known to ship it.
Owns(r, crd, registry) ==
    /\ crd \in registry[r]
    /\ \A q \in Releases : crd \in registry[q] => r <= q

\* Faulty: the elected owner keeps managing its CRDs, oversized or not.
Backoff_OwnerAlways(r, found, registry) ==
    {crd \in found.crds : ~Owns(r, crd, registry)}

\* The CRDs of r's chart that its Application is told to leave alone.
Backoff(r, found, registry) ==
    {crd \in found.crds : Owns(r, crd, registry) => crd \in found.oversized}

Nothing == [crds |-> {}, oversized |-> {}]

\* Faulty: CRDs that are authored as templates are not looked for.
renderChart_FilesOnly(c) == c.files

\* The CRD documents collected: those of crds/, and of the templates what is new.
renderChart(c) == c.files \cup {d \in c.templates : d.name \notin Names(c.files)}

helmCRDNames(docs) == [crds |-> Names(docs), oversized |-> Large(docs)]

\* The analysis of r's chart that the memo has: its key is the release and the chart
\* version, whatever the values.
Remembered(r) == {c \in Contents : <<r, c>> \in memo /\ c.version = chart[r].version}

\* Faulty: an analysis is remembered for the release, whatever its chart.
Analyses_AnyVersion(r) ==
    LET known == {c \in Contents : <<r, c>> \in memo}
    IN  IF known # {} THEN known ELSE {chart[r]}

\* The content whose analysis r's reconcile goes by; NoContent: the analysis fails.
Analyses(r) ==
    IF Remembered(r) # {} THEN Remembered(r)
    ELSE {chart[r]} \cup (IF "analysis" \in Faults THEN {NoContent} ELSE {})

\* Faulty: the memo remembers rules, but not the CRDs.
Found_NewOnly(r, c) ==
    IF c = NoContent \/ c \in Remembered(r) THEN Nothing ELSE helmCRDNames(renderChart(c))

\* What the analysis reports.
Found(r, c) == IF c = NoContent THEN Nothing ELSE helmCRDNames(renderChart(c))

\* Faulty: creating them is left to Argo CD.
Creations_Never(found) == {{}}

\* The oversized CRDs that get created; where that fails the error is logged only.
Creations(found) ==
    IF "create" \in Faults THEN SUBSET found.oversized ELSE {found.oversized}

\* syncApplication: record what the chart ships, create the oversized CRDs that
\* are missing, put the rules into the Application. If that last write fails, the
\* registry keeps the entry and the request comes back.
SyncRelease(r) ==
    /\ r \in pending
    /\ chart[r] # NoContent /\ r \notin suspended
    /\ \E c \in Analyses(r) : \E created \in Creations(Found(r, c)) :
          /\ memo' = IF c = NoContent THEN memo ELSE memo \cup {<<r, c>>}
          /\ byRelease' = [byRelease EXCEPT ![r] = Found(r, c).crds]
          /\ installed' = installed \cup created
          /\ \/ /\ app' = [app EXCEPT ![r] =
                              [content |-> chart[r],
                               ignored |-> Backoff(r, Found(r, c), byRelease')]]
                /\ pending' = pending \ {r}
             \/ UNCHANGED <<app, pending>>
          /\ IF c # NoContent /\ Found(r, c).oversized \subseteq installed'
             THEN UNCHANGED faults
             ELSE faults < MaxFaults /\ faults' = faults + 1
    /\ UNCHANGED <<chart, suspended, userOps, crashes>>

\* Suspended releases are left as they are, in the registry as well.
SkipRelease(r) ==
    /\ r \in pending
    /\ r \in suspended
    /\ pending' = pending \ {r}
    /\ UNCHANGED <<chart, suspended, app, installed, byRelease, memo, bounds>>

\* Faulty: the registry keeps the entry of a release that is gone.
ForgetRelease_KeepsOwnership(r) ==
    /\ r \in pending
    /\ chart[r] = NoContent
    /\ app' = [app EXCEPT ![r] = NoApp]
    /\ pending' = pending \ {r}
    /\ UNCHANGED <<chart, suspended, installed, byRelease, memo, bounds>>

\* Faulty: the Application of a release that is gone is rendered once more.
ForgetRelease_Rerenders(r) ==
    /\ r \in pending
    /\ chart[r] = NoContent
    /\ app' = [app EXCEPT ![r] = IF @ = NoApp THEN @ ELSE [@ EXCEPT !.content = chart[r]]]
    /\ byRelease' = [byRelease EXCEPT ![r] = {}]
    /\ pending' = pending \ {r}
    /\ UNCHANGED <<chart, suspended, installed, memo, bounds>>

\* reconcileDelete, once the Application is gone.
ForgetRelease(r) ==
    /\ r \in pending
    /\ chart[r] = NoContent
    /\ app' = [app EXCEPT ![r] = NoApp]
    /\ byRelease' = [byRelease EXCEPT ![r] = {}]
    /\ pending' = pending \ {r}
    /\ UNCHANGED <<chart, suspended, installed, memo, bounds>>

Reconcile(r) == SyncRelease(r) \/ SkipRelease(r) \/ ForgetRelease(r)

\* The Application applies the CRDs it is not told to leave alone; it cannot
\* create the oversized ones.
ArgoApplies(r) ==
    /\ app[r] # NoApp
    /\ installed' = installed \cup
          {d.name : d \in {e \in Shipped(app[r].content) :
                               ~e.large /\ e.name \notin app[r].ignored}}
    /\ UNCHANGED <<chart, suspended, app, process, bounds>>

\* Anything else that leads to a reconcile: the Application's status, the
\* periodic resync.
Wake(r) ==
    /\ chart[r] # NoContent
    /\ pending' = pending \cup {r}
    /\ UNCHANGED <<chart, suspended, app, installed, byRelease, memo, bounds>>

\* A restart empties the registry and the memo and reconciles every release.
Crash ==
    /\ crashes < MaxCrashes
    /\ crashes' = crashes + 1
    /\ byRelease' = [r \in Releases |-> {}]
    /\ memo' = {}
    /\ pending' = {r \in Releases : chart[r] # NoContent \/ app[r] # NoApp}
    /\ UNCHANGED <<chart, suspended, app, installed, userOps, faults>>

Next ==
    \/ \E r \in Releases :
          \/ \E c \in Contents : Install(r, c)
          \/ Uninstall(r) \/ Suspend(r)
          \/ Reconcile(r) \/ ArgoApplies(r) \/ Wake(r)
    \/ Crash

Spec == Init /\ [][Next]_vars

\* Every request in the queue is reconciled.
FairSpec == Spec /\ \A r \in Releases : WF_vars(Reconcile(r))

\* In addition every release is reconciled over and over: the informers resync
\* every ten hours.
ResyncSpec == FairSpec /\ \A r \in Releases : WF_vars(Wake(r))

-----------------------------------------------------------------------------

\* The CRDs that an analysis of other values misjudges: they are no longer shipped,
\* not yet shipped, or of another size.
Misjudged(r) ==
    {crd \in CRDs : \E c \in Remembered(r) :
        {d \in Shipped(c) : d.name = crd} # {d \in Shipped(chart[r]) : d.name = crd}}

\* The releases whose Application writes crd.
Writers(crd) == {r \in Releases : /\ app[r] # NoApp
                                  /\ crd \in Names(Shipped(app[r].content))
                                  /\ crd \notin app[r].ignored}

\* Some Application's chart ships crd, and to no release is it oversized.
Deployed(crd) ==
    /\ \E r \in Releases : app[r] # NoApp /\ crd \in Names(Shipped(app[r].content))
    /\ \A r \in Releases : chart[r] # NoContent => crd \notin Large(Shipped(chart[r]))

\* No release is suspended either: one that is stays out of the election after a
\* restart, while its Application goes on writing the CRD. Nor did an edit of the
\* values turn crd on or off under a version that is analysed already: until the
\* next restart the registry has what the old values shipped.
Contested(crd) ==
    /\ suspended = {}
    /\ \A r \in Releases : chart[r] # NoContent => crd \notin Misjudged(r)
    /\ Deployed(crd)

\* "every reconcile agrees on one writer" (helmrelease_controller.go:331-332):
\* in the end a CRD shipped by several releases has one writer exactly, neither
\* two that fight nor none to keep it up to date.
OneWriterInTheEnd ==
    \A crd \in CRDs : <>[](Contested(crd) => Cardinality(Writers(crd)) = 1)

\* What no reconcile is to come for has been taken in: the Application renders the
\* release's chart, the registry has all that its version shipped when it was
\* analysed, if it could be, and nothing is kept of a release that is gone. A
\* version has one analysis for as long as the process lives.
RegistryCurrent ==
    \A r \in Releases \ pending :
        IF chart[r] = NoContent
        THEN app[r] = NoApp /\ byRelease[r] = {}
        ELSE r \notin suspended =>
                /\ app[r] # NoApp /\ app[r].content = chart[r]
                /\ \A c \in Remembered(r) : byRelease[r] = Names(Shipped(c))

OneAnalysis ==
    \A r \in Releases : \A c, d \in Contents :
        <<r, c>> \in memo /\ <<r, d>> \in memo /\ c.version = d.version => c = d

\* Only HelmReleases that exist are suspended: to skip one cannot skip a deletion.
SuspendedExist == \A r \in suspended : chart[r] # NoContent

\* The inductive form of RegistryCurrent.
RegistryInvariant == TypeOK /\ OneAnalysis /\ SuspendedExist /\ RegistryCurrent

\* The registry knows every chart as it is, and every Application has the rules that follow
\* from the registry as it is. Only a reconcile of each release after the last change
\* to the registry makes this true: nothing wakes those that have lost an election.
Agreed ==
    \A r \in Releases :
        IF chart[r] = NoContent
        THEN app[r] = NoApp /\ byRelease[r] = {}
        ELSE LET found == helmCRDNames(renderChart(chart[r]))
             IN  /\ <<r, chart[r]>> \in memo
                 /\ byRelease[r] = found.crds
                 /\ app[r] = [content |-> chart[r], ignored |-> Backoff(r, found, byRelease)]

\* Then there is one writer, suspended or not,
AgreementElects ==
    Agreed => \A crd \in CRDs : Deployed(crd) => Cardinality(Writers(crd)) = 1

\* and no reconcile has anything to change, whatever order they come in.
AgreementLasts == [][Agreed /\ UNCHANGED <<userOps, crashes>> => Agreed']_vars

\* The version its Application renders has been analysed, no reconcile is to come,
\* and the last one was not skipped.
Settled(r) == /\ chart[r] # NoContent /\ Remembered(r) # {}
              /\ app[r] # NoApp
              /\ r \notin pending \cup suspended

\* Of oversized CRDs Design.md:217-220 says that the rules "keep every sync away
\* from the CRD" and that "existing CRDs are never patched, by fargocd or by Argo
\* CD": no Application writes one that exists, not even its elected owner's. That
\* is so while the analysis succeeds, and of what it has seen: a CRD that an edit of
\* the values turns on under an analysed version gets no rule.
OversizedLeftAlone ==
    \A r \in Releases : Settled(r) =>
        (Large(Shipped(app[r].content)) \cap installed) \ Misjudged(r) \subseteq app[r].ignored

\* An oversized CRD, which only fargocd can create, is created in the end for
\* every release that needs it, although a failure to create it is only logged;
\* if the analysis has seen it, that is.
OversizedCreated ==
    \A r \in Releases, crd \in CRDs :
        <>[](/\ chart[r] # NoContent /\ r \notin suspended
             /\ crd \in Large(Shipped(chart[r])) \ Misjudged(r))
        => <>(crd \in installed)
=============================================================================
