----------------------------- MODULE ChartSource -----------------------------
(***************************************************************************)
(* What a release takes from elsewhere, over time: the chart behind its    *)
(* version, the values of a ConfigMap, the credentials for the registry;   *)
(* and what its Application gets: the values, and the rules ChartAnalysis  *)
(* finds. Results are remembered in the process. Of all this the operator  *)
(* watches the release and its HelmRepository only.                        *)
(***************************************************************************)
EXTENDS ChartAnalysis

CONSTANTS
    Setups,         \* where a release may start: see Init
    Renders,        \* what rendering may give after an edit: pairs <<first, second>>
    AuthSecrets, CertSecrets,   \* what the Secrets of the HelmRepository may hold
    NoSecret, NoConfig, NoApp,
    MaxUserOps, MaxFaults, MaxCrashes   \* bounds on the environment

AllRenders == Renders \cup {s.renders : s \in Setups}

ASSUME ChartsAssumption == \A pair \in AllRenders : IsChart(pair)

ASSUME SetupsAssumption == \A s \in Setups : s.exact \in BOOLEAN

VARIABLES
    release,    \* of the HelmRelease: its version, is it an exact one, and its values
    config,     \* the ConfigMap of its valuesFrom
    renders,    \* what rendering the chart with all those values gives
    repository, \* of the HelmRepository: does it name the Secrets?
    secrets,    \* the Secrets named, for authentication and for TLS
    memo,       \* version -> rules: the results remembered
    app,        \* of the Application: version, values, rules, and were they found?
    pending,    \* a reconcile is to come
    outdated,   \* have the renders changed since the version's result was remembered?
    userOps, faults, crashes

vars == <<release, config, renders, repository, secrets, memo, app, pending, outdated,
          userOps, faults, crashes>>

Init ==
    /\ \E s \in Setups :
          /\ release = [version |-> 0, exact |-> s.exact, values |-> 0]
          /\ renders = s.renders
          /\ repository = s.repository
          /\ secrets = s.secrets
    /\ config = 0
    /\ memo = <<>>
    /\ app = NoApp
    /\ pending = TRUE
    /\ outdated = FALSE
    /\ userOps = 0 /\ faults = 0 /\ crashes = 0

-----------------------------------------------------------------------------
(* Users, and whoever publishes the chart. *)

\* Faulty: the versions of a chart share one result.
cacheKey_ChartOnly == 0

\* The memo's key: chart, repository, namespace and release do not vary here, and
\* the values are not in it.
cacheKey == release.version

UserOp ==
    /\ userOps < MaxUserOps
    /\ userOps' = userOps + 1
    /\ UNCHANGED <<memo, app, faults, crashes>>

\* Other renders of what has been analysed already, maybe.
Rerendered == outdated' = (outdated \/ cacheKey \in DOMAIN memo)

Upgrade ==
    /\ UserOp
    /\ release' \in [version : {release.version + 1}, exact : BOOLEAN,
                     values : {release.values}]
    /\ renders' \in Renders
    /\ outdated' = FALSE
    /\ pending' = TRUE
    /\ UNCHANGED <<config, repository, secrets>>

EditValues ==
    /\ UserOp
    /\ release' = [release EXCEPT !.values = @ + 1]
    /\ renders' \in Renders
    /\ Rerendered
    /\ pending' = TRUE
    /\ UNCHANGED <<config, repository, secrets>>

\* The ConfigMap is edited, or deleted and created again; nobody is told.
EditConfig ==
    /\ UserOp
    /\ config' \in {NoConfig, userOps'} \ {config}
    /\ renders' \in Renders
    /\ Rerendered
    /\ UNCHANGED <<release, repository, secrets, pending>>

\* Another chart is published under the same version, or within the same range.
Publish ==
    /\ UserOp
    /\ renders' \in Renders
    /\ Rerendered
    /\ UNCHANGED <<release, config, repository, secrets, pending>>

\* The HelmRepository names other Secrets, or none.
EditRepository ==
    /\ UserOp
    /\ repository' \in [secretRef : BOOLEAN, certSecretRef : BOOLEAN] \ {repository}
    /\ pending' = TRUE
    /\ UNCHANGED <<release, config, renders, secrets, outdated>>

\* The Secrets are edited; nobody is told.
EditSecrets ==
    /\ UserOp
    /\ secrets' \in [auth : AuthSecrets, cert : CertSecrets] \ {secrets}
    /\ UNCHANGED <<release, config, renders, repository, outdated, pending>>

-----------------------------------------------------------------------------
(* Credentials. A piece of them is "", "own" or "other": the registry accepts its *)
(* own user, is certified by its own CA, and asks for its own client certificate. *)

Credentials == [user : {"", "own", "other"}, ca : {"", "own", "other"},
                cert : {"", "own", "other"}, key : {"", "own", "other"}]

NoCredentials == [user |-> "", ca |-> "", cert |-> "", key |-> ""]

Either(preferred, otherwise) == IF preferred # "" THEN preferred ELSE otherwise

\* Faulty: the Secret of secretRef wins.
resolveRegistryCredentials_SecretFirst ==
    IF \/ repository.secretRef /\ secrets.auth = NoSecret
       \/ repository.certSecretRef /\ secrets.cert = NoSecret
    THEN NoCredentials
    ELSE LET auth == IF repository.secretRef THEN secrets.auth ELSE NoCredentials
             cert == IF repository.certSecretRef THEN secrets.cert ELSE NoCredentials
         IN  [user |-> auth.user, ca |-> Either(auth.ca, cert.ca),
              cert |-> Either(auth.cert, cert.cert), key |-> Either(auth.key, cert.key)]

\* A Secret that is named and missing is logged, and the chart is pulled without
\* any; otherwise certSecretRef takes precedence, piece by piece.
resolveRegistryCredentials ==
    IF \/ repository.secretRef /\ secrets.auth = NoSecret
       \/ repository.certSecretRef /\ secrets.cert = NoSecret
    THEN NoCredentials
    ELSE LET auth == IF repository.secretRef THEN secrets.auth ELSE NoCredentials
             cert == IF repository.certSecretRef THEN secrets.cert ELSE NoCredentials
         IN  [user |-> auth.user, ca |-> Either(cert.ca, auth.ca),
              cert |-> Either(cert.cert, auth.cert), key |-> Either(cert.key, auth.key)]

\* buildTLSClient: certificate and key have to fit; alone, either is passed over.
ClientCertificate(c) ==
    CASE "" \in {c.cert, c.key} -> ""
      [] c.cert = c.key         -> c.cert
      [] OTHER                  -> "unfit"

\* The registry lets the client have the chart.
Pulls(c) == c.user = "own" /\ c.ca = "own" /\ ClientCertificate(c) = "own"

-----------------------------------------------------------------------------
(* The reconcile. *)

\* Every analysis there may be, made once.
Analyses ==
    [pair \in AllRenders |-> [exact \in BOOLEAN |-> detect(pair, exact)]]

\* Faulty: values are composed when the Application is created.
Composed_Once == IF app = NoApp THEN <<release.values, config>> ELSE app.values

\* The values of the release over those of the ConfigMap.
Composed == <<release.values, config>>

\* The Application is written with the rules that were found, if any; without the
\* ConfigMap it is not written at all, and the reconcile is to come again.
Write(found) ==
    /\ pending /\ config # NoConfig
    /\ pending' = FALSE
    /\ app' = [version |-> release.version, values |-> Composed, analysed |-> found,
               rules |-> IF found THEN memo'[cacheKey] ELSE <<>>]
    /\ UNCHANGED <<release, config, renders, repository, secrets, outdated, userOps, crashes>>

\* The result is taken from the memo when the chart's version has one, whatever
\* the values; otherwise the chart is pulled and rendered, and the result kept.
Sync ==
    /\ \/ /\ cacheKey \in DOMAIN memo
          /\ memo' = memo
          /\ Write(TRUE)
       \/ /\ cacheKey \notin DOMAIN memo /\ Pulls(resolveRegistryCredentials)
          /\ memo' = [v \in DOMAIN memo \cup {cacheKey} |->
                         IF v = cacheKey THEN Analyses[renders][release.exact] ELSE memo[v]]
          /\ Write(TRUE)
       \/ /\ cacheKey \notin DOMAIN memo /\ ~Pulls(resolveRegistryCredentials)
          /\ memo' = memo
          /\ Write(FALSE)
    /\ UNCHANGED faults

\* Pulling or rendering fails for another reason.
AnalysisFails ==
    /\ cacheKey \notin DOMAIN memo
    /\ faults < MaxFaults
    /\ faults' = faults + 1
    /\ memo' = memo
    /\ Write(FALSE)

\* Status events and the periodic resync.
Resync ==
    /\ ~pending
    /\ pending' = TRUE
    /\ UNCHANGED <<release, config, renders, repository, secrets, memo, app, outdated,
                   userOps, faults, crashes>>

\* The process restarts without its memo.
Crash ==
    /\ crashes < MaxCrashes
    /\ crashes' = crashes + 1
    /\ memo' = <<>>
    /\ pending' = TRUE
    /\ outdated' = FALSE
    /\ UNCHANGED <<release, config, renders, repository, secrets, app, userOps, faults>>

Next == \/ Upgrade \/ EditValues \/ EditConfig \/ Publish \/ EditRepository \/ EditSecrets
        \/ Sync \/ AnalysisFails \/ Resync \/ Crash

Spec == Init /\ [][Next]_vars

\* The worker goes on, and the informers list all releases again and again.
ResyncSpec == Spec /\ WF_vars(Sync) /\ WF_vars(Resync)

-----------------------------------------------------------------------------

\* The fields that are known to differ from render to render, by kind, as
\* Design.md:173-183 has them; but the payload of a Secret or ConfigMap counts as one
\* field, as in ignoregen.go:673-686, where Design.md:172 has the Secret keys that end
\* in .crt or .key only.
WellKnown(kind) ==
    CASE kind \in Payloads     -> {Data, StringData}
      [] kind \in Webhooks     -> {WebhookBundle}
      [] kind = "APIService"   -> {ServiceBundle}
      [] kind \in Workloads    -> {TemplateAnnotations \o <<k>> : k \in AnnotationKeys}
      [] kind = CRD            -> {Spec_} \cup {Annotations \o <<k>> : k \in AnnotationKeys}
      [] OTHER                 -> {}

\* What an object has at a path: one value, or one for each webhook.
ValuesAt(o, path) ==
    CASE path = Data       -> {<<1, o.data>>}
      [] path = StringData -> {<<1, o.stringData>>}
      [] path = Spec_      -> {<<1, o.spec>>}
      [] path \in {WebhookBundle, ServiceBundle} ->
            {<<i, o.caBundles[i]>> : i \in {i \in DOMAIN o.caBundles : o.caBundles[i] # ""}}
      [] OTHER -> {<<1, o.annotations[k]>> : k \in {Last(path)} \cap DOMAIN o.annotations}

\* Both renders have it and they disagree.
Disagree(o, p, path) ==
    \E x \in ValuesAt(o, path), y \in ValuesAt(p, path) : x[1] = y[1] /\ x[2] # y[2]

\* What Argo CD would otherwise report, or revert, at every sync: what the two
\* renders disagree on, what is null, what a lookup would have found. (Webhooks
\* are compared one by one, if there are as many in both renders.)
Unstable(k) ==
    LET o == renders[1][k]
    IN  o.nulls
        \cup (IF o.lookup THEN Seeded(o) ELSE {})
        \cup (IF k \in DOMAIN renders[2] /\ Len(o.caBundles) = Len(renders[2][k].caBundles)
              THEN {path \in WellKnown(o.kind) : Disagree(o, renders[2][k], path)}
              ELSE {})

Complete ==
    \A k \in DOMAIN renders[1] : \A p \in Unstable(k) :
        \E i \in DOMAIN app.rules :
            app.rules[i].res = k /\ \E q \in app.rules[i].paths : IsPrefix(q, p)

Justified ==
    \A i \in DOMAIN app.rules :
        LET k     == app.rules[i].res
            paths == app.rules[i].paths
        IN  /\ k \in DOMAIN renders[1]
            /\ \/ "other" \in {renders[1][k].chart, renders[1][k].instance}
               \/ paths \ {Data} \subseteq Unstable(k)
            /\ Data \in paths => {Data, StringData} \cap Unstable(k) # {}

\* The last analysis succeeded and nothing has been noticed since.
Settled == app # NoApp /\ app.analysed /\ ~pending

\* "Render the chart twice with the Helm SDK and diff the rendered manifests to
\* populate application.spec.ignoreDifferences for fields that change between
\* renders" (README.md:83-85): of the fields that are known to, every one that does is
\* covered, however many passes had something to say about its resource, whatever
\* versions the memo remembers, and for ranges of versions too. (Unless values or chart
\* were changed after their version was analysed: the result is not renewed then.)
RulesComplete == Settled /\ ~outdated => Complete

\* A field that is the chart's own and the same in every render stays with Argo CD,
\* unless it shares a payload with one that is not: Secrets and ConfigMaps are ignored
\* with all their data as soon as one key of it differs, which Design.md:172 does not
\* say. (A Secret's stringData ends up in its data; and a range of versions makes
\* strangers of the chart's own resources.)
RulesJustified == Settled /\ ~outdated /\ release.exact => Justified

\* "dedupeRules merges same-resource rules into one" (ignoregen.go:386): what the
\* analysis contributes never has two rules for one resource.
OneRulePerResource ==
    app # NoApp =>
        \A i, j \in DOMAIN app.rules : app.rules[i].res = app.rules[j].res => i = j

\* "ValuesFrom" is resolved at every reconcile (helmrelease_controller.go:566-571):
\* the Application ends up with the release's version and values and those of the
\* ConfigMap, though nothing tells the operator of a change to that.
SourceFollows ==
    <>[](config # NoConfig =>
            /\ app # NoApp
            /\ app.version = release.version
            /\ app.values = <<release.values, config>>)

\* One Secret has all that TLS takes, or at least nothing that is of use.
Whole(s) == s.ca = "own" /\ s.cert = "own" /\ s.key = "own"
Bare(s) == s.ca = "" /\ s.cert = "" /\ s.key = ""

\* The credentials are there, and "CertSecretRef takes precedence over SecretRef
\* for TLS material" (helmrelease_controller.go:889).
Reachable ==
    /\ repository.secretRef /\ secrets.auth # NoSecret /\ secrets.auth.user = "own"
    /\ repository.certSecretRef => secrets.cert # NoSecret
    /\ \/ repository.certSecretRef /\ Whole(secrets.cert)
       \/ (repository.certSecretRef => Bare(secrets.cert)) /\ Whole(secrets.auth)

\* An analysis that failed, which is logged and not retried, is made up for: rules
\* come back when the registry can be reached, for all the edits of Secrets that
\* nobody is told of.
RulesReturn ==
    <>[](config # NoConfig /\ Reachable => app # NoApp /\ app.analysed)
=============================================================================
