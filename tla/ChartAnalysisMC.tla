--------------------------- MODULE ChartAnalysisMC ---------------------------
(* Instances of ChartAnalysis and ChartSource for TLC. *)
EXTENDS ChartSource, TLC

Plain(kind) ==
    [kind |-> kind, data |-> "nil", stringData |-> "nil", caBundles |-> <<>>,
     annotations |-> <<>>, spec |-> "s", nulls |-> {}, chart |-> "own",
     instance |-> "own", lookup |-> FALSE]

Keys == {"reload", "checksum"}

\* The renders of one resource: a Secret with a generated or seeded payload, ...
Secrets(lookup, chart) ==
    {<<[o EXCEPT !.data = x], [o EXCEPT !.data = y, !.stringData = z]>> :
        o \in {[Plain("Secret") EXCEPT !.lookup = lookup, !.chart = chart]},
        x \in {"nil", "a"}, y \in {"nil", "a", "b"}, z \in {"nil", "a"}}

\* ... a webhook configuration with up to two webhooks, ...
Hooks ==
    {<<[o EXCEPT !.caBundles = x], [o EXCEPT !.caBundles = y]>> :
        o \in {Plain("MutatingWebhookConfiguration")},
        x \in {<<"a", "">>, <<"a", "b">>}, y \in {<<"a">>, <<"a", "c">>, <<"", "b">>}}

\* ... a Deployment with annotations, maybe another release's, maybe with nulls, ...
Deployments ==
    {<<[o EXCEPT !.annotations = x], [o EXCEPT !.annotations = y]>> :
        o \in {[Plain("Deployment") EXCEPT !.instance = i, !.nulls = n] :
                  i \in {"", "own", "other"}, n \in {{}, {<<"spec", "replicas">>}}},
        x \in {"reload" :> 1, "reload" :> 1 @@ "checksum" :> 1},
        y \in {<<>>, "reload" :> 1 @@ "checksum" :> 2, "reload" :> 2 @@ "checksum" :> 2}}

\* ... a CRD.
CRDs ==
    {<<[o EXCEPT !.spec = x, !.annotations = "reload" :> 1], [o EXCEPT !.annotations = y]>> :
        o \in {Plain(CRD)}, x \in {"s", "t"}, y \in {<<>>, "reload" :> 1, "reload" :> 2}}

Services == {<<[o EXCEPT !.caBundles = <<"a">>], [o EXCEPT !.caBundles = <<x>>]>> :
                o \in {Plain("APIService")}, x \in {"", "a", "b"}}

Pairs == UNION {Secrets(l, c) : l \in BOOLEAN, c \in {"own", "other"}}
         \cup Hooks \cup Deployments \cup CRDs \cup Services

\* A chart with that resource and a ConfigMap that is rendered in one way or another.
Config(l) == [Plain("ConfigMap") EXCEPT !.data = "a", !.lookup = l]

Charts ==
    {<<"main" :> p[1] @@ "config" :> Config(l), "main" :> p[2] @@ "config" :> Config(l)>> :
        p \in Pairs, l \in BOOLEAN}
    \cup {<<"main" :> p[1], "config" :> p[2]>> : p \in Secrets(TRUE, "own")}

-----------------------------------------------------------------------------

Own == [user |-> "own", ca |-> "own", cert |-> "own", key |-> "own"]

\* With the TLS material of another registry, with none, with half of it.
SomeSecrets == {NoSecret, Own, [Own EXCEPT !.ca = "other", !.cert = "other"],
                [Own EXCEPT !.ca = "", !.cert = "", !.key = ""]}

SomeCertSecrets == {NoSecret, [Own EXCEPT !.user = ""],
                    [user |-> "", ca |-> "other", cert |-> "other", key |-> ""]}

\* What an edit may lead to.
SomeRenders ==
    {<<"main" :> p[1], "main" :> p[2]>> :
        p \in {<<[o EXCEPT !.data = "a"], [o EXCEPT !.data = x]>> :
                  o \in {Plain("Secret")}, x \in {"a", "b"}}}

Setup(r, exact, repo, auth, cert) ==
    [renders |-> r, exact |-> exact, repository |-> repo,
     secrets |-> [auth |-> auth, cert |-> cert]]

Both == [secretRef |-> TRUE, certSecretRef |-> TRUE]

\* A release of each chart that can be pulled, ...
\* ... and releases of one that have something to try.
SomeSetups ==
    {Setup(r, e, [Both EXCEPT !.certSecretRef = FALSE], Own, NoSecret) :
        r \in Charts, e \in BOOLEAN}
    \cup {Setup(r, TRUE, Both, a, c) :
             r \in SomeRenders, a \in SomeSecrets, c \in SomeCertSecrets}
=============================================================================
