---------------------------- MODULE ChartAnalysis ----------------------------
(***************************************************************************)
(* pkg/ignoregen: the chart of a release is rendered twice, and what the   *)
(* renders show becomes the ignoreDifferences rules of its Application.    *)
(* ChartSource has the chart, the renders and the rules change over time.  *)
(*                                                                         *)
(* A render maps resource keys (group, kind, namespace, name) to objects.  *)
(* Of an object there is what the analysis looks at: the payload of a      *)
(* Secret or ConfigMap, CA bundles, annotations (of the pod template, or   *)
(* of a CRD itself), a CRD's spec, null fields, the labels that say which  *)
(* chart and release it belongs to, and whether its template calls lookup. *)
(* A JSON pointer or jq path is the sequence of the keys it goes through.  *)
(***************************************************************************)
EXTENDS Naturals, SequencesExt

CONSTANT AnnotationKeys

Payloads  == {"Secret", "ConfigMap"}
Webhooks  == {"MutatingWebhookConfiguration", "ValidatingWebhookConfiguration"}
Workloads == {"Deployment", "StatefulSet"}
CRD       == "CustomResourceDefinition"

Data                == <<"data">>
StringData          == <<"stringData">>
BinaryData          == <<"binaryData">>
WebhookBundle       == <<"webhooks", "[]", "clientConfig", "caBundle">>
ServiceBundle       == <<"spec", "caBundle">>
TemplateAnnotations == <<"spec", "template", "metadata", "annotations">>
Annotations         == <<"metadata", "annotations">>
Labels              == <<"metadata", "labels">>
Spec_               == <<"spec">>

Paths == {Data, StringData, WebhookBundle, ServiceBundle, Spec_}
         \cup {prefix \o <<k>> : prefix \in {TemplateAnnotations, Annotations},
                                 k \in AnnotationKeys}

\* An object has one CA bundle for each webhook, an APIService has one, others none.
IsObject(o) ==
    /\ o.caBundles \in Seq(STRING)
    /\ o.kind = "APIService" => Len(o.caBundles) = 1
    /\ o.kind \notin Webhooks \cup {"APIService"} => o.caBundles = <<>>
    /\ DOMAIN o.annotations \subseteq AnnotationKeys
    /\ o.nulls \subseteq Seq(STRING)
    /\ o.lookup \in BOOLEAN

\* Both renders of a chart; the kind is part of an object's key.
IsChart(pair) ==
    /\ \A n \in {1, 2} : /\ IsFiniteSet(DOMAIN pair[n])
                         /\ \A k \in DOMAIN pair[n] : IsObject(pair[n][k])
    /\ \A k \in DOMAIN pair[1] \cap DOMAIN pair[2] : pair[1][k].kind = pair[2][k].kind

-----------------------------------------------------------------------------
(* One pass after the other. *)

\* CA bundles count when both renders have them, one for one.
BundlesDiffer(o, p) ==
    /\ Len(o.caBundles) = Len(p.caBundles)
    /\ \E i \in DOMAIN o.caBundles :
          "" \notin {o.caBundles[i], p.caBundles[i]} /\ o.caBundles[i] # p.caBundles[i]

diffAnnotations(o, p) ==
    {k \in DOMAIN o.annotations \cap DOMAIN p.annotations : o.annotations[k] # p.annotations[k]}

\* The paths at which the two renders of one object differ, of those that are
\* known to differ from render to render.
Generated(o, p) ==
    {path \in Paths :
        \/ o.kind \in Payloads /\ o.data # p.data /\ path = Data
        \/ o.kind \in Payloads /\ o.stringData # p.stringData /\ path \in {Data, StringData}
        \/ o.kind \in Webhooks /\ BundlesDiffer(o, p) /\ path = WebhookBundle
        \/ o.kind = "APIService" /\ BundlesDiffer(o, p) /\ path = ServiceBundle
        \/ /\ o.kind \in Workloads
           /\ \E k \in diffAnnotations(o, p) : path = TemplateAnnotations \o <<k>>
        \/ o.kind = CRD /\ o.spec # p.spec /\ path = Spec_
        \/ /\ o.kind = CRD
           /\ \E k \in diffAnnotations(o, p) : path = Annotations \o <<k>>}

\* A rule for every key to which "paths" gives some path; the order in which a map
\* is iterated over does not matter.
RulesFor(paths) ==
    SetToSeq({[res |-> k, paths |-> paths[k]] : k \in {k \in DOMAIN paths : paths[k] # {}}})

findIgnoreDifferences(first, second) ==
    RulesFor([k \in DOMAIN first \cap DOMAIN second |-> Generated(first[k], second[k])])

\* Labels that name another chart or another release; a missing label says nothing.
\* Labels have the exact version of their chart, and are compared with whatever the
\* release asks for: with a range of versions the chart's own are another's as well.
Foreign(o, exact) ==
    "other" \in {o.chart, o.instance} \/ (o.chart = "own" /\ ~exact)

\* A resource of another chart is left alone as a whole.
detectForeignChartResources(first, exact) ==
    RulesFor([k \in DOMAIN first |->
                 IF Foreign(first[k], exact) THEN {Spec_, Labels, Annotations} ELSE {}])

nullFieldRules(first) == RulesFor([k \in DOMAIN first |-> first[k].nulls])

\* What a template guarded by lookup renders offline is the seed only.
Seeded(o) == CASE o.kind = "Secret"    -> {Data, StringData}
               [] o.kind = "ConfigMap" -> {BinaryData, Data}
               [] OTHER                -> {}

lookupGuardedRules(first) ==
    RulesFor([k \in DOMAIN first |-> IF first[k].lookup THEN Seeded(first[k]) ELSE {}])

Has(rules, res) == \E i \in DOMAIN rules : rules[i].res = res

\* Faulty: the first rule for a resource wins.
Merge_KeepsFirst(out, r) == IF Has(out, r.res) THEN out ELSE Append(out, r)

\* Faulty: nothing is merged.
Merge_Concatenates(out, r) == Append(out, r)

\* A rule is merged into the one its resource has, if any.
Merge(out, r) ==
    IF Has(out, r.res)
    THEN [i \in DOMAIN out |-> IF out[i].res = r.res
                               THEN [out[i] EXCEPT !.paths = @ \cup r.paths]
                               ELSE out[i]]
    ELSE Append(out, r)

\* Rules for one resource are merged into the first of them.
dedupeRules(rules) ==
    LET merged[n \in 0 .. Len(rules)] ==
            IF n = 0 THEN <<>> ELSE Merge(merged[n - 1], rules[n])
    IN  merged[Len(rules)]

detect(pair, exact) ==
    dedupeRules(findIgnoreDifferences(pair[1], pair[2])
                \o detectForeignChartResources(pair[1], exact)
                \o nullFieldRules(pair[1])
                \o lookupGuardedRules(pair[1]))
=============================================================================
