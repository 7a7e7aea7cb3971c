------------------------------ MODULE CRDSchema ------------------------------
(***************************************************************************)
(* undeclaredSpecFieldRules, zeroValueSpecFieldRules and the crdSchemaCache *)
(* they share: which spec fields of a release's custom resources Argo CD is *)
(* told to ignore, because the API server prunes what the live CRD does not *)
(* declare and the resource's controller drops zero values.                 *)
(*                                                                          *)
(* One kind with several versions; the chart has one object of each. A JSON *)
(* pointer is the sequence of the keys it goes through.                     *)
(***************************************************************************)
EXTENDS Naturals

CONSTANTS
    Versions, Fields,
    Specs,      \* of objects: [fields: top-level fields, zeros: pointers to zero values]
    Schemas,    \* [declared: fields of its spec, preserve: does its spec keep others?]
    TTL,
    MaxUserOps, MaxFaults   \* bounds on the environment; a restart is a fault, too

Pointers == {<<"spec", f>> : f \in Fields} \cup {<<"spec", f, g>> : f, g \in Fields}

ASSUME CRDSchemaAssumption ==
    /\ TTL \in Nat
    /\ MaxUserOps \in Nat /\ MaxFaults \in Nat
    /\ Specs \subseteq [fields : SUBSET Fields, zeros : SUBSET Pointers]
    /\ Schemas \subseteq [declared : SUBSET Fields, preserve : BOOLEAN]

VARIABLES
    crd,        \* version -> schema, for the versions served; empty without the CRD
    spec,       \* version -> spec of the chart's object of that version
    rules,      \* version -> pointers that the Application ignores in it
    mapped,     \* versions the process's RESTMapper has met
    entries,    \* version -> what crdSchemas remembers
    pending,    \* a reconcile is to come
    quiet,      \* minutes since the CRD changed, if not over TTL
    seen,       \* version -> "quiet" when its rules were computed; 0: they are not those
                \* of a schema that was read, or the CRD has changed since
    userOps, faults

vars == <<crd, spec, rules, mapped, entries, pending, quiet, seen, userOps, faults>>

Entries == [found : BOOLEAN, preserve : BOOLEAN, fields : SUBSET Fields, age : 0..(TTL + 1)]

\* Every variable has its type.
TypeOK ==
    /\ DOMAIN crd \subseteq Versions
    /\ \A v \in DOMAIN crd : crd[v] \in Schemas
    /\ spec \in [Versions -> Specs]
    /\ rules \in [Versions -> SUBSET Pointers]
    /\ mapped \subseteq Versions
    /\ DOMAIN entries \subseteq Versions
    /\ \A v \in DOMAIN entries : entries[v] \in Entries
    /\ pending \in BOOLEAN
    /\ quiet \in 0..(TTL + 1)
    /\ seen \in [Versions -> 0..(TTL + 1)]
    /\ userOps \in 0..MaxUserOps /\ faults \in 0..MaxFaults

Init ==
    /\ crd = <<>>
    /\ spec \in [Versions -> Specs]
    /\ rules = [v \in Versions |-> {}]
    /\ mapped = {}
    /\ entries = <<>>
    /\ pending = TRUE
    /\ quiet = 0
    /\ seen = [v \in Versions |-> 0]
    /\ userOps = 0 /\ faults = 0

-----------------------------------------------------------------------------
(* The cluster. *)

UserOp == userOps < MaxUserOps /\ userOps' = userOps + 1

\* The CRD is installed, upgraded, or removed. No watch tells the operator.
ChangeCRD ==
    /\ UserOp
    /\ \E served \in SUBSET Versions : crd' \in [served -> Schemas] \ {crd}
    /\ quiet' = 0
    /\ seen' = [v \in Versions |-> 0]
    /\ UNCHANGED <<spec, rules, mapped, entries, pending, faults>>

\* The release gets another version of its chart. (An edit of the values alone would
\* go unnoticed: the objects come from the memo of chart analyses.)
EditSpec ==
    /\ UserOp
    /\ spec' \in [Versions -> Specs] \ {spec}
    /\ pending' = TRUE
    /\ UNCHANGED <<crd, rules, mapped, entries, quiet, seen, faults>>

Older(age) == IF age > TTL THEN age ELSE age + 1

\* A minute passes.
Tick ==
    /\ entries' = [v \in DOMAIN entries |-> [entries[v] EXCEPT !.age = Older(@)]]
    /\ quiet' = Older(quiet)
    /\ UNCHANGED <<crd, spec, rules, mapped, pending, seen, userOps, faults>>

\* The periodic resync, and events that have nothing to do with the CRD.
Wake ==
    /\ ~pending
    /\ pending' = TRUE
    /\ UNCHANGED <<crd, spec, rules, mapped, entries, quiet, seen, userOps, faults>>

Crash ==
    /\ faults < MaxFaults
    /\ faults' = faults + 1
    /\ mapped' = {}
    /\ entries' = <<>>
    /\ pending' = TRUE
    /\ UNCHANGED <<crd, spec, rules, quiet, seen, userOps>>

-----------------------------------------------------------------------------
(* The operator. *)

\* Faulty: entries never expire.
Hit_Forever(es, v) == v \in DOMAIN es

\* Faulty: what was not found is not found for ever.
Hit_MissesForever(es, v) == v \in DOMAIN es /\ (es[v].age <= TTL \/ ~es[v].found)

\* get: does the cache answer for v?
Hit(es, v) == v \in DOMAIN es /\ es[v].age <= TTL

\* The mapper asks the API server about a version it has not met, and does not
\* forget one that it has.
Mappable(v) == v \in mapped \cup DOMAIN crd

\* What reading the CRD gives: nothing if there is none, no field at all if the
\* CRD has no such version any more.
Fetched(v) ==
    CASE DOMAIN crd = {} ->
            [found |-> FALSE, preserve |-> FALSE, fields |-> {}, age |-> 0]
      [] DOMAIN crd # {} /\ v \notin DOMAIN crd ->
            [found |-> TRUE, preserve |-> FALSE, fields |-> {}, age |-> 0]
      [] v \in DOMAIN crd ->
            [found |-> TRUE, preserve |-> crd[v].preserve,
             fields |-> IF crd[v].preserve THEN {} ELSE crd[v].declared, age |-> 0]

\* An object with an empty spec is not looked at.
Relevant(v) == spec[v].fields # {}

\* The versions for which the API server is asked.
Missing(es) == {v \in Versions : Relevant(v) /\ ~Hit(es, v)}

\* Faulty: a hit renews the entry.
LookUp_Renews(es, failing) ==
    LET fetched == {v \in Missing(es) : Mappable(v)} \ failing
    IN  [v \in DOMAIN es \cup fetched |->
            IF v \in fetched THEN Fetched(v)
            ELSE IF Relevant(v) /\ Hit(es, v) THEN [es[v] EXCEPT !.age = 0]
            ELSE es[v]]

\* lookupCRDSchema for every object: the cache after it. Errors (calls that fail,
\* and a kind the mapper does not know) leave no entry.
LookUp(es, failing) ==
    LET fetched == {v \in Missing(es) : Mappable(v)} \ failing
    IN  [v \in DOMAIN es \cup fetched |-> IF v \in fetched THEN Fetched(v) ELSE es[v]]

\* Faulty: fields are named as in the CRD, not as in the object.
Undeclared_Bare(es, v) ==
    IF Relevant(v) /\ Hit(es, v) /\ es[v].found /\ ~es[v].preserve
    THEN {<<f>> : f \in spec[v].fields \ es[v].fields}
    ELSE {}

Undeclared(es, v) ==
    IF Relevant(v) /\ Hit(es, v) /\ es[v].found /\ ~es[v].preserve
    THEN {<<"spec", f>> : f \in spec[v].fields \ es[v].fields}
    ELSE {}

ZeroValued(es, v) ==
    IF Relevant(v) /\ Hit(es, v) /\ es[v].found THEN spec[v].zeros ELSE {}

\* Two passes over the objects, each with lookups of its own, some of which may
\* fail; a version for which one has failed gets no rules from that pass.
Reconcile(failing1, failing2) ==
    LET first  == LookUp(entries, failing1)
        second == LookUp(first, failing2)
    IN  /\ pending
        /\ failing1 \subseteq Missing(entries) /\ failing2 \subseteq Missing(first)
        /\ faults' = IF failing1 \cup failing2 = {} THEN faults ELSE faults + 1
        /\ faults' <= MaxFaults
        /\ pending' = FALSE
        /\ entries' = second
        /\ mapped' = mapped \cup (DOMAIN crd \cap Missing(entries))
        /\ rules' = [v \in Versions |-> Undeclared(first, v) \cup ZeroValued(second, v)]
        /\ seen' = [v \in Versions |-> IF v \in failing1 \cup failing2 THEN 0 ELSE quiet]
        /\ UNCHANGED <<crd, spec, quiet, userOps>>

Reconciles == \E failing1, failing2 \in SUBSET Versions : Reconcile(failing1, failing2)

Next == ChangeCRD \/ EditSpec \/ Tick \/ Wake \/ Crash \/ Reconciles

Spec == Init /\ [][Next]_vars

\* Time passes, requests are reconciled, and the resync comes round.
ResyncSpec == Spec /\ WF_vars(Tick) /\ WF_vars(Reconciles) /\ WF_vars(Wake)

-----------------------------------------------------------------------------

\* What differs between chart and cluster at every sync and must be ignored: what is
\* pruned or dropped, and no more, or users' edits of it would not be deployed.
\* (Objects of versions that are not served cannot be applied at all.)
Transient(v) ==
    IF Relevant(v) /\ v \in DOMAIN crd
    THEN spec[v].zeros
         \cup {<<"spec", f>> : f \in IF crd[v].preserve THEN {}
                                     ELSE spec[v].fields \ crd[v].declared}
    ELSE {}

Exact(v) == v \in DOMAIN crd \/ DOMAIN crd = {} => rules[v] = Transient(v)

\* "Entries expire so a CRD upgrade is picked up without a restart"
\* (helmrelease_controller.go:142), at the first reconcile that comes more than
\* the TTL after the upgrade: whatever was remembered, when, and for which version.
BoundedStaleness ==
    ~pending => \A v \in Versions : seen[v] > TTL => Exact(v)

\* The same as a promise: once users are done with the CRD and the release, the rules
\* become those of the CRD and stay so. In particular a CRD "not installed yet" is
\* noticed once it is (helmrelease_controller.go:287).
UpgradePickedUp == <>[](\A v \in Versions : Exact(v))

\* Of what is remembered, all that is still used and not what would be read now was
\* read before the CRD changed. (Zero ages are those of this very minute.)
CacheSound ==
    \A v \in DOMAIN entries :
        entries[v].age < quiet =>
            entries[v] = [Fetched(v) EXCEPT !.age = entries[v].age]

\* The inductive invariant behind BoundedStaleness.
CacheInvariant == TypeOK /\ CacheSound /\ BoundedStaleness
=============================================================================
