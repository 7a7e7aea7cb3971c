--------------------------- MODULE CRDSchemaProofs ---------------------------
(***************************************************************************)
(* A reconcile that comes more than the TTL after the CRD's last change     *)
(* computes the rules from the CRD as it is, for any versions, schemas,     *)
(* TTL, failing calls and restarts.                                         *)
(***************************************************************************)
EXTENDS CRDSchema, TLAPS

LEMMA OlderType ==
    ASSUME NEW a \in 0..(TTL + 1)
    PROVE  Older(a) \in 0..(TTL + 1)
  BY CRDSchemaAssumption DEF Older

LEMMA OlderMonotone ==
    ASSUME NEW a \in 0..(TTL + 1), NEW b \in 0..(TTL + 1), Older(a) < Older(b)
    PROVE  a < b
  BY CRDSchemaAssumption DEF Older

LEMMA FetchedType ==
    ASSUME TypeOK, NEW v \in Versions
    PROVE  Fetched(v) \in Entries /\ Fetched(v).age = 0
<1>1. CASE DOMAIN crd = {}
  BY <1>1, CRDSchemaAssumption DEF Fetched, Entries
<1>2. CASE DOMAIN crd # {} /\ v \notin DOMAIN crd
  BY <1>2, CRDSchemaAssumption DEF Fetched, Entries
<1>3. CASE v \in DOMAIN crd
  <2>1. crd[v] \in [declared : SUBSET Fields, preserve : BOOLEAN]
    BY <1>3, CRDSchemaAssumption DEF TypeOK
  <2>2. Fetched(v) = [found |-> TRUE, preserve |-> crd[v].preserve,
                      fields |-> IF crd[v].preserve THEN {} ELSE crd[v].declared, age |-> 0]
    BY <1>3 DEF Fetched
  <2> QED BY <2>1, <2>2, CRDSchemaAssumption DEF Entries
<1> QED BY <1>1, <1>2, <1>3

\* A round of lookups keeps the cache well formed and sound.
LEMMA LookUpSound ==
    ASSUME TypeOK, NEW es, NEW failing,
           DOMAIN es \subseteq Versions,
           \A v \in DOMAIN es : es[v] \in Entries,
           \A v \in DOMAIN es : es[v].age < quiet => es[v] = [Fetched(v) EXCEPT !.age = es[v].age]
    PROVE  /\ DOMAIN LookUp(es, failing) \subseteq Versions
           /\ \A v \in DOMAIN LookUp(es, failing) : LookUp(es, failing)[v] \in Entries
           /\ \A v \in DOMAIN LookUp(es, failing) :
                 LookUp(es, failing)[v].age < quiet =>
                    LookUp(es, failing)[v]
                        = [Fetched(v) EXCEPT !.age = LookUp(es, failing)[v].age]
<1> DEFINE fetched == {v \in Missing(es) : Mappable(v)} \ failing
<1>0. fetched \subseteq Versions
  BY DEF Missing
<1>1. LookUp(es, failing) = [v \in DOMAIN es \cup fetched |->
                                IF v \in fetched THEN Fetched(v) ELSE es[v]]
  BY DEF LookUp
<1>2. DOMAIN LookUp(es, failing) = DOMAIN es \cup fetched
  BY <1>1
<1>3. ASSUME NEW v \in DOMAIN es \cup fetched
      PROVE  /\ LookUp(es, failing)[v] \in Entries
             /\ LookUp(es, failing)[v].age < quiet =>
                   LookUp(es, failing)[v]
                       = [Fetched(v) EXCEPT !.age = LookUp(es, failing)[v].age]
  <2>1. CASE v \in fetched
    <3>1. LookUp(es, failing)[v] = Fetched(v)
      BY <1>1, <2>1
    <3>2. Fetched(v) \in Entries /\ Fetched(v).age = 0
      BY FetchedType, <1>0, <2>1
    <3>3. Fetched(v) = [Fetched(v) EXCEPT !.age = Fetched(v).age]
      BY <3>2 DEF Entries
    <3> QED BY <3>1, <3>2, <3>3
  <2>2. CASE v \notin fetched
    <3>1. LookUp(es, failing)[v] = es[v] /\ v \in DOMAIN es
      BY <1>1, <1>3, <2>2
    <3> QED BY <3>1
  <2> QED BY <2>1, <2>2
<1> QED BY <1>0, <1>2, <1>3

\* What a round of lookups that did not fail has for a version is what the CRD
\* has, if the CRD has not changed for longer than the TTL.
LEMMA LookUpFresh ==
    ASSUME TypeOK, NEW es, NEW failing, NEW v \in Versions \ failing,
           DOMAIN es \subseteq Versions,
           \A w \in DOMAIN es : es[w] \in Entries,
           \A w \in DOMAIN es : es[w].age < quiet => es[w] = [Fetched(w) EXCEPT !.age = es[w].age],
           quiet > TTL, Relevant(v)
    PROVE  LET l == LookUp(es, failing)
           IN  /\ Hit(l, v) => /\ l[v].found = Fetched(v).found
                               /\ l[v].preserve = Fetched(v).preserve
                               /\ l[v].fields = Fetched(v).fields
               /\ v \in DOMAIN crd => Hit(l, v)
<1> DEFINE l == LookUp(es, failing)
<1>1. /\ DOMAIN l \subseteq Versions
      /\ \A w \in DOMAIN l : l[w] \in Entries
      /\ \A w \in DOMAIN l : l[w].age < quiet => l[w] = [Fetched(w) EXCEPT !.age = l[w].age]
  BY LookUpSound
<1>2. Fetched(v) \in Entries /\ Fetched(v).age = 0
  BY FetchedType
<1>3. ASSUME Hit(l, v)
      PROVE  /\ l[v].found = Fetched(v).found
             /\ l[v].preserve = Fetched(v).preserve
             /\ l[v].fields = Fetched(v).fields
  <2>1. v \in DOMAIN l /\ l[v].age <= TTL
    BY <1>3 DEF Hit
  <2>2. l[v].age < quiet
    BY <2>1, <1>1, CRDSchemaAssumption DEF Entries, TypeOK
  <2>3. l[v] = [Fetched(v) EXCEPT !.age = l[v].age]
    BY <2>1, <2>2, <1>1
  <2> QED BY <2>3, <1>2 DEF Entries
<1>4. ASSUME v \in DOMAIN crd PROVE Hit(l, v)
  <2>1. Mappable(v)
    BY <1>4 DEF Mappable
  <2>2. CASE Hit(es, v)
    BY <2>2 DEF Hit, LookUp, Missing
  <2>3. CASE ~Hit(es, v)
    <3>1. v \in DOMAIN l /\ l[v] = Fetched(v)
      BY <2>1, <2>3 DEF LookUp, Missing
    <3> QED BY <3>1, <1>2, CRDSchemaAssumption DEF Hit
  <2> QED BY <2>2, <2>3
<1> QED BY <1>3, <1>4

LEMMA InitInvariant == Init => CacheInvariant
<1> SUFFICES ASSUME Init PROVE CacheInvariant OBVIOUS
<1>1. TypeOK BY CRDSchemaAssumption DEF Init, TypeOK
<1>2. CacheSound BY DEF Init, CacheSound
<1>3. BoundedStaleness BY DEF Init, BoundedStaleness
<1> QED BY <1>1, <1>2, <1>3 DEF CacheInvariant

\* The steps of the environment.
LEMMA EnvironmentInvariant ==
    ASSUME CacheInvariant, ChangeCRD \/ EditSpec \/ Wake \/ Crash \/ UNCHANGED vars
    PROVE  CacheInvariant'
<1> USE DEF CacheInvariant
<1>1. CASE ChangeCRD
  <2>1. TypeOK'
    BY <1>1, CRDSchemaAssumption DEF ChangeCRD, UserOp, TypeOK
  <2>2. CacheSound'
    BY <1>1, CRDSchemaAssumption DEF ChangeCRD, CacheSound, TypeOK, Entries
  <2>3. BoundedStaleness'
    BY <1>1, CRDSchemaAssumption DEF ChangeCRD, BoundedStaleness
  <2> QED BY <2>1, <2>2, <2>3
<1>2. CASE EditSpec
  <2>1. TypeOK'
    BY <1>2, CRDSchemaAssumption DEF EditSpec, UserOp, TypeOK
  <2>2. CacheSound'
    BY <1>2 DEF EditSpec, CacheSound, Fetched
  <2>3. BoundedStaleness'
    BY <1>2 DEF EditSpec, BoundedStaleness
  <2> QED BY <2>1, <2>2, <2>3
<1>3. CASE Wake
  <2>1. TypeOK'
    BY <1>3 DEF Wake, TypeOK
  <2>2. CacheSound'
    BY <1>3 DEF Wake, CacheSound, Fetched
  <2>3. BoundedStaleness'
    BY <1>3 DEF Wake, BoundedStaleness
  <2> QED BY <2>1, <2>2, <2>3
<1>4. CASE Crash
  <2>1. TypeOK'
    BY <1>4, CRDSchemaAssumption DEF Crash, TypeOK
  <2>2. CacheSound'
    BY <1>4 DEF Crash, CacheSound
  <2>3. BoundedStaleness'
    BY <1>4 DEF Crash, BoundedStaleness
  <2> QED BY <2>1, <2>2, <2>3
<1>5. CASE UNCHANGED vars
  BY <1>5 DEF vars, TypeOK, CacheSound, BoundedStaleness, Fetched, Exact, Transient, Relevant
<1> QED BY <1>1, <1>2, <1>3, <1>4, <1>5

LEMMA TickInvariant == CacheInvariant /\ Tick => CacheInvariant'
<1> SUFFICES ASSUME CacheInvariant, Tick PROVE CacheInvariant' OBVIOUS
<1> USE DEF CacheInvariant
<1>1. /\ DOMAIN entries' = DOMAIN entries
      /\ \A v \in DOMAIN entries :
            /\ entries[v] \in Entries
            /\ entries'[v] = [entries[v] EXCEPT !.age = Older(entries[v].age)]
  BY DEF Tick, TypeOK
<1>2. \A v \in DOMAIN entries : entries'[v] \in Entries
  BY <1>1, OlderType DEF Entries
<1>3. TypeOK'
  BY <1>1, <1>2, OlderType DEF Tick, TypeOK
<1>4. ASSUME NEW v \in DOMAIN entries, entries'[v].age < quiet'
      PROVE  entries'[v] = [Fetched(v)' EXCEPT !.age = entries'[v].age]
  <2>1. entries'[v].age = Older(entries[v].age) /\ entries[v].age \in 0..(TTL + 1)
    BY <1>1 DEF Entries
  <2>2. entries[v].age < quiet
    BY <2>1, <1>4, OlderMonotone DEF Tick, TypeOK
  <2>3. entries[v] = [Fetched(v) EXCEPT !.age = entries[v].age]
    BY <2>2 DEF CacheSound
  <2>4. Fetched(v)' = Fetched(v)
    BY DEF Tick, Fetched
  <2>5. Fetched(v) \in Entries
    BY FetchedType DEF TypeOK
  <2> QED BY <1>1, <2>1, <2>3, <2>4, <2>5 DEF Entries
<1>5. CacheSound'
  BY <1>1, <1>4 DEF CacheSound
<1>6. BoundedStaleness'
  BY DEF Tick, BoundedStaleness, Exact, Transient, Relevant
<1> QED BY <1>3, <1>5, <1>6

LEMMA RulesType ==
    ASSUME TypeOK, NEW es, NEW v \in Versions
    PROVE  /\ Undeclared(es, v) \subseteq Pointers
           /\ ZeroValued(es, v) \subseteq Pointers
<1>1. spec[v] \in [fields : SUBSET Fields, zeros : SUBSET Pointers]
  BY CRDSchemaAssumption DEF TypeOK
<1>2. Undeclared(es, v) \subseteq Pointers
  BY <1>1 DEF Undeclared, Pointers
<1>3. ZeroValued(es, v) \subseteq Pointers
  BY <1>1 DEF ZeroValued
<1> QED BY <1>2, <1>3

\* The rules that a reconcile computes from two rounds of fresh lookups are exact.
LEMMA FreshRulesExact ==
    ASSUME TypeOK, NEW first, NEW second, NEW v \in Versions,
           \A l \in {first, second} :
              Relevant(v) =>
                 /\ Hit(l, v) => /\ l[v].found = Fetched(v).found
                                 /\ l[v].preserve = Fetched(v).preserve
                                 /\ l[v].fields = Fetched(v).fields
                 /\ v \in DOMAIN crd => Hit(l, v),
           v \in DOMAIN crd \/ DOMAIN crd = {}
    PROVE  Undeclared(first, v) \cup ZeroValued(second, v) = Transient(v)
<1>1. CASE ~Relevant(v)
  BY <1>1 DEF Undeclared, ZeroValued, Transient
<1>2. CASE Relevant(v) /\ DOMAIN crd = {}
  <2>1. ~Fetched(v).found
    BY <1>2 DEF Fetched
  <2>2. Undeclared(first, v) = {}
    BY <1>2, <2>1 DEF Undeclared
  <2>3. ZeroValued(second, v) = {}
    BY <1>2, <2>1 DEF ZeroValued
  <2> QED BY <1>2, <2>2, <2>3 DEF Transient
<1>3. CASE Relevant(v) /\ v \in DOMAIN crd
  <2>1. Fetched(v) = [found |-> TRUE, preserve |-> crd[v].preserve,
                      fields |-> IF crd[v].preserve THEN {} ELSE crd[v].declared, age |-> 0]
    BY <1>3 DEF Fetched
  <2>0. ASSUME NEW l \in {first, second}
        PROVE  /\ Hit(l, v)
               /\ l[v].found = TRUE
               /\ l[v].preserve = crd[v].preserve
               /\ l[v].fields = IF crd[v].preserve THEN {} ELSE crd[v].declared
    <3>1. /\ Fetched(v).found = TRUE
          /\ Fetched(v).preserve = crd[v].preserve
          /\ Fetched(v).fields = IF crd[v].preserve THEN {} ELSE crd[v].declared
      BY <2>1
    <3>2. /\ Hit(l, v)
          /\ l[v].found = Fetched(v).found
          /\ l[v].preserve = Fetched(v).preserve
          /\ l[v].fields = Fetched(v).fields
      BY <1>3
    <3> QED BY <3>1, <3>2, Zenon
  <2>2. ZeroValued(second, v) = spec[v].zeros
    BY <1>3, <2>0, Zenon DEF ZeroValued
  <2>3. CASE crd[v].preserve
    <3>1. Undeclared(first, v) = {}
      BY <1>3, <2>0, <2>3, Zenon DEF Undeclared
    <3>2. Transient(v) = spec[v].zeros
      BY <1>3, <2>3 DEF Transient
    <3> QED BY <2>2, <3>1, <3>2
  <2>4. CASE ~crd[v].preserve
    <3>1. first[v].fields = crd[v].declared /\ Hit(first, v) /\ first[v].found /\ ~first[v].preserve
      BY <2>0, <2>4, Zenon
    <3>2. Undeclared(first, v) = {<<"spec", f>> : f \in spec[v].fields \ crd[v].declared}
      BY <1>3, <3>1 DEF Undeclared
    <3>3. Transient(v) = spec[v].zeros
                         \cup {<<"spec", f>> : f \in spec[v].fields \ crd[v].declared}
      BY <1>3, <2>4 DEF Transient
    <3> QED BY <2>2, <3>2, <3>3
  <2> QED BY <2>3, <2>4
<1> QED BY <1>1, <1>2, <1>3

LEMMA ReconcileInvariant == CacheInvariant /\ Reconciles => CacheInvariant'
<1> SUFFICES ASSUME CacheInvariant,
                    NEW failing1 \in SUBSET Versions, NEW failing2 \in SUBSET Versions,
                    Reconcile(failing1, failing2)
             PROVE  CacheInvariant'
  BY DEF Reconciles
<1> DEFINE first  == LookUp(entries, failing1)
           second == LookUp(first, failing2)
           Sound(es) == /\ DOMAIN es \subseteq Versions
                        /\ \A v \in DOMAIN es : es[v] \in Entries
                        /\ \A v \in DOMAIN es :
                              es[v].age < quiet => es[v] = [Fetched(v) EXCEPT !.age = es[v].age]
<1>0. TypeOK /\ CacheSound
  BY DEF CacheInvariant
<1>1. Sound(entries)
  BY <1>0 DEF TypeOK, CacheSound
<1>2. Sound(first)
  BY <1>0, <1>1, LookUpSound
<1>3. Sound(second)
  <2> HIDE DEF first
  <2> QED BY <1>0, <1>2, LookUpSound
<1>4. /\ pending' = FALSE /\ entries' = second
      /\ mapped' = mapped \cup (DOMAIN crd \cap Missing(entries))
      /\ rules' = [v \in Versions |-> Undeclared(first, v) \cup ZeroValued(second, v)]
      /\ seen' = [v \in Versions |-> IF v \in failing1 \cup failing2 THEN 0 ELSE quiet]
      /\ UNCHANGED <<crd, spec, quiet, userOps>>
  BY DEF Reconcile
<1>5. faults' \in 0..MaxFaults
  BY <1>0, CRDSchemaAssumption DEF Reconcile, TypeOK
<1> HIDE DEF first, second
<1>6. TypeOK'
  <2>1. rules' \in [Versions -> SUBSET Pointers]
    BY <1>0, <1>4, RulesType
  <2>2. mapped' \subseteq Versions
    BY <1>0, <1>4 DEF TypeOK
  <2>3. seen' \in [Versions -> 0..(TTL + 1)]
    BY <1>0, <1>4, CRDSchemaAssumption DEF TypeOK
  <2> QED BY <1>0, <1>3, <1>4, <1>5, <2>1, <2>2, <2>3 DEF TypeOK
<1>7. CacheSound'
  <2>1. \A v : Fetched(v)' = Fetched(v)
    BY <1>4 DEF Fetched
  <2> QED BY <1>3, <1>4, <2>1 DEF CacheSound
<1>8. ASSUME NEW v \in Versions, seen'[v] > TTL PROVE Exact(v)'
  <2>1. quiet > TTL /\ v \notin failing1 \cup failing2
    BY <1>4, <1>8, CRDSchemaAssumption
  <2>2. Relevant(v) =>
           /\ Hit(first, v) => /\ first[v].found = Fetched(v).found
                               /\ first[v].preserve = Fetched(v).preserve
                               /\ first[v].fields = Fetched(v).fields
           /\ v \in DOMAIN crd => Hit(first, v)
    BY <1>0, <1>1, <2>1, LookUpFresh DEF first
  <2>3. Relevant(v) =>
           /\ Hit(second, v) => /\ second[v].found = Fetched(v).found
                                /\ second[v].preserve = Fetched(v).preserve
                                /\ second[v].fields = Fetched(v).fields
           /\ v \in DOMAIN crd => Hit(second, v)
    BY <1>0, <1>2, <2>1, LookUpFresh DEF second
  <2>4. v \in DOMAIN crd \/ DOMAIN crd = {} =>
           Undeclared(first, v) \cup ZeroValued(second, v) = Transient(v)
    BY <1>0, <2>2, <2>3, FreshRulesExact
  <2>5. rules'[v] = Undeclared(first, v) \cup ZeroValued(second, v)
    BY <1>4
  <2>6. Transient(v)' = Transient(v)
    BY <1>4 DEF Transient, Relevant
  <2> QED BY <1>4, <2>4, <2>5, <2>6 DEF Exact
<1>9. BoundedStaleness'
  BY <1>8 DEF BoundedStaleness
<1> QED BY <1>6, <1>7, <1>9 DEF CacheInvariant

\* "Entries expire so a CRD upgrade is picked up without a restart": the cache is
\* sound in every reachable state ...
THEOREM CacheInvariantHolds == Spec => []CacheInvariant
<1>1. CacheInvariant /\ [Next]_vars => CacheInvariant'
  BY EnvironmentInvariant, TickInvariant, ReconcileInvariant DEF Next
<1> QED BY InitInvariant, <1>1, PTL DEF Spec

\* ... and a reconcile that comes more than the TTL after the CRD's last change
\* computes the rules from the CRD as it is.
THEOREM StalenessBounded == Spec => []BoundedStaleness
<1>1. CacheInvariant => BoundedStaleness
  BY DEF CacheInvariant
<1> QED BY CacheInvariantHolds, <1>1, PTL

\* Cache, rules and clocks stay well formed.
THEOREM TypeCorrect == Spec => []TypeOK
<1>1. CacheInvariant => TypeOK
  BY DEF CacheInvariant
<1> QED BY CacheInvariantHolds, <1>1, PTL
=============================================================================
