------------------------ MODULE SharedResourcesProofs ------------------------
(* What SharedResources keeps for any number of Applications and resources. *)
EXTENDS SharedResources, SequenceTheorems, WellFoundedInduction, TLAPS

LEMMA MinIsMember ==
    ASSUME NEW S \in SUBSET Nat, S # {} PROVE Min(S) \in S
  <1>1. PICK x \in S : \A y \in S : <<y, x>> \notin OpToRel(<, Nat)
    BY NatLessThanWellFounded, WFMin
  <1>2. OpToRel(<, Nat) = {ss \in Nat \X Nat : ss[1] < ss[2]}
    BY DEF OpToRel
  <1>3. \A y \in S : x =< y
    <2> SUFFICES ASSUME NEW y \in S PROVE x =< y
      OBVIOUS
    <2>1. <<y, x>> \in Nat \X Nat /\ <<y, x>>[1] = y /\ <<y, x>>[2] = x
      OBVIOUS
    <2>2. y < x => <<y, x>> \in OpToRel(<, Nat)
      BY <1>2, <2>1, Zenon
    <2>3. ~(y < x)
      BY <1>1, <2>2
    <2> QED BY <2>3
  <1> QED BY <1>3 DEF Min

\* The lookup is one element of the inventory, with that kind and name, or nothing.
LEMMA LookupIs ==
    ASSUME NEW a \in Apps, NEW id
    PROVE  LET I == {i \in 1..Len(Inventory[a]) : Inventory[a][i].id = id}
           IN  IF I = {} THEN lookupResourceKey(a, id) = {}
                         ELSE \E m \in I : lookupResourceKey(a, id) = {Inventory[a][m]}
  <1> DEFINE I == {i \in 1..Len(Inventory[a]) : Inventory[a][i].id = id}
  <1>1. CASE I = {}
    BY <1>1 DEF lookupResourceKey, SelectInSeq
  <1>2. CASE I # {}
    <2>1. Min(I) \in I
      <3>1. I \in SUBSET Nat
        OBVIOUS
      <3> HIDE DEF I
      <3> QED BY <1>2, <3>1, MinIsMember
    <2>2. SelectInSeq(Inventory[a], LAMBDA r : r.id = id) = Min(I)
      BY <1>2, Zenon DEF SelectInSeq
    <2>3. PICK m \in I : m = Min(I)
      BY <2>1
    <2>4. SelectInSeq(Inventory[a], LAMBDA r : r.id = id) = m /\ m # 0
      BY <2>2, <2>3
    <2>5. lookupResourceKey(a, id) = {Inventory[a][m]}
      BY <2>4, Zenon DEF lookupResourceKey
    <2> QED BY <1>2, <2>3, <2>5
  <1> QED BY <1>1, <1>2

\* What a kind and name are looked up as is of the Application, and has them.
LEMMA LookupFinds ==
    ASSUME NEW a \in Apps, NEW id
    PROVE  \A r \in lookupResourceKey(a, id) : r \in Of(a) /\ r.id = id
  <1>1. Inventory[a] \in Seq(Of(a))
    BY InventoryAssumption
  <1>2. \A m \in 1..Len(Inventory[a]) : Inventory[a][m] \in Of(a)
    BY <1>1, ElementOfSeq
  <1> QED BY <1>2, LookupIs

\* Where kinds and names are unique, a resource is looked up as itself.
LEMMA LookupUnique ==
    ASSUME UniqueIds, NEW a \in Apps, NEW r \in Of(a)
    PROVE  lookupResourceKey(a, r.id) = {r}
  <1>1. PICK i \in 1..Len(Inventory[a]) : Inventory[a][i] = r
    BY InventoryAssumption DEF Of, ToSet
  <1> DEFINE I == {n \in 1..Len(Inventory[a]) : Inventory[a][n].id = r.id}
  <1>2. \E q : lookupResourceKey(a, r.id) = {q}
    <2>1. i \in I
      BY <1>1
    <2>2. \E m \in I : lookupResourceKey(a, r.id) = {Inventory[a][m]}
      <3> HIDE DEF I
      <3>1. LET J == {n \in 1..Len(Inventory[a]) : Inventory[a][n].id = r.id}
            IN  IF J = {} THEN lookupResourceKey(a, r.id) = {}
                          ELSE \E m \in J : lookupResourceKey(a, r.id) = {Inventory[a][m]}
        BY LookupIs
      <3> QED BY <2>1, <3>1 DEF I
    <2> QED BY <2>2
  <1> QED BY <1>2, LookupFinds DEF UniqueIds

LEMMA RulesTyped ==
    ASSUME TypeOK, NEW a \in Apps PROVE sharedResourceIgnoreRules(a) \subseteq Of(a)
  <1> SUFFICES ASSUME NEW c \in conditions[a]
               PROVE  (IF c.type = "RepeatedResourceWarning" THEN {c.res}
                       ELSE lookupResourceKey(a, c.id)) \subseteq Of(a)
    BY DEF sharedResourceIgnoreRules
  <1>1. c \in Warnings(a)
    BY DEF TypeOK
  <1>2. CASE \E r \in Of(a) : c = Shared(r)
    BY <1>2, LookupFinds DEF Shared
  <1>3. CASE \E r \in Of(a) : c = Repeats(r)
    BY <1>3 DEF Repeats
  <1> QED BY <1>1, <1>2, <1>3 DEF Warnings

LEMMA ReportTyped ==
    ASSUME NEW a \in Apps PROVE Report(a) \subseteq Warnings(a)
  BY InventoryAssumption DEF Report, Warnings, Contested

LEMMA StepTyped ==
    ASSUME TypeOK, NEW a \in Apps,
           \/ Install(a) \/ Uninstall(a) \/ Upgrade(a)
           \/ Refresh(a) \/ Sync(a) \/ Reconcile(a)
    PROVE  TypeOK'
  <1>1. CASE Install(a)
    <2>1. installs' \in 0..MaxInstalls
      BY <1>1, InventoryAssumption DEF Install, TypeOK
    <2> QED BY <1>1, <2>1, Zenon DEF Install, TypeOK, Warnings, Of, Resources
  <1>6. CASE Upgrade(a)
    <2>1. hasty' \in 0..MaxHasty
      BY <1>6, InventoryAssumption DEF Upgrade, TypeOK
    <2> QED BY <1>6, <2>1 DEF Upgrade, TypeOK, Warnings, Of, Resources
  <1> USE DEF TypeOK, Warnings, Of, Resources
  <1>2. CASE Uninstall(a)
    <2>1. live' \in [Resources -> Apps \cup {Nobody}]
      BY <1>2 DEF Uninstall
    <2>2. data' \in [Resources -> Apps \cup {Nobody}]
      BY <1>2 DEF Uninstall
    <2> QED BY <1>2, <2>1, <2>2 DEF Uninstall
  <1>3. CASE Refresh(a)
    BY <1>3, ReportTyped DEF Refresh
  <1>4. CASE Sync(a)
    <2>1. live' \in [Resources -> Apps \cup {Nobody}]
      BY <1>4 DEF Sync
    <2>2. data' \in [Resources -> Apps \cup {Nobody}]
      BY <1>4 DEF Sync
    <2> QED BY <1>4, <2>1, <2>2 DEF Sync
  <1>5. CASE Reconcile(a)
    BY <1>5, RulesTyped DEF Reconcile
  <1> QED BY <1>1, <1>2, <1>3, <1>4, <1>5, <1>6

\* Whatever Argo CD warns of, and whenever: the rules of an Application name
\* resources of its own only, in full, for any number of charts with any resources.
THEOREM TypeCorrect == Spec => []TypeOK
  <1>1. Init => TypeOK
    BY InventoryAssumption DEF Init, TypeOK
  <1>2. TypeOK /\ UNCHANGED vars => TypeOK'
    BY DEF vars, TypeOK, Warnings, Of, Resources
  <1>3. TypeOK /\ [Next]_vars => TypeOK'
    BY <1>2, StepTyped DEF Next
  <1> QED BY <1>1, <1>3, PTL DEF Spec

-----------------------------------------------------------------------------
(* What an Application does that has heard of the others. *)

\* The rules made of a report are for the resources that are reported.
LEMMA ReportRules ==
    ASSUME UniqueIds, NEW a \in Apps, conditions[a] = Report(a)
    PROVE  sharedResourceIgnoreRules(a) = Contested(a) \cup Repeated[a]
  <1> DEFINE Rule(c) == IF c.type = "RepeatedResourceWarning" THEN {c.res}
                                                              ELSE lookupResourceKey(a, c.id)
  <1>1. ASSUME NEW r \in Contested(a) PROVE Rule(Shared(r)) = {r} /\ Shared(r) \in Report(a)
    BY <1>1, LookupUnique DEF Contested, Shared, Report
  <1>2. ASSUME NEW r \in Repeated[a] PROVE Rule(Repeats(r)) = {r} /\ Repeats(r) \in Report(a)
    BY <1>2 DEF Repeats, Report
  <1>3. \A c \in Report(a) : (\E r \in Contested(a) : c = Shared(r))
                             \/ (\E r \in Repeated[a] : c = Repeats(r))
    BY DEF Report
  <1>4. sharedResourceIgnoreRules(a) = UNION {Rule(c) : c \in Report(a)}
    BY DEF sharedResourceIgnoreRules
  <1> HIDE DEF Rule
  <1> QED BY <1>1, <1>2, <1>3, <1>4

LEMMA StepRules ==
    ASSUME TypeOK, RulesFollow, NEW a \in Apps,
           \/ Install(a) \/ Uninstall(a) \/ Upgrade(a)
           \/ Refresh(a) \/ Sync(a) \/ Reconcile(a)
    PROVE  RulesFollow'
  <1> SUFFICES ASSUME NEW b \in Apps, b \in installed' \ pending'
               PROVE  ignored'[b] = sharedResourceIgnoreRules(b)'
    BY DEF RulesFollow, TypeOK, Install, Uninstall, Upgrade, Refresh, Sync, Reconcile
  <1>1. ASSUME conditions'[b] = conditions[b]
        PROVE  sharedResourceIgnoreRules(b)' = sharedResourceIgnoreRules(b)
    BY <1>1 DEF sharedResourceIgnoreRules
  <1>2. CASE Install(a) \/ Upgrade(a) \/ Sync(a)
    BY <1>1, <1>2 DEF Install, Upgrade, Sync, RulesFollow
  <1>3. CASE Uninstall(a)
    BY <1>1, <1>3 DEF Uninstall, RulesFollow, TypeOK
  <1>4. CASE Refresh(a)
    BY <1>1, <1>4 DEF Refresh, RulesFollow, TypeOK
  <1>5. CASE Reconcile(a)
    BY <1>1, <1>5 DEF Reconcile, RulesFollow, TypeOK
  <1> QED BY <1>2, <1>3, <1>4, <1>5

LEMMA RulesFollowHolds == Spec => []RulesFollow
  <1>1. Init => RulesFollow
    BY DEF Init, RulesFollow
  <1>2. RulesFollow /\ UNCHANGED vars => RulesFollow'
    BY DEF vars, RulesFollow, sharedResourceIgnoreRules
  <1>3. TypeOK /\ RulesFollow /\ [Next]_vars => RulesFollow'
    BY <1>2, StepRules DEF Next
  <1> QED BY <1>1, <1>3, TypeCorrect, PTL DEF Spec

LEMMA InformedRules ==
    ASSUME UniqueIds, TypeOK, RulesFollow, NEW a \in Apps, Informed(a)
    PROVE  ignored[a] = Contested(a) \cup Repeated[a]
  BY ReportRules DEF Informed, RulesFollow

\* An Application that Argo CD has reported on as it is, and whose release is not
\* waiting, ignores what is contested or repeated and nothing else, for any number of
\* charts and resources, if kind and name tell an Application's resources apart.
THEOREM InformedRulesAreCurrent == ASSUME UniqueIds PROVE Spec => []RulesCurrent
  <1>1. TypeOK /\ RulesFollow => RulesCurrent
    BY InformedRules DEF RulesCurrent
  <1> QED BY <1>1, TypeCorrect, RulesFollowHolds, PTL

\* Where the charts agree on the rest of a resource, it is of the Application the mark
\* names.
DataMarked == \A r \in Resources \ Divergent : data[r] = live[r]

LEMMA DataMarkedHolds == Spec => []DataMarked
  <1>1. Init => DataMarked
    BY DEF Init, DataMarked
  <1>2. DataMarked /\ [Next]_vars => DataMarked'
    <2> SUFFICES ASSUME DataMarked, [Next]_vars PROVE DataMarked'
      OBVIOUS
    <2>1. ASSUME UNCHANGED <<live, data>> PROVE DataMarked'
      BY <2>1 DEF DataMarked
    <2>2. ASSUME NEW a \in Apps, Sync(a) PROVE DataMarked'
      BY <2>2 DEF Sync, DataMarked
    <2>3. ASSUME NEW a \in Apps, Uninstall(a) PROVE DataMarked'
      BY <2>3 DEF Uninstall, DataMarked
    <2> QED BY <2>1, <2>2, <2>3 DEF Next, vars, Install, Upgrade, Refresh, Reconcile
  <1> QED BY <1>1, <1>2, PTL DEF Spec

Takes == \A a \in Apps, r \in Resources :
            \/ live[r] \notin {a, Nobody} /\ live'[r] = a
            \/ r \notin Divergent /\ data[r] \notin {a, Nobody} /\ data'[r] = a
            => ~Informed(a)

\* Such an Application takes no resource from another one, whatever it syncs: under the
\* same assumption only the uninformed fight, except over what no rule covers.
THEOREM InformedTakeNothing == ASSUME UniqueIds PROVE Spec => TakenUnawares
  <1>1. ASSUME TypeOK, RulesFollow, [Next]_vars,
               NEW a \in Apps, NEW r \in Resources,
               live[r] \notin {a, Nobody}, live'[r] = a, Informed(a)
        PROVE  FALSE
    <2>1. PICK b \in Apps : Uninstall(b) \/ Sync(b)
      BY <1>1 DEF Next, vars, Install, Upgrade, Refresh, Reconcile
    <2>2. b = a /\ Sync(b) /\ r \in Of(a) /\ r \notin ignored[a]
      <3>1. CASE Uninstall(b)
        BY <1>1, <3>1, InventoryAssumption DEF Uninstall
      <3>2. CASE Sync(b)
        BY <1>1, <3>2 DEF Sync
      <3> QED BY <2>1, <3>1, <3>2
    <2>3. r \in Contested(a)
      BY <1>1, <2>2 DEF Contested
    <2> QED BY <1>1, <2>2, <2>3, InformedRules
  <1>2. TypeOK /\ RulesFollow /\ DataMarked /\ DataMarked' /\ [Next]_vars => [Takes]_vars
    BY <1>1 DEF Takes, DataMarked
  <1>3. Spec => [][Takes]_vars
    BY <1>2, TypeCorrect, RulesFollowHolds, DataMarkedHolds, PTL DEF Spec
  <1> QED BY <1>3, PTL DEF TakenUnawares, Takes
=============================================================================
