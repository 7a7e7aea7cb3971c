------------------------- MODULE CRDOwnershipProofs -------------------------
(* What CRDOwnership keeps for any number of releases, charts and CRDs. *)
EXTENDS CRDOwnership, FiniteSetTheorems, WellFoundedInduction, TLAPS

\* The election has one winner at most, whatever the registry holds: rules that
\* are computed from one state of the registry never leave a CRD to two releases.
LEMMA ElectionUnique ==
    ASSUME NEW registry \in [Releases -> SUBSET CRDs], NEW crd \in CRDs,
           NEW r \in Releases, NEW q \in Releases,
           Owns(r, crd, registry), Owns(q, crd, registry)
    PROVE  r = q
  BY ConstantsAssumption DEF Owns

\* And it has one: the least of those that are known to ship the CRD.
LEMMA ElectionWon ==
    ASSUME NEW registry \in [Releases -> SUBSET CRDs], NEW crd \in CRDs,
           NEW q \in Releases, crd \in registry[q]
    PROVE  \E r \in Releases : Owns(r, crd, registry)
  <1> DEFINE S == {r \in Releases : crd \in registry[r]}
  <1>1. S \subseteq Nat /\ S # {}
    BY ConstantsAssumption
  <1>2. PICK x \in S : \A y \in S : <<y, x>> \notin OpToRel(<, Nat)
    BY <1>1, NatLessThanWellFounded, WFMin
  <1>3. OpToRel(<, Nat) = {ss \in Nat \X Nat : ss[1] < ss[2]}
    BY DEF OpToRel
  <1>4. ASSUME NEW y \in S PROVE x <= y
    <2>1. <<y, x>> \in Nat \X Nat /\ <<y, x>>[1] = y /\ <<y, x>>[2] = x
      BY <1>1
    <2>2. y < x => <<y, x>> \in OpToRel(<, Nat)
      BY <1>3, <2>1, Zenon
    <2>3. ~(y < x)
      BY <1>2, <2>2
    <2> QED BY <1>1, <2>3
  <1> QED BY <1>2, <1>4 DEF Owns

\* What an analysis that succeeds reports: exactly what the chart ships.
LEMMA FindsAll ==
    ASSUME NEW c \in Contents
    PROVE  /\ helmCRDNames(renderChart(c)).crds = Names(Shipped(c))
           /\ helmCRDNames(renderChart(c)).oversized = Large(Shipped(c))
           /\ Names(Shipped(c)) \subseteq CRDs
           /\ Large(Shipped(c)) \subseteq Names(Shipped(c))
  <1>1. c \in ContentType /\ \A d, e \in Shipped(c) : d.name = e.name => d = e
    BY ConstantsAssumption
  <1>2. renderChart(c) = Shipped(c)
    BY <1>1 DEF renderChart, Shipped, Names
  <1>3. \A d \in Shipped(c) : d.name \in CRDs
    BY <1>1 DEF Shipped, ContentType, Document
  <1> QED BY <1>2, <1>3 DEF helmCRDNames, Names, Large

\* What a reconcile goes by is the one analysis of the release's version there is
\* from then on; no one else's changes.
LEMMA SyncStep ==
    ASSUME TypeOK, NEW r \in Releases, SyncRelease(r)
    PROVE  \E c \in Contents \cup {NoContent} :
              /\ c = NoContent => Remembered(r) = {} /\ memo' = memo
              /\ c # NoContent => /\ c.version = chart[r].version
                                  /\ Remembered(r) \in {{}, {c}} \/ c \in Remembered(r)
                                  /\ memo' = memo \cup {<<r, c>>}
              /\ byRelease' = [byRelease EXCEPT ![r] = Found(r, c).crds]
              /\ \E created \in Creations(Found(r, c)) : installed' = installed \cup created
              /\ \/ /\ app' = [app EXCEPT ![r] = [content |-> chart[r],
                                         ignored |-> Backoff(r, Found(r, c), byRelease')]]
                    /\ pending' = pending \ {r}
                 \/ UNCHANGED <<app, pending>>
              /\ \/ UNCHANGED faults
                 \/ faults < MaxFaults /\ faults' = faults + 1
              /\ r \in pending /\ chart[r] \in Contents
              /\ UNCHANGED <<chart, suspended, userOps, crashes>>
  <1>1. chart[r] \in Contents
    BY DEF SyncRelease, TypeOK
  <1>2. PICK c \in Analyses(r) :
           /\ memo' = IF c = NoContent THEN memo ELSE memo \cup {<<r, c>>}
           /\ byRelease' = [byRelease EXCEPT ![r] = Found(r, c).crds]
           /\ \E created \in Creations(Found(r, c)) : installed' = installed \cup created
           /\ \/ /\ app' = [app EXCEPT ![r] = [content |-> chart[r],
                                      ignored |-> Backoff(r, Found(r, c), byRelease')]]
                 /\ pending' = pending \ {r}
              \/ UNCHANGED <<app, pending>>
           /\ \/ UNCHANGED faults
              \/ faults < MaxFaults /\ faults' = faults + 1
    BY DEF SyncRelease
  <1>3. /\ c \in Contents \cup {NoContent}
        /\ c = NoContent => Remembered(r) = {}
        /\ c # NoContent => c.version = chart[r].version
        /\ c \in Remembered(r) \/ Remembered(r) = {}
    BY <1>1, AbsentAssumption DEF Analyses, Remembered
  <1> QED BY <1>1, <1>2, <1>3 DEF SyncRelease

LEMMA FoundTyped ==
    ASSUME NEW r \in Releases, NEW c \in Contents \cup {NoContent}
    PROVE  /\ Found(r, c).crds = IF c = NoContent THEN {} ELSE Names(Shipped(c))
           /\ Found(r, c).oversized = IF c = NoContent THEN {} ELSE Large(Shipped(c))
           /\ Found(r, c).crds \subseteq CRDs
           /\ Found(r, c).oversized \subseteq Found(r, c).crds
  BY FindsAll DEF Found, Nothing

LEMMA SyncTyped ==
    ASSUME TypeOK, NEW r \in Releases, SyncRelease(r)
    PROVE  TypeOK'
  <1>1. PICK c \in Contents \cup {NoContent} :
          /\ memo' = memo \/ (c # NoContent /\ memo' = memo \cup {<<r, c>>})
          /\ byRelease' = [byRelease EXCEPT ![r] = Found(r, c).crds]
          /\ \E created \in Creations(Found(r, c)) : installed' = installed \cup created
          /\ \/ /\ app' = [app EXCEPT ![r] = [content |-> chart[r],
                                     ignored |-> Backoff(r, Found(r, c), byRelease')]]
                /\ pending' = pending \ {r}
             \/ UNCHANGED <<app, pending>>
          /\ \/ UNCHANGED faults
             \/ faults < MaxFaults /\ faults' = faults + 1
          /\ chart[r] \in Contents /\ UNCHANGED <<chart, suspended, userOps, crashes>>
    BY SyncStep
  <1>3. Found(r, c).crds \subseteq CRDs /\ Found(r, c).oversized \subseteq CRDs
    BY FoundTyped
  <1>4. \A created \in Creations(Found(r, c)) : created \subseteq CRDs
    BY <1>3 DEF Creations
  <1>5. memo' \subseteq Releases \X Contents
    BY <1>1 DEF TypeOK
  <1>6. byRelease' \in [Releases -> SUBSET CRDs]
    BY <1>1, <1>3 DEF TypeOK
  <1>7. app' \in [Releases -> Application \cup {NoApp}]
    <2>1. Backoff(r, Found(r, c), byRelease') \in SUBSET CRDs
      BY <1>3 DEF Backoff
    <2> DEFINE a == [content |-> chart[r], ignored |-> Backoff(r, Found(r, c), byRelease')]
    <2>2. a \in Application
      BY <1>1, <2>1 DEF Application
    <2>3. app' = [app EXCEPT ![r] = a] \/ UNCHANGED app
      BY <1>1
    <2> HIDE DEF a
    <2> QED BY <2>2, <2>3 DEF TypeOK
  <1>8. pending' \subseteq Releases /\ installed' \subseteq CRDs
    BY <1>1, <1>4 DEF TypeOK
  <1>9. faults' \in 0..MaxFaults
    BY <1>1, ConstantsAssumption DEF TypeOK
  <1> QED BY <1>1, <1>5, <1>6, <1>7, <1>8, <1>9 DEF TypeOK

\* Failing analyses, failing writes and restarts leave registry, memo, rules and
\* queue well formed.
THEOREM TypeCorrect == Spec => []TypeOK
  <1>1. Init => TypeOK
    BY ConstantsAssumption DEF Init, TypeOK
  <1>2. TypeOK /\ [Next]_vars => TypeOK'
    <2> SUFFICES ASSUME TypeOK, [Next]_vars PROVE TypeOK'
      OBVIOUS
    <2>1. CASE UNCHANGED vars
      BY <2>1 DEF vars, process, bounds, TypeOK
    <2>2. CASE Crash
      BY <2>2, ConstantsAssumption DEF Crash, TypeOK
    <2>3. ASSUME NEW r \in Releases, NEW c \in Contents, Install(r, c) PROVE TypeOK'
      BY <2>3, ConstantsAssumption DEF Install, UserOp, TypeOK
    <2>4. ASSUME NEW r \in Releases, Uninstall(r) PROVE TypeOK'
      BY <2>4, ConstantsAssumption DEF Uninstall, UserOp, TypeOK
    <2>5. ASSUME NEW r \in Releases, SkipRelease(r) \/ ForgetRelease(r) PROVE TypeOK'
      BY <2>5 DEF SkipRelease, ForgetRelease, bounds, TypeOK
    <2>6. ASSUME NEW r \in Releases, ArgoApplies(r) PROVE TypeOK'
      <3>1. app[r] \in Application
        BY <2>6 DEF ArgoApplies, TypeOK
      <3>2. \A d \in Shipped(app[r].content) : d.name \in CRDs
        BY <3>1, FindsAll DEF Application, Names
      <3> QED BY <2>6, <3>2 DEF ArgoApplies, process, bounds, TypeOK
    <2>7. ASSUME NEW r \in Releases, Wake(r) PROVE TypeOK'
      BY <2>7 DEF Wake, bounds, TypeOK
    <2>8. ASSUME NEW r \in Releases, Suspend(r) PROVE TypeOK'
      BY <2>8, ConstantsAssumption DEF Suspend, UserOp, TypeOK
    <2> QED BY <2>1, <2>2, <2>3, <2>4, <2>5, <2>6, <2>7, <2>8, SyncTyped DEF Next, Reconcile
  <1> QED BY <1>1, <1>2, PTL DEF Spec

-----------------------------------------------------------------------------

LEMMA SyncRemembers ==
    ASSUME TypeOK, OneAnalysis, NEW r \in Releases, SyncRelease(r)
    PROVE  OneAnalysis'
  <1>1. PICK c \in Contents \cup {NoContent} :
           /\ c = NoContent => memo' = memo
           /\ c # NoContent => /\ c.version = chart[r].version
                               /\ Remembered(r) \in {{}, {c}} \/ c \in Remembered(r)
                               /\ memo' = memo \cup {<<r, c>>}
    BY SyncStep
  <1>2. CASE c = NoContent
    BY <1>1, <1>2 DEF OneAnalysis
  <1>3. CASE c # NoContent
    <2> SUFFICES ASSUME NEW q \in Releases, NEW d \in Contents, NEW e \in Contents,
                        <<q, d>> \in memo', <<q, e>> \in memo', d.version = e.version
                 PROVE  d = e
      BY DEF OneAnalysis
    <2>1. CASE q # r
      BY <1>1, <1>3, <2>1 DEF OneAnalysis
    <2>2. CASE q = r
      <3>1. ASSUME NEW x \in Contents, <<r, x>> \in memo', x.version = c.version PROVE x = c
        <4>1. CASE x \in Remembered(r)
          <5>1. c \in Remembered(r)
            BY <1>1, <1>3, <4>1
          <5> QED BY <3>1, <4>1, <5>1 DEF OneAnalysis, Remembered
        <4>2. CASE x \notin Remembered(r)
          BY <1>1, <1>3, <3>1, <4>2 DEF Remembered
        <4> QED BY <4>1, <4>2
      <3>2. CASE d.version = c.version
        BY <2>2, <3>1, <3>2
      <3>3. CASE d.version # c.version
        BY <1>1, <1>3, <2>2, <3>3 DEF OneAnalysis
      <3> QED BY <3>2, <3>3
    <2> QED BY <2>1, <2>2
  <1> QED BY <1>2, <1>3

\* From then on the release's version has just the analysis the reconcile went by.
LEMMA SyncAnalysis ==
    ASSUME TypeOK, OneAnalysis, NEW r \in Releases, SyncRelease(r)
    PROVE  \E c \in Contents \cup {NoContent} :
              /\ Remembered(r)' = {c} \ {NoContent}
              /\ \A q \in Releases \ {r} : Remembered(q)' = Remembered(q)
              /\ byRelease' = [byRelease EXCEPT ![r] = Found(r, c).crds]
              /\ \/ /\ app' = [app EXCEPT ![r] = [content |-> chart[r],
                                         ignored |-> Backoff(r, Found(r, c), byRelease')]]
                    /\ pending' = pending \ {r}
                 \/ UNCHANGED <<app, pending>>
              /\ r \in pending /\ chart[r] \in Contents
              /\ UNCHANGED <<chart, suspended>>
  <1>1. PICK c \in Contents \cup {NoContent} :
           /\ c = NoContent => Remembered(r) = {} /\ memo' = memo
           /\ c # NoContent => c.version = chart[r].version /\ memo' = memo \cup {<<r, c>>}
           /\ byRelease' = [byRelease EXCEPT ![r] = Found(r, c).crds]
           /\ \/ /\ app' = [app EXCEPT ![r] = [content |-> chart[r],
                                      ignored |-> Backoff(r, Found(r, c), byRelease')]]
                 /\ pending' = pending \ {r}
              \/ UNCHANGED <<app, pending>>
           /\ r \in pending /\ chart[r] \in Contents
           /\ UNCHANGED <<chart, suspended>>
    BY SyncStep
  <1>2. OneAnalysis'
    BY SyncRemembers
  <1>3. Remembered(r)' = {c} \ {NoContent}
    <2>1. CASE c = NoContent
      BY <1>1, <2>1 DEF Remembered
    <2>2. CASE c # NoContent
      <3>1. c \in Remembered(r)'
        BY <1>1, <2>2 DEF Remembered
      <3>2. \A d \in Remembered(r)' : d = c
        BY <1>1, <1>2, <2>2 DEF Remembered, OneAnalysis
      <3> QED BY <2>2, <3>1, <3>2
    <2> QED BY <2>1, <2>2
  <1>4. \A q \in Releases \ {r} : Remembered(q)' = Remembered(q)
    BY <1>1 DEF Remembered
  <1> QED BY <1>1, <1>3, <1>4

LEMMA SyncCurrent ==
    ASSUME TypeOK, OneAnalysis, RegistryCurrent, NEW r \in Releases, SyncRelease(r)
    PROVE  RegistryCurrent'
  <1>1. PICK c \in Contents \cup {NoContent} :
           /\ Remembered(r)' = {c} \ {NoContent}
           /\ \A q \in Releases \ {r} : Remembered(q)' = Remembered(q)
           /\ byRelease' = [byRelease EXCEPT ![r] = Found(r, c).crds]
           /\ \/ /\ app' = [app EXCEPT ![r] = [content |-> chart[r],
                                      ignored |-> Backoff(r, Found(r, c), byRelease')]]
                 /\ pending' = pending \ {r}
              \/ UNCHANGED <<app, pending>>
           /\ r \in pending /\ chart[r] \in Contents
           /\ UNCHANGED <<chart, suspended>>
    BY SyncAnalysis
  <1> SUFFICES ASSUME NEW q \in Releases, q \notin pending'
               PROVE  IF chart[q] = NoContent
                      THEN app'[q] = NoApp /\ byRelease'[q] = {}
                      ELSE q \notin suspended =>
                              /\ app'[q] # NoApp /\ app'[q].content = chart[q]
                              /\ \A d \in Remembered(q)' : byRelease'[q] = Names(Shipped(d))
    BY <1>1 DEF RegistryCurrent
  <1>2. CASE q # r
    BY <1>1, <1>2 DEF RegistryCurrent, TypeOK
  <1>3. CASE q = r
    <2> DEFINE a == [content |-> chart[r], ignored |-> Backoff(r, Found(r, c), byRelease')]
    <2>1. app'[r] = a
      BY <1>1, <1>3 DEF TypeOK
    <2>2. a.content = chart[r] /\ a # NoApp
      <3>1. Backoff(r, Found(r, c), byRelease') \in SUBSET CRDs
        BY FoundTyped DEF Backoff
      <3>2. a \in Application
        BY <1>1, <3>1 DEF Application
      <3> QED BY <3>2, AbsentAssumption
    <2>3. \A d \in Remembered(r)' : byRelease'[r] = Names(Shipped(d))
      BY <1>1, FoundTyped DEF TypeOK
    <2>4. chart[r] # NoContent
      BY <1>1, AbsentAssumption
    <2> HIDE DEF a
    <2> QED BY <1>3, <2>1, <2>2, <2>3, <2>4
  <1> QED BY <1>2, <1>3

\* What the process has at rest is what the versions of the releases shipped when they
\* were analysed, through failing analyses and writes, restarts, suspensions, edits of
\* the values, and releases that come and go.
THEOREM RegistryFollows == Spec => []RegistryInvariant
  <1> DEFINE IInv == OneAnalysis /\ SuspendedExist /\ RegistryCurrent
  <1>1. Init => IInv
    BY DEF Init, RegistryCurrent, SuspendedExist, OneAnalysis
  <1>2. TypeOK /\ IInv /\ [Next]_vars => IInv'
    <2> SUFFICES ASSUME TypeOK, IInv, [Next]_vars PROVE IInv'
      OBVIOUS
    <2>1. ASSUME NEW r \in Releases, (\E c \in Contents : Install(r, c)) \/ Uninstall(r) \/ Suspend(r)
          PROVE  IInv'
      <3>1. /\ pending' = pending \cup {r} /\ UNCHANGED <<app, byRelease, memo>>
            /\ \A q \in Releases \ {r} : chart'[q] = chart[q]
            /\ \A q \in Releases \ {r} : q \notin suspended' => q \notin suspended
        BY <2>1 DEF Install, Uninstall, Suspend, UserOp, TypeOK
      <3>2. \A q \in Releases \ {r} : Remembered(q)' = Remembered(q)
        BY <3>1 DEF Remembered
      <3>3. RegistryCurrent'
        BY <3>1, <3>2 DEF RegistryCurrent
      <3>4. SuspendedExist'
        BY <2>1, AbsentAssumption DEF Install, Uninstall, Suspend, TypeOK, SuspendedExist
      <3> QED BY <3>1, <3>3, <3>4 DEF OneAnalysis
    <2>2. ASSUME NEW r \in Releases, SkipRelease(r) PROVE IInv'
      <3>1. /\ r \in suspended /\ chart[r] # NoContent
            /\ pending' = pending \ {r} /\ UNCHANGED <<chart, suspended, app, byRelease, memo>>
        BY <2>2 DEF SkipRelease, SuspendedExist
      <3>2. RegistryCurrent'
        BY <3>1 DEF RegistryCurrent, Remembered
      <3> QED BY <3>1, <3>2 DEF SuspendedExist, OneAnalysis
    <2>3. ASSUME NEW r \in Releases, ForgetRelease(r) PROVE IInv'
      <3>1. RegistryCurrent'
        BY <2>3 DEF ForgetRelease, RegistryCurrent, Remembered, TypeOK
      <3> QED BY <2>3, <3>1 DEF ForgetRelease, SuspendedExist, OneAnalysis
    <2>4. ASSUME NEW r \in Releases, ArgoApplies(r) \/ Wake(r) PROVE IInv'
      BY <2>4 DEF ArgoApplies, Wake, process, RegistryCurrent, SuspendedExist, OneAnalysis, Remembered
    <2>5. CASE Crash
      BY <2>5 DEF Crash, RegistryCurrent, SuspendedExist, OneAnalysis, Remembered
    <2>6. CASE UNCHANGED vars
      BY <2>6 DEF vars, process, RegistryCurrent, SuspendedExist, OneAnalysis, Remembered
    <2>7. ASSUME NEW r \in Releases, SyncRelease(r) PROVE IInv'
      BY <2>7, SyncCurrent, SyncRemembers DEF SyncRelease, SuspendedExist
    <2> QED BY <2>1, <2>2, <2>3, <2>4, <2>5, <2>6, <2>7 DEF Next, Reconcile
  <1> QED BY <1>1, <1>2, TypeCorrect, PTL DEF Spec, RegistryInvariant

-----------------------------------------------------------------------------

\* The rules of an Application that has settled cover what its analysis has found to
\* be oversized, existing or not.
RulesCoverOversized ==
    \A r \in Releases : Settled(r) =>
        \A c \in Remembered(r) : Large(Shipped(c)) \subseteq app[r].ignored

LEMMA SyncCovers ==
    ASSUME TypeOK, OneAnalysis, RulesCoverOversized, NEW r \in Releases, SyncRelease(r)
    PROVE  RulesCoverOversized'
  <1>1. PICK c \in Contents \cup {NoContent} :
           /\ Remembered(r)' = {c} \ {NoContent}
           /\ \A q \in Releases \ {r} : Remembered(q)' = Remembered(q)
           /\ \/ /\ app' = [app EXCEPT ![r] = [content |-> chart[r],
                                      ignored |-> Backoff(r, Found(r, c), byRelease')]]
                 /\ pending' = pending \ {r}
              \/ UNCHANGED <<app, pending>>
           /\ r \in pending
           /\ UNCHANGED <<chart, suspended>>
    BY SyncAnalysis
  <1> SUFFICES ASSUME NEW q \in Releases, Settled(q)', NEW d \in Remembered(q)'
               PROVE  Large(Shipped(d)) \subseteq app'[q].ignored
    BY DEF RulesCoverOversized
  <1>2. CASE q # r
    <2>1. app'[q] = app[q] /\ Settled(q) /\ d \in Remembered(q)
      BY <1>1, <1>2 DEF TypeOK, Settled
    <2> QED BY <2>1 DEF RulesCoverOversized
  <1>3. CASE q = r
    <2>1. app'[r] = [content |-> chart[r], ignored |-> Backoff(r, Found(r, c), byRelease')]
      BY <1>1, <1>3 DEF TypeOK, Settled
    <2>2. d = c /\ c # NoContent
      BY <1>1, <1>3
    <2>3. Found(r, c).oversized = Large(Shipped(d))
      BY <2>2, FoundTyped
    <2>4. Found(r, c).oversized \subseteq Backoff(r, Found(r, c), byRelease')
      BY FoundTyped DEF Backoff
    <2> QED BY <1>3, <2>1, <2>3, <2>4
  <1> QED BY <1>2, <1>3

\* No settled Application ever touches an oversized CRD that exists, be it elected
\* to own it or not, if its analysis has seen it: through failing analyses, creations
\* and writes, restarts, edits of the values, and releases that come and go.
THEOREM OversizedSafe == Spec => []OversizedLeftAlone
  <1>1. Init => RulesCoverOversized
    BY DEF Init, RulesCoverOversized, Settled
  <1>2. TypeOK /\ RegistryInvariant /\ RulesCoverOversized /\ [Next]_vars => RulesCoverOversized'
    <2> SUFFICES ASSUME TypeOK, RegistryInvariant, RulesCoverOversized, [Next]_vars
                 PROVE  RulesCoverOversized'
      OBVIOUS
    <2>1. ASSUME UNCHANGED <<chart, app, memo>>,
                 pending \cup suspended \subseteq pending' \cup suspended'
          PROVE  RulesCoverOversized'
      BY <2>1 DEF RulesCoverOversized, Settled, Remembered
    <2>2. ASSUME NEW r \in Releases, ForgetRelease(r) PROVE RulesCoverOversized'
      <3>1. \A q \in Releases : Settled(q)' => q # r /\ Settled(q) /\ app'[q] = app[q]
        BY <2>2 DEF ForgetRelease, Settled, Remembered, TypeOK
      <3> QED BY <2>2, <3>1 DEF ForgetRelease, RulesCoverOversized, Remembered
    <2>3. ASSUME NEW r \in Releases, SkipRelease(r) PROVE RulesCoverOversized'
      BY <2>1, <2>3 DEF SkipRelease
    <2>4. ASSUME NEW r \in Releases, (\E c \in Contents : Install(r, c)) \/ Uninstall(r) \/ Suspend(r)
          PROVE  RulesCoverOversized'
      <3>1. /\ pending' = pending \cup {r} /\ UNCHANGED <<app, memo>>
            /\ \A q \in Releases \ {r} : chart'[q] = chart[q]
            /\ \A q \in Releases \ {r} : q \notin suspended' => q \notin suspended
        BY <2>4 DEF Install, Uninstall, Suspend, UserOp, TypeOK
      <3>2. \A q \in Releases : Settled(q)' => q # r /\ Settled(q) /\ Remembered(q)' = Remembered(q)
        BY <3>1 DEF Settled, Remembered
      <3> QED BY <3>1, <3>2 DEF RulesCoverOversized
    <2>5. ASSUME NEW r \in Releases, ArgoApplies(r) \/ Wake(r) PROVE RulesCoverOversized'
      BY <2>1, <2>5 DEF ArgoApplies, Wake, process
    <2>6. CASE Crash
      BY <2>6 DEF Crash, RulesCoverOversized, Settled, Remembered
    <2>7. CASE UNCHANGED vars
      BY <2>1, <2>7 DEF vars, process
    <2> QED BY <2>2, <2>3, <2>4, <2>5, <2>6, <2>7, SyncCovers DEF Next, Reconcile, RegistryInvariant
  <1>3. TypeOK /\ RegistryInvariant /\ RulesCoverOversized => OversizedLeftAlone
    <2> SUFFICES ASSUME TypeOK, RegistryInvariant, RulesCoverOversized,
                        NEW r \in Releases, Settled(r),
                        NEW crd \in Large(Shipped(app[r].content)), crd \notin Misjudged(r)
                 PROVE  crd \in app[r].ignored
      BY DEF OversizedLeftAlone
    <2>1. app[r].content = chart[r] /\ chart[r] \in Contents
      BY DEF Settled, RegistryInvariant, RegistryCurrent, TypeOK
    <2>2. PICK c \in Remembered(r) : TRUE
      BY DEF Settled
    <2>3. crd \in CRDs
      BY <2>1, FindsAll
    <2>4. {d \in Shipped(c) : d.name = crd} = {d \in Shipped(chart[r]) : d.name = crd}
      BY <2>2, <2>3 DEF Misjudged
    <2>5. crd \in Large(Shipped(c))
      BY <2>1, <2>4 DEF Large, Names
    <2> QED BY <2>2, <2>5 DEF RulesCoverOversized
  <1> QED BY <1>1, <1>2, <1>3, TypeCorrect, RegistryFollows, PTL DEF Spec

-----------------------------------------------------------------------------

\* Whoever has won the election, for whichever charts and however many releases: once
\* they are agreed, a CRD that no release has oversized is written by one Application.
THEOREM AgreedWriters == Spec => []AgreementElects
  <1>1. TypeOK => AgreementElects
    <2> SUFFICES ASSUME TypeOK, Agreed, NEW crd \in CRDs, Deployed(crd)
                 PROVE  Cardinality(Writers(crd)) = 1
      BY DEF AgreementElects
    <2>1. ASSUME NEW r \in Releases, app[r] # NoApp
          PROVE  /\ app[r].content = chart[r] /\ chart[r] \in Contents
                 /\ byRelease[r] = Names(Shipped(chart[r]))
                 /\ crd \in byRelease[r] =>
                       (crd \notin app[r].ignored <=> Owns(r, crd, byRelease))
      <3>1. chart[r] # NoContent /\ chart[r] \in Contents
        BY <2>1 DEF Agreed, TypeOK
      <3> DEFINE found == helmCRDNames(renderChart(chart[r]))
      <3>2. /\ byRelease[r] = found.crds
            /\ app[r] = [content |-> chart[r], ignored |-> Backoff(r, found, byRelease)]
        BY <3>1 DEF Agreed
      <3>3. found.crds = Names(Shipped(chart[r])) /\ crd \notin found.oversized
        BY <3>1, FindsAll DEF Deployed
      <3> HIDE DEF found
      <3> QED BY <3>1, <3>2, <3>3 DEF Backoff
    <2>2. ASSUME NEW r \in Releases, crd \in byRelease[r] PROVE app[r] # NoApp
      <3>1. chart[r] # NoContent /\ chart[r] \in Contents
        BY <2>2 DEF Agreed, TypeOK
      <3> DEFINE found == helmCRDNames(renderChart(chart[r]))
                 a == [content |-> chart[r], ignored |-> Backoff(r, found, byRelease)]
      <3>2. Backoff(r, found, byRelease) \in SUBSET CRDs
        BY <3>1, FindsAll DEF Backoff
      <3>3. a \in Application
        BY <3>1, <3>2 DEF Application
      <3>4. app[r] = a
        BY <3>1 DEF Agreed
      <3> QED BY <3>3, <3>4, AbsentAssumption
    <2>3. byRelease \in [Releases -> SUBSET CRDs]
      BY DEF TypeOK
    <2>4. PICK r \in Releases : Owns(r, crd, byRelease)
      <3>1. PICK q \in Releases : app[q] # NoApp /\ crd \in Names(Shipped(app[q].content))
        BY DEF Deployed
      <3> QED BY <2>1, <2>3, <3>1, ElectionWon
    <2>5. Writers(crd) = {r}
      <3>1. r \in Writers(crd)
        BY <2>1, <2>2, <2>4 DEF Writers, Owns
      <3>2. ASSUME NEW q \in Writers(crd) PROVE q = r
        BY <2>1, <2>3, <2>4, <3>2, ElectionUnique DEF Writers
      <3> QED BY <3>1, <3>2
    <2> QED BY <2>5, FS_Singleton
  <1> QED BY <1>1, TypeCorrect, PTL

Lasts == Agreed /\ UNCHANGED <<userOps, crashes>> => Agreed'

\* Only users and restarts put an end to agreement: no reconcile, in whichever order
\* and however often, and no failing call changes an Application or the registry.
THEOREM AgreementStays == Spec => AgreementLasts
  <1>1. TypeOK /\ RegistryInvariant /\ [Next]_vars => Lasts
    <2> SUFFICES ASSUME TypeOK, RegistryInvariant, [Next]_vars, Agreed, UNCHANGED <<userOps, crashes>>
                 PROVE  Agreed'
      BY DEF Lasts
    <2>1. ASSUME UNCHANGED <<chart, app, byRelease>>, memo \subseteq memo' PROVE Agreed'
      BY <2>1 DEF Agreed
    <2>2. ASSUME NEW r \in Releases, SyncRelease(r) PROVE Agreed'
      <3>1. /\ chart[r] # NoContent /\ <<r, chart[r]>> \in memo
            /\ Found(r, chart[r]) = helmCRDNames(renderChart(chart[r]))
            /\ byRelease[r] = Found(r, chart[r]).crds
            /\ app[r] = [content |-> chart[r],
                         ignored |-> Backoff(r, Found(r, chart[r]), byRelease)]
        BY <2>2 DEF SyncRelease, Agreed, Found
      <3>2. Remembered(r) = {chart[r]}
        BY <3>1 DEF RegistryInvariant, OneAnalysis, Remembered, TypeOK
      <3>3. /\ memo \subseteq memo' /\ UNCHANGED chart
            /\ byRelease' = [byRelease EXCEPT ![r] = Found(r, chart[r]).crds]
            /\ \/ app' = [app EXCEPT ![r] = [content |-> chart[r],
                             ignored |-> Backoff(r, Found(r, chart[r]), byRelease')]]
               \/ UNCHANGED app
        BY <2>2, <3>2 DEF SyncRelease, Analyses
      <3>4. byRelease' = byRelease
        BY <3>1, <3>3 DEF TypeOK
      <3>5. app' = app
        BY <3>1, <3>3, <3>4 DEF TypeOK
      <3> QED BY <2>1, <3>3, <3>4, <3>5
    <2>3. ASSUME NEW r \in Releases, ForgetRelease(r) PROVE Agreed'
      <3>1. app[r] = NoApp /\ byRelease[r] = {}
        BY <2>3 DEF ForgetRelease, Agreed
      <3> QED BY <2>1, <2>3, <3>1 DEF ForgetRelease, TypeOK
    <2>4. ASSUME NEW r \in Releases, SkipRelease(r) \/ ArgoApplies(r) \/ Wake(r) PROVE Agreed'
      BY <2>1, <2>4 DEF SkipRelease, ArgoApplies, Wake, process
    <2>5. ASSUME NEW r \in Releases, (\E c \in Contents : Install(r, c)) \/ Uninstall(r) \/ Suspend(r)
          PROVE  FALSE
      BY <2>5 DEF Install, Uninstall, Suspend, UserOp, TypeOK
    <2>6. ~Crash
      BY DEF Crash, TypeOK
    <2>7. CASE UNCHANGED vars
      BY <2>1, <2>7 DEF vars, process
    <2> QED BY <2>2, <2>3, <2>4, <2>5, <2>6, <2>7 DEF Next, Reconcile
  <1>2. TypeOK /\ RegistryInvariant /\ [Next]_vars => [Lasts]_vars
    BY <1>1
  <1>3. Spec => [][Lasts]_vars
    BY <1>2, TypeCorrect, RegistryFollows, PTL DEF Spec
  <1> QED BY <1>3, PTL DEF AgreementLasts, Lasts
=============================================================================
