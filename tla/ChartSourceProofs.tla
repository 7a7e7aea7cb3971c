-------------------------- MODULE ChartSourceProofs --------------------------
(***************************************************************************)
(* What the analysis of a chart finds, for any chart, and what of it the   *)
(* Application of a release has, whatever happens to its sources.          *)
(***************************************************************************)
EXTENDS ChartSource, SequenceTheorems, FiniteSetTheorems, WellFoundedInduction, TLAPS

(* Induction over a set of naturals: without it there is a least natural outside. *)
LEMMA InductiveSet ==
    ASSUME NEW S, 0 \in S, \A n \in Nat : n \in S => n + 1 \in S
    PROVE  \A n \in Nat : n \in S
  <1> SUFFICES ASSUME Nat \ S # {} PROVE FALSE
    OBVIOUS
  <1>1. PICK x \in Nat \ S : \A y \in Nat \ S : <<y, x>> \notin OpToRel(<, Nat)
    BY NatLessThanWellFounded, WFMin
  <1>2. OpToRel(<, Nat) = {ss \in Nat \X Nat : ss[1] < ss[2]}
    BY DEF OpToRel
  <1>3. x # 0 /\ x - 1 \in Nat /\ x - 1 < x
    OBVIOUS
  <1>4. <<x - 1, x>> \in Nat \X Nat /\ <<x - 1, x>>[1] = x - 1 /\ <<x - 1, x>>[2] = x
    BY <1>3
  <1>5. <<x - 1, x>> \in OpToRel(<, Nat)
    BY <1>2, <1>3, <1>4, Zenon
  <1>6. x - 1 \in S
    BY <1>1, <1>3, <1>5
  <1> QED BY <1>3, <1>6

-----------------------------------------------------------------------------
(* The merge of the rules, one after the other. *)

Merged(m, rules) ==
    m = [n \in 0 .. Len(rules) |-> IF n = 0 THEN <<>> ELSE Merge(m[n - 1], rules[n])]

\* The merge up to n can be had from that up to n - 1, hence all of them.
LEMMA MergedExists ==
    ASSUME NEW rules, Len(rules) \in Nat PROVE \E m : Merged(m, rules)
  <1> DEFINE UpTo(m, k) ==
               m = [n \in 0 .. k |-> IF n = 0 THEN <<>> ELSE Merge(m[n - 1], rules[n])]
             S == {k \in Nat : \E m : UpTo(m, k)}
  <1>1. 0 \in S
    <2>1. UpTo([n \in 0 .. 0 |-> <<>>], 0)
      OBVIOUS
    <2> QED BY <2>1
  <1>2. ASSUME NEW k \in Nat, k \in S PROVE k + 1 \in S
    <2>1. PICK m : UpTo(m, k)
      BY <1>2
    <2> DEFINE h == [n \in 0 .. k + 1 |-> IF n = k + 1 THEN Merge(m[k], rules[k + 1]) ELSE m[n]]
    <2>2. \A n \in 0 .. k + 1 : h[n] = IF n = 0 THEN <<>> ELSE Merge(h[n - 1], rules[n])
      <3> SUFFICES ASSUME NEW n \in 0 .. k + 1
                   PROVE  h[n] = IF n = 0 THEN <<>> ELSE Merge(h[n - 1], rules[n])
        OBVIOUS
      <3>1. CASE n = 0
        <4>1. h[0] = m[0] /\ m[0] = <<>>
          BY <2>1
        <4> QED BY <3>1, <4>1
      <3>2. CASE n = k + 1
        <4>1. h[n] = Merge(m[k], rules[k + 1]) /\ h[n - 1] = m[k]
          BY <3>2
        <4> QED BY <3>2, <4>1
      <3>3. CASE n \in 1 .. k
        <4>1. h[n] = m[n] /\ h[n - 1] = m[n - 1] /\ n # 0
          BY <3>3
        <4>2. m[n] = Merge(m[n - 1], rules[n])
          BY <2>1, <3>3
        <4> HIDE DEF h
        <4> QED BY <4>1, <4>2
      <3> QED BY <3>1, <3>2, <3>3
    <2>3. UpTo(h, k + 1)
      <3>1. h = [n \in 0 .. k + 1 |-> h[n]]
        OBVIOUS
      <3> HIDE DEF h
      <3> QED BY <2>2, <3>1
    <2> HIDE DEF h, UpTo
    <2> QED BY <2>3
  <1>3. Len(rules) \in S
    <2> HIDE DEF S
    <2> QED BY <1>1, <1>2, InductiveSet
  <1> QED BY <1>3 DEF Merged

LEMMA DedupeUnfolds ==
    ASSUME NEW rules, Len(rules) \in Nat
    PROVE  \E m : Merged(m, rules) /\ dedupeRules(rules) = m[Len(rules)]
  <1> DEFINE m == CHOOSE g : g = [n \in 0 .. Len(rules) |->
                                    IF n = 0 THEN <<>> ELSE Merge(g[n - 1], rules[n])]
  <1>1. Merged(m, rules)
    <2>1. \E g : g = [n \in 0 .. Len(rules) |->
                        IF n = 0 THEN <<>> ELSE Merge(g[n - 1], rules[n])]
      BY MergedExists DEF Merged
    <2> QED BY <2>1, Zenon DEF Merged
  <1>2. dedupeRules(rules) = m[Len(rules)]
    BY DEF dedupeRules
  <1> QED BY <1>1, <1>2

Rules(K, P) == [res : K, paths : SUBSET P]

Covers(rules, k, p) == \E i \in DOMAIN rules : rules[i].res = k /\ p \in rules[i].paths

Single(rules) == \A i, j \in DOMAIN rules : rules[i].res = rules[j].res => i = j

LEMMA MergeStep ==
    ASSUME NEW K, NEW P, NEW out \in Seq(Rules(K, P)), Single(out), NEW r \in Rules(K, P)
    PROVE  /\ Merge(out, r) \in Seq(Rules(K, P))
           /\ Single(Merge(out, r))
           /\ \A k, p : Covers(Merge(out, r), k, p) <=>
                           Covers(out, k, p) \/ (r.res = k /\ p \in r.paths)
  <1>1. r.res \in K /\ r.paths \in SUBSET P
    BY DEF Rules
  <1>2. \A i \in DOMAIN out : /\ out[i] \in Rules(K, P)
                              /\ out[i].res \in K /\ out[i].paths \in SUBSET P
    <2>1. \A i \in DOMAIN out : out[i] \in Rules(K, P)
      OBVIOUS
    <2> QED BY <2>1 DEF Rules
  <1>3. DOMAIN out = 1 .. Len(out) /\ Len(out) \in Nat
    OBVIOUS
  <1>4. CASE Has(out, r.res)
    <2> DEFINE both(i) == [out[i] EXCEPT !.paths = @ \cup r.paths]
               new == [i \in DOMAIN out |-> IF out[i].res = r.res THEN both(i) ELSE out[i]]
    <2>1. Merge(out, r) = new
      BY <1>4 DEF Merge
    <2>2. \A i \in DOMAIN out : /\ both(i) \in Rules(K, P)
                                /\ both(i).res = out[i].res
                                /\ both(i).paths = out[i].paths \cup r.paths
      BY <1>1, <1>2 DEF Rules
    <2>3. DOMAIN new = DOMAIN out
      OBVIOUS
    <2>4. \A i \in DOMAIN out :
             /\ new[i] \in Rules(K, P)
             /\ new[i].res = out[i].res
             /\ out[i].res = r.res => new[i].paths = out[i].paths \cup r.paths
             /\ out[i].res # r.res => new[i].paths = out[i].paths
      <3> HIDE DEF both
      <3> QED BY <1>2, <2>2
    <2> HIDE DEF new
    <2>5. new \in Seq(Rules(K, P))
      <3>1. new \in [1 .. Len(out) -> Rules(K, P)]
        <4>1. new = [i \in DOMAIN out |-> new[i]]
          BY DEF new
        <4> QED BY <1>3, <2>4, <4>1
      <3> QED BY <1>3, <3>1, SeqDef
    <2>6. Single(new)
      BY <2>3, <2>4 DEF Single
    <2>7. PICK j \in DOMAIN out : out[j].res = r.res
      BY <1>4 DEF Has
    <2>8. ASSUME NEW k, NEW p
          PROVE  Covers(new, k, p) <=> Covers(out, k, p) \/ (r.res = k /\ p \in r.paths)
      BY <2>3, <2>4, <2>7 DEF Covers
    <2> QED BY <2>1, <2>5, <2>6, <2>8
  <1>5. CASE ~Has(out, r.res)
    <2> DEFINE new == Append(out, r)
    <2>1. Merge(out, r) = new
      BY <1>5 DEF Merge
    <2>2. /\ new \in Seq(Rules(K, P))
          /\ DOMAIN new = 1 .. Len(out) + 1
          /\ \A i \in DOMAIN out : new[i] = out[i]
          /\ new[Len(out) + 1] = r
      BY AppendProperties
    <2> HIDE DEF new
    <2>3. \A i \in DOMAIN new : i \in DOMAIN out \/ i = Len(out) + 1
      BY <1>3, <2>2
    <2>4. \A i \in DOMAIN out : i \in DOMAIN new /\ i # Len(out) + 1 /\ out[i].res # r.res
      BY <1>3, <1>5, <2>2 DEF Has
    <2>5. Single(new)
      BY <2>2, <2>3, <2>4 DEF Single
    <2>6. ASSUME NEW k, NEW p
          PROVE  Covers(new, k, p) <=> Covers(out, k, p) \/ (r.res = k /\ p \in r.paths)
      <3>1. Len(out) + 1 \in DOMAIN new
        BY <1>3, <2>2
      <3> QED BY <2>2, <2>3, <2>4, <3>1 DEF Covers
    <2> QED BY <2>1, <2>2, <2>5, <2>6
  <1> QED BY <1>4, <1>5

\* Nothing is lost in the merge, nothing is added, and there is one rule for each resource.
LEMMA DedupeKeeps ==
    ASSUME NEW K, NEW P, NEW rules \in Seq(Rules(K, P))
    PROVE  /\ dedupeRules(rules) \in Seq(Rules(K, P))
           /\ Single(dedupeRules(rules))
           /\ \A k, p : Covers(dedupeRules(rules), k, p) <=> Covers(rules, k, p)
  <1>1. Len(rules) \in Nat /\ DOMAIN rules = 1 .. Len(rules)
    OBVIOUS
  <1>2. PICK m : Merged(m, rules) /\ dedupeRules(rules) = m[Len(rules)]
    BY <1>1, DedupeUnfolds
  <1> DEFINE Sofar(n, k, p) == \E i \in 1 .. n : rules[i].res = k /\ p \in rules[i].paths
             Good(n) == /\ m[n] \in Seq(Rules(K, P))
                        /\ Single(m[n])
                        /\ \A k, p : Covers(m[n], k, p) <=> Sofar(n, k, p)
             S == {n \in Nat : n =< Len(rules) => Good(n)}
  <1>3. 0 \in S
    <2>1. m[0] = <<>> /\ <<>> \in Seq(Rules(K, P)) /\ DOMAIN <<>> = {}
      BY <1>1, <1>2 DEF Merged
    <2>2. Single(m[0]) /\ \A k, p : ~Covers(m[0], k, p) /\ ~Sofar(0, k, p)
      BY <2>1 DEF Single, Covers
    <2> QED BY <2>1, <2>2
  <1>4. ASSUME NEW n \in Nat, n \in S PROVE n + 1 \in S
    <2> SUFFICES ASSUME n + 1 =< Len(rules) PROVE Good(n + 1)
      OBVIOUS
    <2>1. Good(n)
      BY <1>1, <1>4
    <2>2. m[n + 1] = Merge(m[n], rules[n + 1])
      BY <1>1, <1>2 DEF Merged
    <2>3. rules[n + 1] \in Rules(K, P)
      BY <1>1
    <2>4. \A k, p : Sofar(n + 1, k, p) <=>
                       Sofar(n, k, p) \/ (rules[n + 1].res = k /\ p \in rules[n + 1].paths)
      OBVIOUS
    <2> HIDE DEF Sofar
    <2> DEFINE out == m[n]  r == rules[n + 1]
    <2>5. out \in Seq(Rules(K, P)) /\ Single(out) /\ r \in Rules(K, P)
      BY <2>1, <2>3
    <2> HIDE DEF out, r
    <2>6. /\ Merge(out, r) \in Seq(Rules(K, P))
          /\ Single(Merge(out, r))
          /\ \A k, p : Covers(Merge(out, r), k, p) <=>
                          Covers(out, k, p) \/ (r.res = k /\ p \in r.paths)
      BY <2>5, MergeStep
    <2> QED BY <2>1, <2>2, <2>4, <2>6 DEF out, r
  <1>5. Good(Len(rules))
    <2>1. Len(rules) \in S
      <3> HIDE DEF S
      <3> QED BY <1>1, <1>3, <1>4, InductiveSet
    <2> QED BY <1>1, <2>1
  <1>6. \A k, p : Sofar(Len(rules), k, p) <=> Covers(rules, k, p)
    BY <1>1 DEF Covers
  <1> HIDE DEF Sofar
  <1> QED BY <1>2, <1>5, <1>6, Zenon

-----------------------------------------------------------------------------
(* The rules of one pass. *)

LEMMA Listed ==
    ASSUME NEW T, IsFiniteSet(T)
    PROVE  /\ SetToSeq(T) \in Seq(T)
           /\ \A t \in T : \E i \in DOMAIN SetToSeq(T) : SetToSeq(T)[i] = t
  <1> DEFINE n == Cardinality(T)  s == SetToSeq(T)
  <1>1. n \in Nat /\ ExistsBijection(1 .. n, T)
    BY FS_CardinalityType
  <1>2. PICK f : f \in [1 .. n -> T] /\ IsInjective(f)
    BY <1>1, Zenon DEF ExistsBijection, Bijection, Injection
  <1>3. s \in [1 .. n -> T] /\ IsInjective(s)
    <2>1. s = CHOOSE g \in [1 .. n -> T] : IsInjective(g)
      BY DEF SetToSeq
    <2> HIDE DEF s
    <2> QED BY <1>2, <2>1, Zenon
  <1>4. IsFiniteSet(1 .. n) /\ Cardinality(1 .. n) = n
    BY <1>1, FS_Interval
  <1> HIDE DEF s
  <1>5. s \in Injection(1 .. n, T)
    BY <1>3, Zenon DEF Injection
  <1>6. s \in Surjection(1 .. n, T)
    BY <1>4, <1>5, FS_Injection
  <1>7. \A t \in T : \E i \in DOMAIN s : s[i] = t
    BY <1>3, <1>6 DEF Surjection
  <1>8. s \in Seq(T)
    BY <1>1, <1>3, SeqDef
  <1> QED BY <1>7, <1>8 DEF s

LEMMA RulesForPaths ==
    ASSUME NEW K, NEW P, NEW paths, DOMAIN paths \subseteq K, IsFiniteSet(DOMAIN paths),
           \A k \in DOMAIN paths : paths[k] \in SUBSET P
    PROVE  /\ RulesFor(paths) \in Seq(Rules(K, P))
           /\ \A k, p : Covers(RulesFor(paths), k, p) <=> k \in DOMAIN paths /\ p \in paths[k]
  <1> DEFINE D == {k \in DOMAIN paths : paths[k] # {}}
             rule(k) == [res |-> k, paths |-> paths[k]]
             T == {rule(k) : k \in D}
             s == SetToSeq(T)
             f == [k \in D |-> rule(k)]
  <1>1. IsFiniteSet(T)
    <2>1. IsFiniteSet(D)
      BY FS_Subset
    <2>2. f \in Surjection(D, T)
      BY DEF Surjection
    <2> QED BY <2>1, <2>2, FS_Surjection
  <1>2. s \in Seq(T) /\ \A t \in T : \E i \in DOMAIN s : s[i] = t
    BY <1>1, Listed
  <1>3. RulesFor(paths) = s
    BY DEF RulesFor
  <1>4. \A k \in D : rule(k) \in Rules(K, P) /\ rule(k).res = k /\ rule(k).paths = paths[k]
    BY DEF Rules
  <1>5. s \in Seq(Rules(K, P))
    <2>1. T \subseteq Rules(K, P)
      BY <1>4
    <2> HIDE DEF T, s
    <2> QED BY <1>2, <2>1
  <1>6. ASSUME NEW k, NEW p
        PROVE  Covers(s, k, p) <=> k \in DOMAIN paths /\ p \in paths[k]
    <2> HIDE DEF s
    <2>1. ASSUME NEW i \in DOMAIN s, s[i].res = k, p \in s[i].paths
          PROVE  k \in DOMAIN paths /\ p \in paths[k]
      <3>1. PICK j \in D : s[i] = rule(j)
        <4>1. s[i] \in T
          <5> HIDE DEF T
          <5> QED BY <1>2
        <4> QED BY <4>1
      <3> HIDE DEF rule
      <3> QED BY <1>4, <2>1, <3>1
    <2>2. ASSUME k \in DOMAIN paths, p \in paths[k] PROVE Covers(s, k, p)
      <3>1. k \in D /\ rule(k) \in T
        BY <2>2
      <3>2. PICK i \in DOMAIN s : s[i] = rule(k)
        BY <1>2, <3>1
      <3> HIDE DEF rule, D, T
      <3> QED BY <1>4, <2>2, <3>1, <3>2 DEF Covers
    <2> QED BY <2>1, <2>2 DEF Covers
  <1> HIDE DEF s
  <1> QED BY <1>3, <1>5, <1>6

LEMMA CoversConcat ==
    ASSUME NEW K, NEW P, NEW a \in Seq(Rules(K, P)), NEW b \in Seq(Rules(K, P))
    PROVE  /\ a \o b \in Seq(Rules(K, P))
           /\ \A k, p : Covers(a \o b, k, p) <=> Covers(a, k, p) \/ Covers(b, k, p)
  <1> DEFINE c == a \o b
  <1>1. /\ c \in Seq(Rules(K, P)) /\ Len(c) = Len(a) + Len(b)
        /\ \A i \in 1 .. Len(a) + Len(b) : c[i] = IF i <= Len(a) THEN a[i] ELSE b[i - Len(a)]
    BY ConcatProperties
  <1>2. /\ DOMAIN a = 1 .. Len(a) /\ DOMAIN b = 1 .. Len(b) /\ DOMAIN c = 1 .. Len(a) + Len(b)
        /\ Len(a) \in Nat /\ Len(b) \in Nat
    BY <1>1
  <1> HIDE DEF c
  <1>3. ASSUME NEW k, NEW p PROVE Covers(c, k, p) <=> Covers(a, k, p) \/ Covers(b, k, p)
    <2>1. ASSUME NEW i \in DOMAIN a PROVE i \in DOMAIN c /\ c[i] = a[i]
      BY <1>1, <1>2
    <2>2. ASSUME NEW i \in DOMAIN b PROVE i + Len(a) \in DOMAIN c /\ c[i + Len(a)] = b[i]
      BY <1>1, <1>2
    <2>3. ASSUME NEW i \in DOMAIN c
          PROVE  (i \in DOMAIN a /\ c[i] = a[i]) \/ (i - Len(a) \in DOMAIN b /\ c[i] = b[i - Len(a)])
      BY <1>1, <1>2
    <2> QED BY <2>1, <2>2, <2>3 DEF Covers
  <1> QED BY <1>1, <1>3 DEF c

\* The paths the analysis of a chart may come up with.
PathsOf(pair) == Paths \cup {Labels, Annotations, BinaryData}
                 \cup UNION {pair[1][k].nulls : k \in DOMAIN pair[1]}

\* What the analysis has to say, rule by rule.
Found(pair, exact, k, p) ==
    /\ k \in DOMAIN pair[1]
    /\ \/ k \in DOMAIN pair[2] /\ p \in Generated(pair[1][k], pair[2][k])
       \/ Foreign(pair[1][k], exact) /\ p \in {Spec_, Labels, Annotations}
       \/ p \in pair[1][k].nulls
       \/ pair[1][k].lookup /\ p \in Seeded(pair[1][k])

LEMMA DetectFinds ==
    ASSUME NEW pair, IsChart(pair), NEW exact
    PROVE  /\ detect(pair, exact) \in Seq(Rules(DOMAIN pair[1], PathsOf(pair)))
           /\ Single(detect(pair, exact))
           /\ \A k, p : Covers(detect(pair, exact), k, p) <=> Found(pair, exact, k, p)
  <1> DEFINE first == pair[1]  second == pair[2]  K == DOMAIN first  P == PathsOf(pair)
             a == findIgnoreDifferences(first, second)
             b == detectForeignChartResources(first, exact)
             c == nullFieldRules(first)
             d == lookupGuardedRules(first)
  <1>1. /\ IsFiniteSet(K)
        /\ Paths \subseteq P /\ {Labels, Annotations, Spec_, Data, StringData, BinaryData} \subseteq P
        /\ \A k \in K : first[k].nulls \subseteq P
    <2>1. IsFiniteSet(K)
      BY DEF IsChart
    <2>2. {Spec_, Data, StringData} \subseteq Paths
      BY DEF Paths
    <2> QED BY <2>1, <2>2 DEF PathsOf
  <1>2. /\ a \in Seq(Rules(K, P))
        /\ \A k, p : Covers(a, k, p) <=>
                        k \in K \cap DOMAIN second /\ p \in Generated(first[k], second[k])
    <2> DEFINE paths == [k \in K \cap DOMAIN second |-> Generated(first[k], second[k])]
    <2>1. DOMAIN paths = K \cap DOMAIN second /\ DOMAIN paths \subseteq K
      OBVIOUS
    <2>2. \A k \in DOMAIN paths : /\ paths[k] = Generated(first[k], second[k])
                                  /\ paths[k] \in SUBSET P
      BY <1>1 DEF Generated
    <2>3. IsFiniteSet(DOMAIN paths)
      BY <1>1, <2>1, FS_Subset
    <2>4. a = RulesFor(paths)
      BY DEF findIgnoreDifferences
    <2> HIDE DEF paths, a, K, P
    <2> QED BY <2>1, <2>2, <2>3, <2>4, RulesForPaths
  <1>3. /\ b \in Seq(Rules(K, P))
        /\ \A k, p : Covers(b, k, p) <=>
                        k \in K /\ Foreign(first[k], exact) /\ p \in {Spec_, Labels, Annotations}
    <2> DEFINE paths == [k \in K |-> IF Foreign(first[k], exact)
                                     THEN {Spec_, Labels, Annotations} ELSE {}]
    <2>1. DOMAIN paths = K
      OBVIOUS
    <2>2. \A k \in K : /\ paths[k] \in SUBSET P
                       /\ \A p : p \in paths[k] <=>
                                    Foreign(first[k], exact) /\ p \in {Spec_, Labels, Annotations}
      BY <1>1
    <2>3. b = RulesFor(paths)
      BY DEF detectForeignChartResources
    <2> HIDE DEF paths, b, K, P
    <2> QED BY <1>1, <2>1, <2>2, <2>3, RulesForPaths
  <1>4. /\ c \in Seq(Rules(K, P))
        /\ \A k, p : Covers(c, k, p) <=> k \in K /\ p \in first[k].nulls
    <2> DEFINE paths == [k \in K |-> first[k].nulls]
    <2>1. DOMAIN paths = K
      OBVIOUS
    <2>2. \A k \in K : paths[k] \in SUBSET P /\ paths[k] = first[k].nulls
      BY <1>1
    <2>3. c = RulesFor(paths)
      BY DEF nullFieldRules
    <2> HIDE DEF paths, c, K, P
    <2> QED BY <1>1, <2>1, <2>2, <2>3, RulesForPaths
  <1>5. /\ d \in Seq(Rules(K, P))
        /\ \A k, p : Covers(d, k, p) <=> k \in K /\ first[k].lookup /\ p \in Seeded(first[k])
    <2> DEFINE paths == [k \in K |-> IF first[k].lookup THEN Seeded(first[k]) ELSE {}]
    <2>1. DOMAIN paths = K
      OBVIOUS
    <2>2. \A k \in K : Seeded(first[k]) \in SUBSET P
      BY <1>1 DEF Seeded
    <2>3. \A k \in K : /\ paths[k] \in SUBSET P
                       /\ \A p : p \in paths[k] <=> first[k].lookup /\ p \in Seeded(first[k])
      BY <2>2
    <2>4. d = RulesFor(paths)
      BY DEF lookupGuardedRules
    <2> HIDE DEF paths, d, K, P
    <2> QED BY <1>1, <2>1, <2>3, <2>4, RulesForPaths
  <1> DEFINE ab == a \o b  abc == ab \o c  all == abc \o d
  <1>6. detect(pair, exact) = dedupeRules(all)
    BY DEF detect
  <1> HIDE DEF a, b, c, d, K, P
  <1>7. /\ all \in Seq(Rules(K, P))
        /\ \A k, p : Covers(all, k, p) <=>
                        \/ Covers(a, k, p) \/ Covers(b, k, p) \/ Covers(c, k, p) \/ Covers(d, k, p)
    <2>1. /\ ab \in Seq(Rules(K, P))
          /\ \A k, p : Covers(ab, k, p) <=> Covers(a, k, p) \/ Covers(b, k, p)
      BY <1>2, <1>3, CoversConcat
    <2> HIDE DEF ab
    <2>2. /\ abc \in Seq(Rules(K, P))
          /\ \A k, p : Covers(abc, k, p) <=> Covers(ab, k, p) \/ Covers(c, k, p)
      BY <1>4, <2>1, CoversConcat
    <2> HIDE DEF abc
    <2>3. /\ all \in Seq(Rules(K, P))
          /\ \A k, p : Covers(all, k, p) <=> Covers(abc, k, p) \/ Covers(d, k, p)
      BY <1>5, <2>2, CoversConcat
    <2> QED BY <2>1, <2>2, <2>3
  <1> HIDE DEF all
  <1>8. /\ detect(pair, exact) \in Seq(Rules(K, P))
        /\ Single(detect(pair, exact))
        /\ \A k, p : Covers(detect(pair, exact), k, p) <=> Covers(all, k, p)
    BY <1>6, <1>7, DedupeKeeps
  <1>9. \A k, p : Found(pair, exact, k, p) <=>
                    \/ Covers(a, k, p) \/ Covers(b, k, p) \/ Covers(c, k, p) \/ Covers(d, k, p)
    BY <1>2, <1>3, <1>4, <1>5 DEF Found, K
  <1> QED BY <1>7, <1>8, <1>9 DEF K, P

-----------------------------------------------------------------------------
(* Which path is which: by its length, and if it is a single key by that. *)

LEMMA LastOfConcat ==
    ASSUME NEW S, NEW s \in Seq(S), NEW k \in S
    PROVE  Len(s \o <<k>>) = Len(s) + 1 /\ Last(s \o <<k>>) = k
  <1>1. <<k>> \in Seq(S) /\ Len(<<k>>) = 1 /\ <<k>>[1] = k
    OBVIOUS
  <1> DEFINE t == <<k>>
  <1> HIDE DEF t
  <1>2. /\ Len(s \o t) = Len(s) + Len(t)
        /\ \A i \in 1 .. Len(s) + Len(t) :
              (s \o t)[i] = IF i <= Len(s) THEN s[i] ELSE t[i - Len(s)]
    BY <1>1, ConcatProperties DEF t
  <1>3. Len(t) = 1 /\ t[1] = k /\ Len(s) \in Nat
    BY <1>1 DEF t
  <1>4. Len(s \o t) = Len(s) + 1 /\ (s \o t)[Len(s) + 1] = k
    BY <1>2, <1>3
  <1> QED BY <1>4 DEF Last, t

LEMMA AnnotationPath ==
    ASSUME NEW k
    PROVE  /\ Len(TemplateAnnotations \o <<k>>) = 5 /\ Last(TemplateAnnotations \o <<k>>) = k
           /\ Len(Annotations \o <<k>>) = 3 /\ Last(Annotations \o <<k>>) = k
  <1> DEFINE S == {"spec", "template", "metadata", "annotations", k}
  <1>1. /\ TemplateAnnotations \in Seq(S) /\ Len(TemplateAnnotations) = 4
        /\ Annotations \in Seq(S) /\ Len(Annotations) = 2
        /\ k \in S
    BY DEF TemplateAnnotations, Annotations
  <1> HIDE DEF S
  <1>2. /\ Len(TemplateAnnotations \o <<k>>) = 4 + 1 /\ Last(TemplateAnnotations \o <<k>>) = k
        /\ Len(Annotations \o <<k>>) = 2 + 1 /\ Last(Annotations \o <<k>>) = k
    BY <1>1, LastOfConcat
  <1> QED BY <1>2

LEMMA FieldPaths ==
    /\ Len(Data) = 1 /\ Len(StringData) = 1 /\ Len(Spec_) = 1 /\ Len(BinaryData) = 1
    /\ Len(ServiceBundle) = 2 /\ Len(WebhookBundle) = 4 /\ Len(Labels) = 2 /\ Len(Annotations) = 2
    /\ Data # StringData /\ Data # Spec_ /\ StringData # Spec_ /\ Data # BinaryData
    /\ {Data, StringData, Spec_} \cap {WebhookBundle, ServiceBundle} = {}
    /\ WebhookBundle # ServiceBundle
  <1>1. Len(Data) = 1 /\ Len(StringData) = 1 /\ Len(Spec_) = 1 /\ Len(BinaryData) = 1
    BY DEF Data, StringData, Spec_, BinaryData
  <1>2. Len(ServiceBundle) = 2 /\ Len(WebhookBundle) = 4 /\ Len(Labels) = 2 /\ Len(Annotations) = 2
    BY DEF ServiceBundle, WebhookBundle, Labels, Annotations
  <1>3. Data # StringData /\ Data # Spec_ /\ StringData # Spec_ /\ Data # BinaryData
    BY DEF Data, StringData, Spec_, BinaryData
  <1> QED BY <1>1, <1>2, <1>3

LEMMA PrefixOfItself ==
    ASSUME NEW p, Len(p) \in Nat PROVE IsPrefix(p, p)
  BY DEF IsPrefix

LEMMA WellKnownPaths ==
    ASSUME NEW kind, NEW path \in WellKnown(kind)
    PROVE  \/ kind \in Payloads /\ path \in {Data, StringData}
           \/ kind \in Webhooks /\ path = WebhookBundle
           \/ kind = "APIService" /\ path = ServiceBundle
           \/ kind \in Workloads /\ \E k \in AnnotationKeys : path = TemplateAnnotations \o <<k>>
           \/ kind = CRD /\ path = Spec_
           \/ kind = CRD /\ \E k \in AnnotationKeys : path = Annotations \o <<k>>
  BY DEF WellKnown

LEMMA DisagreeAt ==
    ASSUME NEW o, NEW q
    PROVE  /\ Disagree(o, q, Data) <=> o.data # q.data
           /\ Disagree(o, q, StringData) <=> o.stringData # q.stringData
           /\ Disagree(o, q, Spec_) <=> o.spec # q.spec
  <1>1. ValuesAt(o, Data) = {<<1, o.data>>} /\ ValuesAt(q, Data) = {<<1, q.data>>}
    BY FieldPaths DEF ValuesAt
  <1>2. ValuesAt(o, StringData) = {<<1, o.stringData>>} /\ ValuesAt(q, StringData) = {<<1, q.stringData>>}
    BY FieldPaths DEF ValuesAt
  <1>3. ValuesAt(o, Spec_) = {<<1, o.spec>>} /\ ValuesAt(q, Spec_) = {<<1, q.spec>>}
    BY FieldPaths DEF ValuesAt
  <1>4. \A x, y : <<1, x>>[1] = 1 /\ <<1, x>>[2] = x
    OBVIOUS
  <1> QED BY <1>1, <1>2, <1>3, <1>4 DEF Disagree

LEMMA DisagreeOnBundles ==
    ASSUME NEW o, NEW q, NEW path \in {WebhookBundle, ServiceBundle}
    PROVE  Disagree(o, q, path) <=>
              \E i \in DOMAIN o.caBundles \cap DOMAIN q.caBundles :
                  /\ o.caBundles[i] # "" /\ q.caBundles[i] # ""
                  /\ o.caBundles[i] # q.caBundles[i]
  <1> DEFINE V(c) == {<<i, c[i]>> : i \in {i \in DOMAIN c : c[i] # ""}}
  <1>1. path \notin {Data, StringData, Spec_}
    BY FieldPaths
  <1>2. ValuesAt(o, path) = V(o.caBundles) /\ ValuesAt(q, path) = V(q.caBundles)
    BY <1>1 DEF ValuesAt
  <1>3. \A c, x : x \in V(c) <=> \E i \in DOMAIN c : c[i] # "" /\ x = <<i, c[i]>>
    OBVIOUS
  <1>4. \A i, x : <<i, x>>[1] = i /\ <<i, x>>[2] = x
    OBVIOUS
  <1> HIDE DEF V
  <1>5. Disagree(o, q, path) <=>
           \E x \in V(o.caBundles), y \in V(q.caBundles) : x[1] = y[1] /\ x[2] # y[2]
    BY <1>2 DEF Disagree
  <1>6. ASSUME NEW x \in V(o.caBundles), NEW y \in V(q.caBundles), x[1] = y[1], x[2] # y[2]
        PROVE  \E i \in DOMAIN o.caBundles \cap DOMAIN q.caBundles :
                  /\ o.caBundles[i] # "" /\ q.caBundles[i] # ""
                  /\ o.caBundles[i] # q.caBundles[i]
    <2>1. PICK i \in DOMAIN o.caBundles : o.caBundles[i] # "" /\ x = <<i, o.caBundles[i]>>
      BY <1>3
    <2>2. PICK j \in DOMAIN q.caBundles : q.caBundles[j] # "" /\ y = <<j, q.caBundles[j]>>
      BY <1>3
    <2>3. i = j /\ o.caBundles[i] # q.caBundles[j]
      BY <1>4, <1>6, <2>1, <2>2
    <2> QED BY <2>1, <2>2, <2>3
  <1>7. ASSUME NEW i \in DOMAIN o.caBundles \cap DOMAIN q.caBundles,
               o.caBundles[i] # "", q.caBundles[i] # "", o.caBundles[i] # q.caBundles[i]
        PROVE  \E x \in V(o.caBundles), y \in V(q.caBundles) : x[1] = y[1] /\ x[2] # y[2]
    <2>1. <<i, o.caBundles[i]>> \in V(o.caBundles) /\ <<i, q.caBundles[i]>> \in V(q.caBundles)
      BY <1>3, <1>7
    <2> QED BY <1>4, <1>7, <2>1
  <1> QED BY <1>5, <1>6, <1>7

LEMMA DisagreeOnAnnotations ==
    ASSUME NEW o, NEW q, NEW k, NEW prefix \in {TemplateAnnotations, Annotations}
    PROVE  Disagree(o, q, prefix \o <<k>>) <=> k \in diffAnnotations(o, q)
  <1> DEFINE path == prefix \o <<k>>
             V(a) == {<<1, a[j]>> : j \in {k} \cap DOMAIN a}
  <1>1. Last(path) = k /\ path \notin {Data, StringData, Spec_, WebhookBundle, ServiceBundle}
    <2>1. Len(path) \in {3, 5} /\ Last(path) = k
      BY AnnotationPath
    <2> HIDE DEF path
    <2> QED BY <2>1, FieldPaths
  <1> HIDE DEF path
  <1>2. ValuesAt(o, path) = V(o.annotations) /\ ValuesAt(q, path) = V(q.annotations)
    BY <1>1 DEF ValuesAt
  <1>3. \A a, x : x \in V(a) <=> k \in DOMAIN a /\ x = <<1, a[k]>>
    OBVIOUS
  <1>4. \A x : <<1, x>>[1] = 1 /\ <<1, x>>[2] = x
    OBVIOUS
  <1> HIDE DEF V
  <1>5. Disagree(o, q, path) <=>
           /\ k \in DOMAIN o.annotations /\ k \in DOMAIN q.annotations
           /\ <<1, o.annotations[k]>>[1] = <<1, q.annotations[k]>>[1]
           /\ <<1, o.annotations[k]>>[2] # <<1, q.annotations[k]>>[2]
    BY <1>2, <1>3 DEF Disagree
  <1> QED BY <1>4, <1>5 DEF diffAnnotations, path

\* What the two renders of an object disagree on, of the fields that matter, is detected.
LEMMA DisagreementGenerated ==
    ASSUME NEW o, NEW q, IsObject(o), IsObject(q), Len(o.caBundles) = Len(q.caBundles),
           NEW path \in WellKnown(o.kind), Disagree(o, q, path)
    PROVE  path \in Generated(o, q)
  <1>1. CASE o.kind \in Payloads /\ path \in {Data, StringData}
    BY <1>1, DisagreeAt DEF Generated, Paths
  <1>2. CASE \/ o.kind \in Webhooks /\ path = WebhookBundle
             \/ o.kind = "APIService" /\ path = ServiceBundle
    <2>1. BundlesDiffer(o, q)
      BY <1>2, DisagreeOnBundles DEF BundlesDiffer, IsObject
    <2> QED BY <1>2, <2>1 DEF Generated, Paths
  <1>3. CASE o.kind = CRD /\ path = Spec_
    BY <1>3, DisagreeAt DEF Generated, Paths
  <1>4. ASSUME NEW k \in AnnotationKeys,
               \/ o.kind \in Workloads /\ path = TemplateAnnotations \o <<k>>
               \/ o.kind = CRD /\ path = Annotations \o <<k>>
        PROVE  path \in Generated(o, q)
    <2>1. k \in diffAnnotations(o, q)
      BY <1>4, DisagreeOnAnnotations
    <2>2. path \in Paths
      BY <1>4 DEF Paths
    <2> QED BY <1>4, <2>1, <2>2 DEF Generated
  <1> QED BY <1>1, <1>2, <1>3, <1>4, WellKnownPaths

LEMMA WellKnownHas ==
    /\ \A kind \in Payloads : {Data, StringData} \subseteq WellKnown(kind)
    /\ \A kind \in Webhooks : WebhookBundle \in WellKnown(kind)
    /\ ServiceBundle \in WellKnown("APIService")
    /\ \A kind \in Workloads, k \in AnnotationKeys : TemplateAnnotations \o <<k>> \in WellKnown(kind)
    /\ Spec_ \in WellKnown(CRD)
    /\ \A k \in AnnotationKeys : Annotations \o <<k>> \in WellKnown(CRD)
  BY DEF WellKnown, Payloads, Webhooks, Workloads, CRD

\* What is detected is a field that matters, and the renders disagree on it, except
\* that a payload that is known under two names is known under both.
LEMMA GeneratedDisagrees ==
    ASSUME NEW o, NEW q, IsObject(o), IsObject(q), o.kind = q.kind, NEW path \in Generated(o, q)
    PROVE  /\ Len(o.caBundles) = Len(q.caBundles)
           /\ \/ path \in WellKnown(o.kind) /\ Disagree(o, q, path)
              \/ path = Data /\ StringData \in WellKnown(o.kind) /\ Disagree(o, q, StringData)
  <1>1. CASE o.kind \in Payloads /\ path \in {Data, StringData}
    <2>1. Len(o.caBundles) = Len(q.caBundles)
      BY <1>1 DEF IsObject, Payloads, Webhooks
    <2>2. (path = Data /\ o.data # q.data) \/ o.stringData # q.stringData
      BY <1>1, FieldPaths DEF Generated, Payloads, Webhooks, Workloads, CRD
    <2> QED BY <1>1, <2>1, <2>2, WellKnownHas, DisagreeAt
  <1>2. ASSUME BundlesDiffer(o, q),
               \/ o.kind \in Webhooks /\ path = WebhookBundle
               \/ o.kind = "APIService" /\ path = ServiceBundle
        PROVE  Len(o.caBundles) = Len(q.caBundles) /\ path \in WellKnown(o.kind) /\ Disagree(o, q, path)
    <2>1. Len(o.caBundles) = Len(q.caBundles) /\ DOMAIN o.caBundles = DOMAIN q.caBundles
      <3>1. Len(o.caBundles) = Len(q.caBundles)
        BY <1>2 DEF BundlesDiffer
      <3>2. o.caBundles \in Seq(STRING) /\ q.caBundles \in Seq(STRING)
        BY DEF IsObject
      <3>3. \A c \in Seq(STRING) : DOMAIN c = 1 .. Len(c)
        OBVIOUS
      <3> QED BY <3>1, <3>2, <3>3
    <2>2. Disagree(o, q, path)
      BY <1>2, <2>1, DisagreeOnBundles DEF BundlesDiffer
    <2> QED BY <1>2, <2>1, <2>2, WellKnownHas
  <1>3. ASSUME o.kind = CRD, path = Spec_, o.spec # q.spec
        PROVE  Len(o.caBundles) = Len(q.caBundles) /\ path \in WellKnown(o.kind) /\ Disagree(o, q, path)
    <2>1. Len(o.caBundles) = Len(q.caBundles)
      BY <1>3 DEF IsObject, CRD, Webhooks
    <2> QED BY <1>3, <2>1, WellKnownHas, DisagreeAt
  <1>4. ASSUME NEW k \in diffAnnotations(o, q),
               \/ o.kind \in Workloads /\ path = TemplateAnnotations \o <<k>>
               \/ o.kind = CRD /\ path = Annotations \o <<k>>
        PROVE  Len(o.caBundles) = Len(q.caBundles) /\ path \in WellKnown(o.kind) /\ Disagree(o, q, path)
    <2>1. Len(o.caBundles) = Len(q.caBundles)
      BY <1>4 DEF IsObject, CRD, Webhooks, Workloads
    <2>2. k \in AnnotationKeys
      BY DEF diffAnnotations, IsObject
    <2>3. Disagree(o, q, path)
      BY <1>4, DisagreeOnAnnotations
    <2> QED BY <1>4, <2>1, <2>2, <2>3, WellKnownHas
  <1> QED BY <1>1, <1>2, <1>3, <1>4 DEF Generated

LEMMA PathIsPrefix ==
    ASSUME NEW o, IsObject(o),
           NEW p, \/ p \in o.nulls \/ p \in Seeded(o) \/ p \in WellKnown(o.kind)
    PROVE  IsPrefix(p, p)
  <1>1. CASE p \in o.nulls
    BY <1>1, PrefixOfItself DEF IsObject
  <1>2. CASE p \in Seeded(o)
    BY <1>2, FieldPaths, PrefixOfItself DEF Seeded
  <1>3. CASE p \in WellKnown(o.kind)
    BY <1>3, FieldPaths, AnnotationPath, WellKnownPaths, PrefixOfItself
  <1> QED BY <1>1, <1>2, <1>3

\* An Application with what the analysis found has a rule for every unstable field.
LEMMA AnalysisComplete ==
    ASSUME IsChart(renders), NEW exact, app.rules = detect(renders, exact)
    PROVE  Complete
  <1> SUFFICES ASSUME NEW k \in DOMAIN renders[1], NEW p \in Unstable(k)
               PROVE  \E i \in DOMAIN app.rules :
                         app.rules[i].res = k /\ \E q \in app.rules[i].paths : IsPrefix(q, p)
    BY DEF Complete
  <1> DEFINE o == renders[1][k]  q == renders[2][k]
  <1>1. /\ IsObject(o) /\ o.lookup \in BOOLEAN
        /\ k \in DOMAIN renders[2] => IsObject(q)
    BY DEF IsChart, IsObject
  <1>2. /\ IsPrefix(p, p)
        /\ Found(renders, exact, k, p)
    <2>1. CASE p \in o.nulls
      BY <1>1, <2>1, PathIsPrefix DEF Found
    <2>2. CASE o.lookup /\ p \in Seeded(o)
      BY <1>1, <2>2, PathIsPrefix DEF Found
    <2>3. CASE /\ k \in DOMAIN renders[2] /\ Len(o.caBundles) = Len(q.caBundles)
               /\ p \in WellKnown(o.kind) /\ Disagree(o, q, p)
      <3>1. p \in Generated(o, q)
        BY <1>1, <2>3, DisagreementGenerated
      <3> QED BY <1>1, <2>3, <3>1, PathIsPrefix DEF Found
    <2> QED BY <2>1, <2>2, <2>3 DEF Unstable
  <1>3. Covers(app.rules, k, p)
    BY <1>2, DetectFinds
  <1> QED BY <1>2, <1>3 DEF Covers

\* It has no rule for anything else, if the version of the chart is an exact one.
LEMMA AnalysisJustified ==
    ASSUME IsChart(renders), app.rules = detect(renders, TRUE)
    PROVE  Justified
  <1> SUFFICES ASSUME NEW i \in DOMAIN app.rules, NEW k, k = app.rules[i].res,
                      NEW paths, paths = app.rules[i].paths
               PROVE  /\ k \in DOMAIN renders[1]
                      /\ \/ "other" \in {renders[1][k].chart, renders[1][k].instance}
                         \/ paths \ {Data} \subseteq Unstable(k)
                      /\ Data \in paths => {Data, StringData} \cap Unstable(k) # {}
    BY DEF Justified
  <1> DEFINE o == renders[1][k]  q == renders[2][k]
  <1>1. k \in DOMAIN renders[1]
    <2> DEFINE rules == app.rules
    <2>1. rules \in Seq(Rules(DOMAIN renders[1], PathsOf(renders)))
      BY DetectFinds
    <2> HIDE DEF rules
    <2>2. \A j \in DOMAIN rules : rules[j] \in Rules(DOMAIN renders[1], PathsOf(renders))
      BY <2>1
    <2> QED BY <2>2 DEF Rules, rules
  <1>2. IsObject(o) /\ (k \in DOMAIN renders[2] => IsObject(q) /\ o.kind = q.kind)
    BY <1>1 DEF IsChart
  <1>3. \A p \in paths : Found(renders, TRUE, k, p)
    <2>1. \A p \in paths : Covers(app.rules, k, p)
      BY DEF Covers
    <2> QED BY <2>1, DetectFinds
  <1>4. ASSUME NEW p \in paths, ~(Foreign(o, TRUE) /\ p \in {Spec_, Labels, Annotations})
        PROVE  p \in Unstable(k) \/ (p = Data /\ StringData \in Unstable(k))
    <2>1. CASE k \in DOMAIN renders[2] /\ p \in Generated(o, q)
      <3>1. /\ Len(o.caBundles) = Len(q.caBundles)
            /\ \/ p \in WellKnown(o.kind) /\ Disagree(o, q, p)
               \/ p = Data /\ StringData \in WellKnown(o.kind) /\ Disagree(o, q, StringData)
        BY <1>2, <2>1, GeneratedDisagrees
      <3>2. \A path \in WellKnown(o.kind) : Disagree(o, q, path) => path \in Unstable(k)
        BY <2>1, <3>1 DEF Unstable
      <3> QED BY <3>1, <3>2
    <2>2. CASE p \in o.nulls \/ (o.lookup /\ p \in Seeded(o))
      BY <2>2 DEF Unstable
    <2> QED BY <1>3, <1>4, <2>1, <2>2 DEF Found
  <1>5. Foreign(o, TRUE) => "other" \in {o.chart, o.instance}
    BY DEF Foreign
  <1>6. Data \notin {Spec_, Labels, Annotations}
    BY FieldPaths
  <1> QED BY <1>1, <1>4, <1>5, <1>6

-----------------------------------------------------------------------------
(* Over time. *)

Results == {detect(pair, exact) : pair \in AllRenders, exact \in BOOLEAN}

\* What is remembered is the result of some analysis of the version, and of the
\* current one unless the renders are known to have changed; the Application of a
\* release at rest has it. No later version is in the memo, so an upgrade is analysed.
MemoInvariant ==
    /\ release \in [version : Nat, exact : BOOLEAN, values : Nat]
    /\ renders \in AllRenders
    /\ DOMAIN memo \subseteq 0 .. release.version
    /\ \A v \in DOMAIN memo : memo[v] \in Results
    /\ cacheKey \in DOMAIN memo /\ ~outdated => memo[cacheKey] = detect(renders, release.exact)
    /\ Settled => cacheKey \in DOMAIN memo /\ app.rules = memo[cacheKey]
    /\ app # NoApp => app.rules \in Results \cup {<<>>}

LEMMA InitMemo == Init => MemoInvariant
  <1> SUFFICES ASSUME Init PROVE MemoInvariant
    OBVIOUS
  <1>1. PICK s \in Setups :
           /\ release = [version |-> 0, exact |-> s.exact, values |-> 0]
           /\ renders = s.renders
    BY DEF Init
  <1>2. /\ release \in [version : Nat, exact : BOOLEAN, values : Nat]
        /\ renders \in AllRenders
    BY <1>1, SetupsAssumption DEF AllRenders
  <1>3. memo = <<>> /\ DOMAIN memo = {} /\ app = NoApp
    BY DEF Init
  <1> QED BY <1>2, <1>3 DEF MemoInvariant, Settled, cacheKey

\* The renders may be others: the result remembered, if any, is outdated.
LEMMA RerenderedMemo ==
    ASSUME MemoInvariant, UNCHANGED <<memo, app>>, renders' \in Renders, Rerendered,
           release' \in [version : {release.version}, exact : {release.exact}, values : Nat],
           pending' = TRUE \/ UNCHANGED pending
    PROVE  MemoInvariant'
  <1>1. /\ release'.version = release.version /\ release'.exact = release.exact
        /\ release' \in [version : Nat, exact : BOOLEAN, values : Nat]
    BY DEF MemoInvariant
  <1>2. outdated' = (outdated \/ cacheKey \in DOMAIN memo) /\ cacheKey' = cacheKey
    BY <1>1 DEF Rerendered, cacheKey
  <1>3. Settled' => Settled
    BY DEF Settled
  <1> QED BY <1>1, <1>2, <1>3 DEF MemoInvariant, AllRenders

\* Nothing of this is touched, but for the reconcile to come.
LEMMA MemoKept ==
    ASSUME MemoInvariant, UNCHANGED <<release, renders, memo, app, outdated>>,
           pending' = TRUE \/ UNCHANGED pending
    PROVE  MemoInvariant'
  BY DEF MemoInvariant, Settled, cacheKey

LEMMA UpgradeMemo == MemoInvariant /\ Upgrade => MemoInvariant'
  <1> SUFFICES ASSUME MemoInvariant, Upgrade PROVE MemoInvariant'
    OBVIOUS
  <1>1. /\ release'.version = release.version + 1 /\ release.version \in Nat
        /\ release' \in [version : Nat, exact : BOOLEAN, values : Nat]
    BY DEF Upgrade, MemoInvariant
  <1>2. /\ UNCHANGED <<memo, app>> /\ pending' = TRUE /\ renders' \in Renders
    BY DEF Upgrade, UserOp
  <1>3. cacheKey' \notin DOMAIN memo /\ DOMAIN memo \subseteq 0 .. release'.version
    BY <1>1 DEF MemoInvariant, cacheKey
  <1> QED BY <1>1, <1>2, <1>3 DEF MemoInvariant, Settled, AllRenders

LEMMA EditMemo ==
    ASSUME MemoInvariant, EditValues \/ EditConfig \/ Publish \/ EditRepository \/ EditSecrets
    PROVE  MemoInvariant'
  <1>1. CASE EditValues
    <2>1. release' \in [version : {release.version}, exact : {release.exact}, values : Nat]
      BY <1>1 DEF EditValues, MemoInvariant
    <2> QED BY <1>1, <2>1, RerenderedMemo DEF EditValues, UserOp
  <1>2. CASE EditConfig \/ Publish
    <2>1. release' \in [version : {release.version}, exact : {release.exact}, values : Nat]
      BY <1>2 DEF EditConfig, Publish, MemoInvariant
    <2> QED BY <1>2, <2>1, RerenderedMemo DEF EditConfig, Publish, UserOp
  <1>3. CASE EditRepository \/ EditSecrets
    BY <1>3, MemoKept DEF EditRepository, EditSecrets, UserOp
  <1> QED BY <1>1, <1>2, <1>3

\* The Application is written with what is in the memo by then, if anything is.
LEMMA WriteMemo ==
    ASSUME MemoInvariant, NEW found \in BOOLEAN, Write(found), memo' = memo,
           found => cacheKey \in DOMAIN memo
    PROVE  MemoInvariant'
  <1>1. /\ UNCHANGED <<release, renders, outdated>> /\ cacheKey' = cacheKey
        /\ app'.analysed = found
        /\ app'.rules = IF found THEN memo[cacheKey] ELSE <<>>
    BY DEF Write, cacheKey
  <1> QED BY <1>1 DEF MemoInvariant, Settled

\* The result is new.
LEMMA AnalyseMemo ==
    ASSUME MemoInvariant, Write(TRUE), cacheKey \notin DOMAIN memo,
           memo' = [v \in DOMAIN memo \cup {cacheKey} |->
                       IF v = cacheKey THEN Analyses[renders][release.exact] ELSE memo[v]]
    PROVE  MemoInvariant'
  <1> DEFINE result == detect(renders, release.exact)
  <1>1. /\ renders \in AllRenders /\ release.exact \in BOOLEAN /\ release.version \in Nat
    BY DEF MemoInvariant
  <1>2. Analyses[renders][release.exact] = result /\ result \in Results
    BY <1>1 DEF Analyses, Results
  <1>3. /\ UNCHANGED <<release, renders, outdated>> /\ cacheKey' = cacheKey
        /\ app'.rules = memo'[cacheKey]
    BY DEF Write, cacheKey
  <1> HIDE DEF result
  <1>4. /\ DOMAIN memo' = DOMAIN memo \cup {cacheKey}
        /\ memo'[cacheKey] = result
        /\ \A v \in DOMAIN memo : memo'[v] = memo[v]
    BY <1>2
  <1>5. DOMAIN memo' \subseteq 0 .. release.version
    BY <1>1, <1>4 DEF MemoInvariant, cacheKey
  <1> QED BY <1>2, <1>3, <1>4, <1>5 DEF MemoInvariant, Settled, result

LEMMA StepMemo == MemoInvariant /\ [Next]_vars => MemoInvariant'
  <1> SUFFICES ASSUME MemoInvariant, [Next]_vars PROVE MemoInvariant'
    OBVIOUS
  <1>1. CASE Sync
    BY <1>1, WriteMemo, AnalyseMemo DEF Sync
  <1>2. CASE AnalysisFails
    BY <1>2, WriteMemo DEF AnalysisFails
  <1>3. CASE Resync
    BY <1>3, MemoKept DEF Resync
  <1>4. CASE Crash
    <2>1. memo' = <<>> /\ DOMAIN memo' = {} /\ pending' = TRUE /\ UNCHANGED <<release, renders, app>>
      BY <1>4 DEF Crash
    <2>2. DOMAIN memo' \subseteq 0 .. release'.version
      BY <2>1
    <2> QED BY <2>1, <2>2 DEF MemoInvariant, Settled
  <1>5. CASE UNCHANGED vars
    BY <1>5, MemoKept DEF vars
  <1> QED BY <1>1, <1>2, <1>3, <1>4, <1>5, UpgradeMemo, EditMemo DEF Next

LEMMA MemoHolds == Spec => []MemoInvariant
  <1> QED BY InitMemo, StepMemo, PTL DEF Spec

LEMMA RenderedIsChart == MemoInvariant => IsChart(renders)
  BY ChartsAssumption DEF MemoInvariant

\* What differs from render to render of a chart, what is null in it and what a lookup
\* would have found is ignored by the Application, for any number of charts with any
\* resources, through upgrades, edits, failing analyses and restarts.
THEOREM AnalysesAreComplete == Spec => []RulesComplete
  <1>1. MemoInvariant => RulesComplete
    <2> SUFFICES ASSUME MemoInvariant, Settled, ~outdated PROVE Complete
      BY DEF RulesComplete
    <2>1. app.rules = detect(renders, release.exact)
      BY DEF MemoInvariant
    <2> QED BY <2>1, RenderedIsChart, AnalysisComplete
  <1> QED BY <1>1, MemoHolds, PTL

\* Whatever else the release or the chart has is managed by Argo CD, when the version
\* asked for is an exact one: for the same charts, edits, failures and restarts.
THEOREM AnalysesAreJustified == Spec => []RulesJustified
  <1>1. MemoInvariant => RulesJustified
    <2> SUFFICES ASSUME MemoInvariant, Settled, ~outdated, release.exact PROVE Justified
      BY DEF RulesJustified
    <2>1. release.exact = TRUE
      BY DEF MemoInvariant
    <2>2. app.rules = detect(renders, TRUE)
      BY <2>1 DEF MemoInvariant
    <2> QED BY <2>2, RenderedIsChart, AnalysisJustified
  <1> QED BY <1>1, MemoHolds, PTL

\* However many passes find something in a resource, in whatever render of whatever
\* chart, its Application gets one rule for it.
THEOREM RulesAreMerged == Spec => []OneRulePerResource
  <1>1. \A rules \in Results : Single(rules)
    BY ChartsAssumption, DetectFinds DEF Results
  <1>2. MemoInvariant => OneRulePerResource
    <2>1. \A rules \in Results \cup {<<>>} : Single(rules)
      BY <1>1 DEF Single
    <2> QED BY <2>1 DEF MemoInvariant, OneRulePerResource, Single
  <1> QED BY <1>2, MemoHolds, PTL

=============================================================================
