------------------------ MODULE ClusterNamingProofs ------------------------
(***************************************************************************)
(* Cluster names that do not end in each other keep clusters apart: then   *)
(* no Application is taken over or deleted by another cluster's release.   *)
(***************************************************************************)
EXTENDS ClusterNaming, SequenceTheorems, TLAPS

\* Appending suffixes of one length loses nothing: both the name and the suffix
\* can be told from the result.
LEMMA SuffixInjective ==
    ASSUME NEW S, NEW n \in Seq(S), NEW m \in Seq(S), NEW c \in Seq(S), NEW d \in Seq(S),
           Len(c) = Len(d), n \o c = m \o d
    PROVE  n = m /\ c = d
  <1>0. Len(n) \in Nat /\ Len(m) \in Nat /\ Len(c) \in Nat
    BY LenProperties
  <1>1. /\ Len(n \o c) = Len(n) + Len(c)
        /\ \A i \in 1 .. Len(n) + Len(c) : (n \o c)[i] =
                     IF i <= Len(n) THEN n[i] ELSE c[i - Len(n)]
    BY ConcatProperties
  <1>2. /\ Len(m \o d) = Len(m) + Len(d)
        /\ \A i \in 1 .. Len(m) + Len(d) : (m \o d)[i] =
                     IF i <= Len(m) THEN m[i] ELSE d[i - Len(m)]
    BY ConcatProperties
  <1>3. Len(n) = Len(m)
    BY <1>0, <1>1, <1>2
  <1>4. \A i \in 1 .. Len(n) : n[i] = m[i]
    <2> TAKE i \in 1 .. Len(n)
    <2>1. (n \o c)[i] = n[i] /\ (m \o d)[i] = m[i]
      BY <1>0, <1>1, <1>2, <1>3
    <2> QED BY <2>1
  <1>5. \A i \in 1 .. Len(c) : c[i] = d[i]
    <2> TAKE i \in 1 .. Len(c)
    <2>1. (n \o c)[Len(n) + i] = c[i]
      BY <1>0, <1>1
    <2>2. (m \o d)[Len(m) + i] = d[i]
      BY <1>0, <1>2
    <2> QED BY <1>3, <2>1, <2>2
  <1>6. n = m
    BY <1>3, <1>4, SeqEqual
  <1>7. c = d
    BY <1>5, SeqEqual
  <1> QED BY <1>6, <1>7

\* Of two suffixes of one sequence the longer one ends in the shorter one.
LEMMA SuffixesNest ==
    ASSUME NEW S, NEW n \in Seq(S), NEW m \in Seq(S), NEW c \in Seq(S), NEW d \in Seq(S),
           Len(d) <= Len(c), n \o c = m \o d
    PROVE  EndsIn(c, d)
  <1>0. /\ Len(n) \in Nat /\ Len(m) \in Nat /\ Len(c) \in Nat /\ Len(d) \in Nat
    BY LenProperties
  <1>1. /\ Len(n \o c) = Len(n) + Len(c)
        /\ \A i \in 1 .. Len(n) + Len(c) : (n \o c)[i] =
                     IF i <= Len(n) THEN n[i] ELSE c[i - Len(n)]
    BY ConcatProperties
  <1>2. /\ Len(m \o d) = Len(m) + Len(d)
        /\ \A i \in 1 .. Len(m) + Len(d) : (m \o d)[i] =
                     IF i <= Len(m) THEN m[i] ELSE d[i - Len(m)]
    BY ConcatProperties
  <1>3. Len(n) + Len(c) = Len(m) + Len(d)
    BY <1>1, <1>2
  <1>4. ASSUME NEW i \in 1 .. Len(d)
        PROVE  c[Len(c) - Len(d) + i] = d[i]
    <2>1. (m \o d)[Len(m) + i] = d[i]
      BY <1>0, <1>2
    <2>2. PICK j \in 1 .. Len(c) : j = Len(c) - Len(d) + i
      <3>1. Len(c) - Len(d) + i \in 1 .. Len(c)
        BY <1>0
      <3> QED BY <3>1
    <2>3. (n \o c)[Len(n) + j] = c[j]
      BY <1>0, <1>1
    <2>4. Len(n) + j = Len(m) + i
      <3> DEFINE ln == Len(n) lm == Len(m) lc == Len(c) ld == Len(d)
      <3>1. /\ ln \in Int /\ lm \in Int /\ lc \in Int /\ ld \in Int /\ i \in Int
            /\ ln + lc = lm + ld /\ j = lc - ld + i
        BY <1>0, <1>3, <2>2
      <3> HIDE DEF ln, lm, lc, ld
      <3>2. ln + j = lm + i
        BY <3>1
      <3> QED BY <3>2 DEF ln, lm
    <2> QED BY <2>1, <2>2, <2>3, <2>4
  <1> QED BY <1>4 DEF EndsIn

\* The projection tells any two HelmReleases of any two clusters apart.
LEMMA DistinctNames ==
    ASSUME SuffixFree, NamespacesApart, ACEApart,
           NEW r \in Releases, NEW q \in Releases, AppOf(r) = AppOf(q)
    PROVE  Application(r) = Application(q)
  <1>1. CASE isACE(r.name, r.chart) \/ isACE(q.name, q.chart)
    BY <1>1 DEF ACEApart
  <1>2. CASE ~isACE(r.name, r.chart) /\ ~isACE(q.name, q.chart)
    <2>1. /\ r.name \in Seq(STRING) /\ q.name \in Seq(STRING)
          /\ r.cluster \in Seq(STRING) /\ q.cluster \in Seq(STRING)
          /\ Len(r.cluster) \in Nat /\ Len(q.cluster) \in Nat
          /\ r.cluster = <<>> <=> Len(r.cluster) = 0
          /\ q.cluster = <<>> <=> Len(q.cluster) = 0
      BY EmptySeq, LenProperties DEF SuffixFree
    <2>2. EndsIn(r.cluster, q.cluster) \/ EndsIn(q.cluster, r.cluster)
      <3>1. CASE r.cluster = <<>> \/ q.cluster = <<>>
        <4>1. CASE Len(q.cluster) = 0
          BY <2>1, <4>1 DEF EndsIn
        <4>2. CASE Len(r.cluster) = 0
          BY <2>1, <4>2 DEF EndsIn
        <4> QED BY <2>1, <3>1, <4>1, <4>2
      <3>2. CASE r.cluster # <<>> /\ q.cluster # <<>>
        <4>1. r.name \o r.cluster = q.name \o q.cluster
          BY <1>2, <3>2 DEF AppOf, applicationName
        <4>2. CASE Len(q.cluster) <= Len(r.cluster)
          BY <2>1, <4>1, <4>2, SuffixesNest
        <4>3. CASE Len(r.cluster) <= Len(q.cluster)
          BY <2>1, <4>1, <4>3, SuffixesNest
        <4> QED BY <2>1, <4>2, <4>3
      <3> QED BY <3>1, <3>2
    <2>3. r.cluster = q.cluster
      BY <2>2 DEF SuffixFree
    <2>4. CASE r.cluster = <<>>
      <3>1. r.name = q.name
        BY <1>2, <2>3, <2>4 DEF AppOf, applicationName
      <3> QED BY <2>3, <3>1 DEF NamespacesApart, Application
    <2>5. CASE r.cluster # <<>>
      <3>1. r.name \o r.cluster = q.name \o q.cluster
        BY <1>2, <2>3, <2>5 DEF AppOf, applicationName
      <3>2. r.name = q.name
        BY <2>1, <2>3, <3>1, SuffixInjective
      <3> QED BY <2>3, <3>2 DEF NamespacesApart, Application
    <2> QED BY <2>4, <2>5
  <1> QED BY <1>1, <1>2

\* Annotation and label of every Application on the principal are those of some
\* HelmRelease that may exist.
THEOREM TypeCorrect == Spec => []TypeOK
  <1>1. Init => TypeOK
    BY DEF Init, TypeOK
  <1>2. TypeOK /\ [Next]_vars => TypeOK'
    BY DEF TypeOK, Next, vars, InstallRelease, SyncRelease, DeleteRelease, Applications
  <1> QED BY <1>1, <1>2, PTL DEF Spec

LEMMA NextOwners ==
    ASSUME SuffixFree, NamespacesApart, ACEApart, OwnersInvariant, Next
    PROVE  /\ OwnersInvariant'
           /\ \A r \in present \cap present' :
                 principal[AppOf(r)] = Application(r) => principal'[AppOf(r)] = Application(r)
  <1> PICK r \in Releases : InstallRelease(r) \/ SyncRelease(r) \/ DeleteRelease(r)
    BY DEF Next
  <1> USE NoAppAssumption DEF OwnersInvariant, TypeOK
  <1>0. /\ AppOf(r) \in AppNames /\ Application(r) \in Applications
        /\ \A q \in Releases : AppOf(q) \in AppNames /\ Application(q) \in Applications
    BY DEF AppNames, Applications
  <1>a. \A q \in Releases : AppOf(q) = AppOf(r) => Application(q) = Application(r)
    BY DistinctNames
  <1> HIDE DEF OwnersInvariant
  <1>1. CASE InstallRelease(r)
    BY <1>1 DEF InstallRelease, OwnersInvariant
  <1>2. CASE SyncRelease(r)
    <2>1. /\ r \in present /\ present' = present
          /\ principal' = [principal EXCEPT ![AppOf(r)] = Application(r)]
      BY <1>2 DEF SyncRelease
    <2>2. TypeOK'
      BY <1>0, <2>1 DEF OwnersInvariant
    <2>3. OwnersInvariant'
      BY <1>0, <2>1, <2>2 DEF OwnersInvariant
    <2> QED BY <1>0, <1>a, <2>1, <2>3 DEF OwnersInvariant
  <1>3. CASE DeleteRelease(r)
    <2>1. /\ r \in present
          /\ present' = present \ {r}
          /\ principal' = [principal EXCEPT ![AppOf(r)] = NoApp]
      BY <1>3 DEF DeleteRelease
    <2>2. TypeOK'
      BY <1>0, <2>1 DEF OwnersInvariant
    <2>3. ASSUME NEW k \in AppNames, principal'[k] # NoApp
          PROVE  \E q \in present' : AppOf(q) = k /\ Application(q) = principal'[k]
      <3>1. k # AppOf(r) /\ principal'[k] = principal[k]
        BY <2>1, <2>3 DEF OwnersInvariant
      <3>2. PICK q \in present : AppOf(q) = k /\ Application(q) = principal[k]
        BY <2>3, <3>1 DEF OwnersInvariant
      <3> QED BY <2>1, <3>1, <3>2
    <2>4. OwnersInvariant'
      BY <2>1, <2>2, <2>3 DEF OwnersInvariant
    <2>5. ASSUME NEW q \in present \cap present', principal[AppOf(q)] = Application(q)
          PROVE  principal'[AppOf(q)] = Application(q)
      <3>1. q # r /\ q \in Releases
        BY <2>1 DEF OwnersInvariant
      <3>2. AppOf(q) # AppOf(r)
        BY <1>a, <2>1, <3>1 DEF OwnersInvariant
      <3> QED BY <1>0, <2>1, <2>5, <3>1, <3>2 DEF OwnersInvariant
    <2> QED BY <2>4, <2>5
  <1> QED BY <1>1, <1>2, <1>3

\* Every Application is routed to a cluster on which the HelmRelease that its
\* annotation names exists and projects to that very Application, so that the
\* watch that maps it back wakes, among others, the release it belongs to.
THEOREM OwnersCorrect ==
    ASSUME SuffixFree, NamespacesApart, ACEApart PROVE Spec => []OwnersInvariant
  <1>1. Init => OwnersInvariant
    BY DEF Init, OwnersInvariant, TypeOK
  <1>2. OwnersInvariant /\ [Next]_vars => OwnersInvariant'
    BY NextOwners DEF vars, OwnersInvariant, TypeOK
  <1> QED BY <1>1, <1>2, PTL DEF Spec

\* For any set of clusters whose names do not end in each other, an Application
\* on the principal stays the mirror of its HelmRelease as long as that exists.
THEOREM NoTakeOver ==
    ASSUME SuffixFree, NamespacesApart, ACEApart PROVE Spec => KeptForItsOwner
  <1>1. OwnersInvariant /\ [Next]_vars =>
          [\A r \in present \cap present' :
              principal[AppOf(r)] = Application(r) => principal'[AppOf(r)] = Application(r)]_vars
    BY NextOwners
  <1> QED BY <1>1, OwnersCorrect, PTL DEF Spec, KeptForItsOwner
=============================================================================
