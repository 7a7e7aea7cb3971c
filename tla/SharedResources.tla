--------------------------- MODULE SharedResources ---------------------------
(***************************************************************************)
(* sharedResourceIgnoreRules: charts that ship the same resource would have *)
(* their Applications apply it in turn. Argo CD warns of that in the        *)
(* Application's conditions, and the next reconcile turns the warnings into *)
(* rules that keep the Application off the resource: off its spec, labels   *)
(* and annotations, among which is the mark of the Application it belongs   *)
(* to, but not off the data of a ConfigMap or Secret.                       *)
(*                                                                          *)
(* A resource has a namespace and an id, its kind and name. A message of    *)
(* Argo CD is what the code reads in it.                                    *)
(***************************************************************************)
EXTENDS Naturals, SequencesExt

CONSTANTS
    Apps,
    Inventory,      \* app -> its resources, in the order of status.resources
    Repeated,       \* app -> the resources its chart renders more than once
    Divergent,      \* the resources whose charts disagree outside of spec, labels and
                    \* annotations
    MaxInstalls, MaxHasty   \* bounds on the environment

Nobody == "nobody"

Of(a) == ToSet(Inventory[a])
Resources == UNION {Of(a) : a \in Apps}

ASSUME InventoryAssumption ==
    /\ Nobody \notin Apps
    /\ \A a \in Apps : Inventory[a] \in Seq(Of(a)) /\ Repeated[a] \subseteq Of(a)
    /\ Divergent \subseteq Resources
    /\ MaxInstalls \in Nat /\ MaxHasty \in Nat

VARIABLES
    installed,  \* the releases there are
    edited,     \* releases whose chart version is not yet in the Application
    unsynced,   \* Applications with a version that was never synced
    live,       \* resource -> the Application that its mark names, or Nobody
    data,       \* resource -> the Application that wrote the rest of it, or Nobody
    conditions, \* app -> status.conditions
    ignored,    \* app -> resources its rules keep it off
    pending,    \* apps to be reconciled
    installs, hasty

vars == <<installed, edited, unsynced, live, data, conditions, ignored, pending, installs, hasty>>

\* A "SharedResourceWarning" gives the id, a "RepeatedResourceWarning" the full key.
Shared(r)  == [type |-> "SharedResourceWarning", id |-> r.id]
Repeats(r) == [type |-> "RepeatedResourceWarning", res |-> r]

\* What Argo CD may warn a of.
Warnings(a) == {Shared(r) : r \in Of(a)} \cup {Repeats(r) : r \in Of(a)}

\* Every variable has its type; an Application's rules are about what is its own.
TypeOK ==
    /\ \A set \in {installed, edited, unsynced, pending} : set \subseteq Apps
    /\ live \in [Resources -> Apps \cup {Nobody}]
    /\ data \in [Resources -> Apps \cup {Nobody}]
    /\ DOMAIN conditions = Apps /\ DOMAIN ignored = Apps
    /\ \A a \in Apps : conditions[a] \subseteq Warnings(a) /\ ignored[a] \subseteq Of(a)
    /\ installs \in 0..MaxInstalls /\ hasty \in 0..MaxHasty

Init ==
    /\ installed = {} /\ edited = {} /\ unsynced = {} /\ pending = {}
    /\ live = [r \in Resources |-> Nobody]
    /\ data = live
    /\ conditions = [a \in Apps |-> {}]
    /\ ignored = [a \in Apps |-> {}]
    /\ installs = 0 /\ hasty = 0

-----------------------------------------------------------------------------
(* Argo CD and the users. *)

\* What an Application does not have for itself.
Contested(a) == {r \in Of(a) : live[r] \notin {a, Nobody}}

Report(a) == {Shared(r) : r \in Contested(a)} \cup {Repeats(r) : r \in Repeated[a]}

\* Argo CD compares the Application with the cluster. Its status wakes the release.
Refresh(a) ==
    /\ a \in installed
    /\ conditions[a] # Report(a)
    /\ conditions' = [conditions EXCEPT ![a] = Report(a)]
    /\ pending' = pending \cup {a}
    /\ UNCHANGED <<installed, edited, unsynced, live, data, ignored, installs, hasty>>

\* Automated sync without selfHeal: once for a version. Resources that are missing
\* are applied, and others if they are out of sync in a way that is not ignored
\* (ApplyOutOfSyncOnly); of those what is ignored stays (RespectIgnoreDifferences).
Sync(a) ==
    /\ a \in unsynced
    /\ unsynced' = unsynced \ {a}
    /\ LET whole == {r \in Of(a) : live[r] = Nobody \/ r \notin ignored[a]}
           rest  == Of(a) \cap Divergent
       IN  /\ live' = [r \in Resources |-> IF r \in whole THEN a ELSE live[r]]
           /\ data' = [r \in Resources |-> IF r \in whole \cup rest THEN a ELSE data[r]]
    /\ UNCHANGED <<installed, edited, conditions, ignored, pending, installs, hasty>>

Install(a) ==
    /\ a \notin installed
    /\ installs < MaxInstalls
    /\ installs' = installs + 1
    /\ installed' = installed \cup {a}
    /\ edited' = edited \cup {a}
    /\ pending' = pending \cup {a}
    /\ UNCHANGED <<unsynced, live, data, conditions, ignored, hasty>>

\* The release is deleted, its Application with it, and what has that one's mark.
Uninstall(a) ==
    /\ a \in installed
    /\ installed' = installed \ {a}
    /\ edited' = edited \ {a}
    /\ unsynced' = unsynced \ {a}
    /\ pending' = pending \ {a}
    /\ live' = [r \in Resources |-> IF live[r] = a THEN Nobody ELSE live[r]]
    /\ data' = [r \in Resources |-> IF live[r] = a THEN Nobody ELSE data[r]]
    /\ conditions' = [conditions EXCEPT ![a] = {}]
    /\ ignored' = [ignored EXCEPT ![a] = {}]
    /\ UNCHANGED <<installs, hasty>>

Quiet ==
    /\ edited = {} /\ unsynced = {} /\ pending = {}
    /\ \A a \in installed : conditions[a] = Report(a)

\* A new version of the chart. As many as one likes when everything has settled,
\* MaxHasty otherwise.
Upgrade(a) ==
    /\ a \in installed \ edited
    /\ Quiet \/ hasty < MaxHasty
    /\ hasty' = IF Quiet THEN hasty ELSE hasty + 1
    /\ edited' = edited \cup {a}
    /\ pending' = pending \cup {a}
    /\ UNCHANGED <<installed, unsynced, live, data, conditions, ignored, installs>>

-----------------------------------------------------------------------------
(* The operator. *)

\* Faulty: the rule has no namespace.
lookupResourceKey_NoNamespace(a, id) ==
    IF \E r \in Of(a) : r.id = id THEN {[ns |-> "", id |-> id]} ELSE {}

\* The first resource of the Application with this kind and name, if any.
lookupResourceKey(a, id) ==
    LET i == SelectInSeq(Inventory[a], LAMBDA r : r.id = id)
    IN  IF i = 0 THEN {} ELSE {Inventory[a][i]}

\* Faulty: only one kind of warning is understood.
sharedResourceIgnoreRules_RepeatedOnly(a) ==
    UNION {IF c.type = "RepeatedResourceWarning" THEN {c.res} ELSE {} : c \in conditions[a]}

\* Faulty: rules are added and never taken back.
sharedResourceIgnoreRules_Sticky(a) ==
    ignored[a] \cup
    UNION {IF c.type = "RepeatedResourceWarning" THEN {c.res} ELSE lookupResourceKey(a, c.id) :
           c \in conditions[a]}

sharedResourceIgnoreRules(a) ==
    UNION {IF c.type = "RepeatedResourceWarning" THEN {c.res} ELSE lookupResourceKey(a, c.id) :
           c \in conditions[a]}

\* The Application gets the version and the rules in one patch.
Reconcile(a) ==
    /\ a \in pending
    /\ pending' = pending \ {a}
    /\ ignored' = [ignored EXCEPT ![a] = sharedResourceIgnoreRules(a)]
    /\ edited' = edited \ {a}
    /\ unsynced' = IF a \in edited THEN unsynced \cup {a} ELSE unsynced
    /\ UNCHANGED <<installed, live, data, conditions, installs, hasty>>

Next == \E a \in Apps : \/ Install(a) \/ Uninstall(a) \/ Upgrade(a)
                        \/ Refresh(a) \/ Sync(a) \/ Reconcile(a)

Spec == Init /\ [][Next]_vars

FairSpec == Spec /\ \A a \in Apps : /\ WF_vars(Refresh(a))
                                    /\ WF_vars(Sync(a))
                                    /\ WF_vars(Reconcile(a))

-----------------------------------------------------------------------------

\* Argo CD has reported on the Application as it is, and the operator has taken it in.
Informed(a) == a \in installed \ pending /\ conditions[a] = Report(a)

\* An Application then ignores what another one has and what it repeats itself, and
\* nothing else, so that it deploys all the rest.
RulesCurrent == \A a \in Apps : Informed(a) => ignored[a] = Contested(a) \cup Repeated[a]

\* And it takes nothing from another one, with whichever version it syncs: the fight is
\* between those who have not heard of each other yet. What its rules do not cover (line
\* 762) it goes on writing: the data of a ConfigMap or Secret that the charts disagree on.
TakenUnawares ==
    [][\A a \in Apps, r \in Resources :
          \/ live[r] \notin {a, Nobody} /\ live'[r] = a
          \/ r \notin Divergent /\ data[r] \notin {a, Nobody} /\ data'[r] = a
          => ~Informed(a)]_vars

\* At rest the rules follow from the conditions, whatever these are.
RulesFollow ==
    \A a \in installed \ pending : ignored[a] = sharedResourceIgnoreRules(a)

\* No two resources of an Application have the same kind and name.
UniqueIds == \A a \in Apps : \A r, q \in Of(a) : r.id = q.id => r = q

\* "Break the fight Argo CD reports ... by ignoring the mutable parts of the contested
\* resource" (helmrelease_controller.go:692-693): however often the releases are
\* upgraded, in the end every resource stays with one of them, and is left as it is if
\* the charts disagree on nothing but what the rules cover.
FightEnds ==
    <>[][/\ UNCHANGED live
         /\ \A r \in Resources \ Divergent : data'[r] = data[r]]_vars

\* "self-clears once the warning stops" (helmrelease_controller.go:693): in the end every
\* Application is informed, and ignores just what it has to.
SelfClears == <>[](\A a \in installed : ignored[a] = Contested(a) \cup Repeated[a])
=============================================================================
