------------------------- MODULE ApplicationMirror -------------------------
(***************************************************************************)
(* What the bridge promises of the Applications it keeps, whatever happens *)
(* in between: a release is taken on before it has an Application, an      *)
(* Application appears under a key of its release and belongs to it for as *)
(* long as it exists, and a release that is leaving goes when none of its  *)
(* Applications is left but what it has lost sight of. HelmReleaseHistory  *)
(* says how the reconciler implements this.                                *)
(***************************************************************************)

CONSTANTS
    Releases,
    Keys,       \* the keys Applications may have
    Homes       \* release -> the keys at which its Application may appear

VARIABLES
    phase,      \* release -> "out", "held" or "leaving"
    owner,      \* key -> {} or {the release whose Application is there}
    going,      \* the keys whose Application is being deleted
    lost        \* the keys whose Application the deletion of its release overlooks

vars == <<phase, owner, going, lost>>

Init == /\ phase = [h \in Releases |-> "out"]
        /\ owner = [k \in Keys |-> {}]
        /\ going = {}
        /\ lost = {}

Becomes(h, from, to) ==
    /\ phase[h] = from
    /\ phase' = [phase EXCEPT ![h] = to]
    /\ UNCHANGED <<owner, going>>

\* A release that is taken on has found again what it had lost.
TakeOn(h) == /\ Becomes(h, "out", "held")
             /\ lost' = {k \in lost : h \notin owner[k]}

Leave(h) == Becomes(h, "held", "leaving") /\ UNCHANGED lost

LetGo(h) == /\ \A k \in Keys \ lost : h \notin owner[k]
            /\ Becomes(h, "leaving", "out")
            /\ UNCHANGED lost

\* What a release that is held has is never overlooked.
Overlook(h, k) ==
    /\ phase[h] # "held"
    /\ owner[k] = {h}
    /\ lost' = lost \cup {k}
    /\ UNCHANGED <<phase, owner, going>>

\* A release that is leaving may get its Application back once more: the step
\* was under way when the user deleted it.
Appear(h, k) ==
    /\ phase[h] # "out"
    /\ k \in Homes[h]
    /\ owner[k] = {}
    /\ owner' = [owner EXCEPT ![k] = {h}]
    /\ UNCHANGED <<phase, going, lost>>

Retire(k) ==
    /\ owner[k] # {}
    /\ going' = going \cup {k}
    /\ UNCHANGED <<phase, owner, lost>>

Vanish(k) ==
    /\ owner[k] # {}
    /\ owner' = [owner EXCEPT ![k] = {}]
    /\ going' = going \ {k}
    /\ lost' = lost \ {k}
    /\ UNCHANGED phase

Next == \/ \E h \in Releases : \/ TakeOn(h) \/ Leave(h) \/ LetGo(h)
                               \/ \E k \in Keys : Appear(h, k) \/ Overlook(h, k)
        \/ \E k \in Keys : Retire(k) \/ Vanish(k)

Spec == Init /\ [][Next]_vars
=============================================================================
