--------------------------- MODULE CRDOwnershipMC ---------------------------
(* Instances of CRDOwnership for TLC. *)
EXTENDS CRDOwnership

Small == [name |-> "small", large |-> FALSE]
Big   == [name |-> "big", large |-> TRUE]

\* Version 1 has both among its templates, where the values turn them on and off;
\* version 2 has "small" in crds/ and both as templates. "big" is oversized.
SmallAndBig ==
    {[version |-> 1, files |-> {}, templates |-> t] : t \in {{}, {Small, Big}}} \cup
    {[version |-> 2, files |-> {Small}, templates |-> {Small, Big}]}
=============================================================================
