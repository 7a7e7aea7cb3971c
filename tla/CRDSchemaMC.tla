----------------------------- MODULE CRDSchemaMC -----------------------------
(* An instance of CRDSchema for TLC. *)
EXTENDS CRDSchema

\* A field whose value is a zero, one with a zero in it; and an empty spec.
SpecValues ==
    {[fields |-> {}, zeros |-> {}],
     [fields |-> {"a", "b"}, zeros |-> {<<"spec", "b">>, <<"spec", "a", "b">>}]}

SchemaValues ==
    {[declared |-> {"b"}, preserve |-> FALSE],
     [declared |-> {}, preserve |-> TRUE]}
=============================================================================
