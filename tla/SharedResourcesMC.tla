-------------------------- MODULE SharedResourcesMC --------------------------
(* Instances of SharedResources for TLC. *)
EXTENDS SharedResources, TLC

Service == [ns |-> "one", id |-> "Service/x"]
Config  == [ns |-> "two", id |-> "ConfigMap/y"]
Twin    == [ns |-> "two", id |-> "Service/x"]

\* Three charts that share resources, one of which repeats one itself. They disagree
\* on the data of the ConfigMap.
ThreeCharts == "a" :> <<Service, Config>> @@ "b" :> <<Config, Service>> @@ "c" :> <<Service>>
OneConfig   == {Config}
Repeats3    == "a" :> {Config} @@ "b" :> {} @@ "c" :> {}

\* Two charts that share resources of one kind and name in two namespaces.
TwinCharts  == "a" :> <<Service, Twin>> @@ "b" :> <<Service, Twin>>
NoRepeats   == "a" :> {} @@ "b" :> {}
=============================================================================
