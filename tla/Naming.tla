------------------------------- MODULE Naming -------------------------------
(***************************************************************************)
(* pkg/controller/naming.go: the projection of a HelmRelease onto the name *)
(* of the Argo CD Application that mirrors it.                             *)
(*                                                                         *)
(* A Kubernetes name is the sequence of its dash-separated tokens, so that *)
(* "db-east" is <<"db", "east">> and Sprintf("%s-%s", a, b) is a \o b. The *)
(* empty cluster name (flag not set) is the empty sequence. A chart name   *)
(* is only ever compared with "ace", so it is left a single value.         *)
(***************************************************************************)
EXTENDS Sequences

aceChartName == "ace"

\* The value of spec.chart when it is nil.
NoChart == "<nil>"

\* Either the HelmRelease's own name or its chart marks the ACE release.
isACE(name, chart) == name = <<aceChartName>> \/ chart = aceChartName

\* Faulty: clusters are not told apart.
applicationName_Unsuffixed(name, chart, cluster) == name

\* Faulty: releases are not told apart.
applicationName_ClusterOnly(name, chart, cluster) ==
    IF isACE(name, chart) \/ cluster = <<>> THEN name ELSE cluster

\* Every release but ACE carries the cluster's name as a suffix, when there is one.
applicationName(name, chart, cluster) ==
    IF isACE(name, chart) \/ cluster = <<>> THEN name ELSE name \o cluster
=============================================================================
