------------------------------- MODULE FleetMC -------------------------------
(* Instances of Fleet for TLC. *)
EXTENDS Fleet

\* A spoke on OpenShift with the liveness probe, and a plain cluster with an
\* administrator of its own.
SomeSites ==
    {[hosted |-> FALSE, openshift |-> TRUE, probed |-> TRUE],
     [hosted |-> TRUE, openshift |-> FALSE, probed |-> FALSE]}

\* The hub in managed mode, complete and without kubeconfig, in autonomous mode,
\* and with flags it refuses.
SomeOptions ==
    {[mode |-> "managed", file |-> "none", secret |-> TRUE],
     [mode |-> "managed", file |-> "none", secret |-> FALSE],
     [mode |-> "autonomous", file |-> "none", secret |-> FALSE],
     [mode |-> "managed", file |-> "unreadable", secret |-> FALSE]}

\* Two replicas writing to the principal, with and without a cluster name, and a
\* mode there is not.
SomeValues ==
    [mode : {"managed"}, remote : {TRUE}, named : BOOLEAN, replicas : {2}]
    \cup [mode : {"unknown"}, remote : {TRUE}, named : {TRUE}, replicas : {2}]
=============================================================================
