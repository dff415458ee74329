------------------------ MODULE MCIncidentLifecycle ------------------------
(* Instances of IncidentLifecycle for TLC. *)
EXTENDS IncidentLifecycle, TLC

CONSTANT key

\* Every incident id hashes to the same advisory lock: the worst case of the hash.
MCLockOf == [i \in Incidents |-> key]

\* Requests and replicas are interchangeable: a request takes any endpoint, and the
\* load balancer any replica.
Interchangeable == Permutations(Requests) \cup Permutations(Replicas)
============================================================================
