-------------------------- MODULE MCLeaderElection --------------------------
(***************************************************************************)
(* Instances of LeaderElection for TLC: one unit is 15 seconds, so the TTL *)
(* is 3 units and the period of the ticker is 2.                           *)
(***************************************************************************)
EXTENDS LeaderElection, TLC

ReplicaSymmetry == Permutations(Replicas)

=============================================================================
