----------------------------- MODULE MCHeartbeat ----------------------------
(* Instances of Heartbeat for TLC: the controllers are interchangeable. *)
EXTENDS Heartbeat, TLC

Symmetric == Permutations(Controllers)
=============================================================================
