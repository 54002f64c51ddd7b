--------------------------- MODULE MCLiveHeartbeat --------------------------
(* Instances of LiveHeartbeat for TLC. *)
EXTENDS LiveHeartbeat
=============================================================================
