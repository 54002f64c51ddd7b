----------------------------- MODULE MCLiveApply ----------------------------
(* Instances of LiveApply for TLC. *)
EXTENDS LiveApply
=============================================================================
