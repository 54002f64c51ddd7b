---------------------------- MODULE MCEvaluation ----------------------------
(***************************************************************************)
(* An instance of Evaluation for TLC: the default bounds of config.go:77-84 *)
(* on the grid of factors (0.05) and heartbeat intervals (250 ms), two     *)
(* sizes of network and two seeds, and outputs of the network at the ends  *)
(* of its range and between two mesh degrees.                              *)
(***************************************************************************)
EXTENDS Evaluation

DefaultRules == [mesh |-> 8, meshBusy |-> 5, meshLonely |-> 10,
                 factor |-> 5, factorDuplicates |-> 3,
                 beat |-> 4, beatSlow |-> 8]
TwoSizes == <<2, 0, 4, 2>>
Clean == [loss |-> 1, latency |-> 20, duplicates |-> 1000]
TwoJitters ==
  [s \in 42..43 |-> IF s = 42 THEN [loss |-> 0, latency |-> 0, duplicates |-> 0, cpu |-> 0]
                    ELSE [loss |-> 2, latency |-> -8, duplicates |-> 70,
                          cpu |-> 4]]
MixedOutputs ==
  {<<-4, 0, 0>>, <<4, 0, 0>>, <<-2, -1, 0>>, <<8, -1, -1>>, <<-8, 1, 1>>,
   <<0, 0, -1>>, <<1, 1, 0>>}
=============================================================================
