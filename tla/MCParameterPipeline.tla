------------------------- MODULE MCParameterPipeline ------------------------
(***************************************************************************)
(* Instances of ParameterPipeline for TLC.  Factors are counted in steps   *)
(* of 0.05 and heartbeat intervals in steps of 250 ms; on this grid the    *)
(* defaults of config.go:77-84 and of heuristic.go:34-58 are exact.        *)
(***************************************************************************)
EXTENDS ParameterPipeline

DefaultRules == [mesh |-> 8, meshBusy |-> 5, meshLonely |-> 10,
                 factor |-> 5, factorDuplicates |-> 3,
                 beat |-> 4, beatSlow |-> 8]
=============================================================================
