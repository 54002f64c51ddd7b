------------------------- MODULE MCRuntimeLifecycle -------------------------
(* Instances of RuntimeLifecycle for TLC: the controllers are model values *)
(* and interchangeable.                                                    *)
EXTENDS RuntimeLifecycle, TLC

Symmetric == Permutations(Controllers)
=============================================================================
