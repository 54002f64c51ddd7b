--------------------------- MODULE MCLocalTraining --------------------------
(***************************************************************************)
(* An instance of LocalTraining for TLC: deployed parameters in the middle *)
(* of the bounds, at one and outside of them, with intervals that four     *)
(* does not divide; two trainings of one network with a reader and an      *)
(* import.                                                                 *)
(***************************************************************************)
EXTENDS LocalTraining

SomeRules == [mesh |-> 8, meshBusy |-> 5, meshLonely |-> 10,
              factor |-> 5, factorDuplicates |-> 3, beat |-> 4, beatSlow |-> 8]
InForce ==
  {[mesh |-> 5, low |-> 3, high |-> 6, factor |-> 5, beat |-> 10],
   [mesh |-> 9, low |-> 4, high |-> 9, factor |-> 2, beat |-> 39]}
SomeScores ==
  {[objective |-> 10, energy |-> 4], [objective |-> 11, energy |-> 2],
   [objective |-> 12, energy |-> 4]}
TwoAndOne == [t \in Trainers |-> IF t = CHOOSE u \in Trainers : TRUE THEN 2 ELSE 1]
=============================================================================
