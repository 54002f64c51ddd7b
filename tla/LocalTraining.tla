---------------------------- MODULE LocalTraining ---------------------------
(***************************************************************************)
(* A node's local training: observations become samples (TargetSelection), *)
(* callers may add samples of their own, and the trainers of a network     *)
(* that is in use learn from them (NetworkTraining).                       *)
(***************************************************************************)
EXTENDS TargetSelection, NetworkTraining

CONSTANTS
  Given,          \* what else AppendTrainingSample is called with
  MaxObserved     \* bound: observations

ASSUME GivenAssumption == Given \subseteq Samples /\ MaxObserved \in Nat

VARIABLES observed

vars == <<selection, training, observed>>

Init ==
  /\ SelectionInit
  /\ TrainingInit
  /\ dataset = <<>>
  /\ observed = 0

Collecting == \A t \in Trainers : train[t].at = "start"

Select ==
  /\ Collecting
  /\ observed < MaxObserved
  /\ SelectionNext
  /\ UNCHANGED <<training, observed>>

(* A sample is 16 features and 3 targets with weight 1; an observation     *)
(* without a valid score leaves none.  The scan's variables are gone.      *)
Observe ==
  /\ Collecting
  /\ observed < MaxObserved
  /\ sample # Nothing \/ NoSample
  /\ observed' = observed + 1
  /\ dataset' = IF sample = Nothing THEN dataset ELSE Append(dataset, "good")
  /\ deployed' = Nothing /\ offered' = <<>> /\ best' = Nothing /\ sample' = Nothing
  /\ UNCHANGED <<net, version, holder, toWrite, train, read, imports>>

Give ==
  /\ Collecting
  /\ observed < MaxObserved
  /\ deployed = Nothing
  /\ observed' = observed + 1
  /\ \E s \in Given : dataset' = Append(dataset, s)
  /\ UNCHANGED <<selection, net, version, holder, toWrite, train, read, imports>>

(* The window is complete, and A happens.                                  *)
Then(A) ==
  /\ observed = MaxObserved
  /\ A
  /\ UNCHANGED <<selection, observed>>

Next == Select \/ Observe \/ Give \/ Then(TrainingNext)

(* A goroutine that waits for the network's lock or holds it is scheduled; *)
(* nobody has to import or to read.                                        *)
Fairness ==
  /\ \A t \in Trainers : WF_vars(Then(TrainerStep(t)))
  /\ WF_vars(Then(ImportWrites \/ ImportUnlocks))

Spec == Init /\ [][Next]_vars /\ Fairness

TypeOK == SelectionTypeOK /\ TrainingTypeOK /\ observed \in 0..MaxObserved
=============================================================================
