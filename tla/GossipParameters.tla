--------------------------- MODULE GossipParameters -------------------------
(***************************************************************************)
(* The gossip parameters of a node, what ParameterManager.Validate lets    *)
(* through, and the sets of them that the predictors and the search for a  *)
(* training target propose (parameters.go, heuristic.go, inference.go,     *)
(* target_generation.go).                                                  *)
(*                                                                         *)
(* Gossip factors and heartbeat intervals are integers on a grid chosen by *)
(* the constants; the code rounds intervals to a nanosecond and factors    *)
(* not at all, the model rounds both to the grid.  Mesh degrees are exact. *)
(***************************************************************************)
EXTENDS Integers

CONSTANTS
  MinMesh, MaxMesh, MinFactor, MaxFactor, MinBeat, MaxBeat,   \* Config bounds
  Rules,                   \* the constants of HeuristicPredictor.Predict
  FactorSpan               \* half width of the learned factor correction

(* What Config.normalize establishes (config.go:101-179).                  *)
ASSUME BoundsAssumption ==
  /\ {MinMesh, MaxMesh, MinFactor, MaxFactor, MinBeat, MaxBeat} \subseteq Nat
  /\ 3 <= MinMesh /\ MinMesh <= MaxMesh
  /\ 0 < MinFactor /\ MinFactor <= MaxFactor
  /\ 0 < MinBeat /\ MinBeat <= MaxBeat
ASSUME RulesAssumption ==
  /\ Rules \in [mesh : Nat, meshBusy : Nat, meshLonely : Nat, factor : Nat,
                factorDuplicates : Nat, beat : Nat, beatSlow : Nat]
  /\ FactorSpan \in Nat

Fields == [mesh : Nat, low : Nat, high : Nat, factor : Nat, beat : Nat]

-----------------------------------------------------------------------------
Clamp(v, min, max) == IF v < min THEN min ELSE IF v > max THEN max ELSE v

(* Validate.  DLow and DHigh have no bounds of their own.                  *)
Valid(p) ==
  /\ MinMesh <= p.mesh /\ p.mesh <= MaxMesh
  /\ p.low <= p.mesh /\ p.mesh <= p.high
  /\ MinFactor <= p.factor /\ p.factor <= MaxFactor
  /\ MinBeat <= p.beat /\ p.beat <= MaxBeat

(* NewParameterManager.                                                    *)
InitialManager == [mesh |-> MinMesh, low |-> MinMesh, high |-> MaxMesh,
                   factor |-> MinFactor, beat |-> MinBeat]

-----------------------------------------------------------------------------
(* Predictions *)

Metrics == [busy : BOOLEAN, lonely : BOOLEAN, duplicates : BOOLEAN,
            slow : BOOLEAN, distrusted : BOOLEAN]

(* HeuristicPredictor.Predict.  "distrusted" stands for the whole guard of *)
(* the trust rule.  The rule for few peers overrides the one for a busy    *)
(* processor.                                                              *)
Heuristic(m) ==
  LET base == IF m.lonely THEN Rules.meshLonely
              ELSE IF m.busy THEN Rules.meshBusy ELSE Rules.mesh
      mesh == Clamp(IF m.distrusted THEN base + 1 ELSE base, MinMesh, MaxMesh)
  IN  [mesh   |-> mesh,
       low    |-> mesh \div 2,
       high   |-> mesh + 4,
       factor |-> Clamp(IF m.duplicates THEN Rules.factorDuplicates
                        ELSE Rules.factor, MinFactor, MaxFactor),
       beat   |-> Clamp(IF m.slow THEN Rules.beatSlow ELSE Rules.beat,
                        MinBeat, MaxBeat)]

\* Mutant: a correction may take the mesh degree above the maximum.
AroundUnbounded(mesh, factor, beat) ==
  LET m == IF mesh < MinMesh THEN MinMesh ELSE mesh
  IN  [mesh   |-> m,
       low    |-> Clamp(m \div 2, MinMesh, m),
       high   |-> Clamp(m + 4, m, MaxMesh),
       factor |-> Clamp(factor, MinFactor, MaxFactor),
       beat   |-> Clamp(beat, MinBeat, MaxBeat)]

(* The safe set around a mesh degree that CandidateParameters and          *)
(* ParametersFromModelOutput build.                                        *)
Around(mesh, factor, beat) ==
  LET m == Clamp(mesh, MinMesh, MaxMesh)
  IN  [mesh   |-> m,
       low    |-> Clamp(m \div 2, MinMesh, m),
       high   |-> Clamp(m + 4, m, MaxMesh),
       factor |-> Clamp(factor, MinFactor, MaxFactor),
       beat   |-> Clamp(beat, MinBeat, MaxBeat)]

(* CandidateParameters.                                                    *)
Candidates(current) ==
  {Around(mesh, factor, beat) :
     mesh   \in {current.mesh - 2, current.mesh, current.mesh + 2},
     factor \in {current.factor - FactorSpan, current.factor,
                 current.factor + FactorSpan},
     beat   \in {(current.beat * 3) \div 4, current.beat,
                (current.beat * 5) \div 4}}

(* ParametersFromModelOutput relative to the parameters in force: each of  *)
(* the three outputs corrects its field within a fixed span, of which the  *)
(* ends and, for the mesh degree, all integers between are taken.          *)
Decode(base) ==
  {Around(base.mesh + d, base.factor + f, base.beat + b) :
     d \in -2..2, f \in {-FactorSpan, 0, FactorSpan},
     b \in {-(base.beat \div 4), 0, base.beat \div 4}}
=============================================================================
