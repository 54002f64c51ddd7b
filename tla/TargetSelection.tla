--------------------------- MODULE TargetSelection --------------------------
(***************************************************************************)
(* The training target of one observation: GenerateTrainingSample measures *)
(* safe candidates around the deployed parameters, SelectBestCandidate     *)
(* scans the scores, and ParametersTarget encodes the chosen set relative  *)
(* to the deployed one (target_generation.go, target.go).  The evaluator   *)
(* answers anything about a candidate, or fails.                           *)
(*                                                                         *)
(* Objectives and energy costs are integers in a unit no larger than the   *)
(* tie tolerance of the code; the change magnitude is exact.               *)
(***************************************************************************)
EXTENDS GossipParameters, Sequences

CONSTANTS
  Deployed,        \* the parameters that may be in force
  Scores,          \* the pairs of objective and energy an evaluator may answer
  Tolerance,       \* objectiveTieTolerance
  MaxOffered       \* bound: candidates with a valid score

ASSUME SelectionAssumption ==
  /\ Deployed \subseteq Fields
  /\ Scores \subseteq [objective : Nat, energy : Nat]
  /\ Tolerance \in Nat /\ MaxOffered \in Nat \ {0}

VARIABLES
  deployed,     \* the "current" of the call, Nothing while there is none
  offered,      \* the valid scores in the order they were scanned
  best,         \* "best" of the scan, Nothing while not found
  sample        \* the Targets returned, Nothing before

selection == <<deployed, offered, best, sample>>

Nothing == [kind |-> "nothing"]

SelectionInit ==
  /\ deployed = Nothing
  /\ offered = <<>>
  /\ best = Nothing
  /\ sample = Nothing

-----------------------------------------------------------------------------
Distance(a, b) == IF a < b THEN b - a ELSE a - b

(* The quarter of a heartbeat interval, at least one.                      *)
Quarter(beat) == IF beat < 4 THEN 1 ELSE beat \div 4

(* parameterChangeMagnitude, multiplied by its three spans.                *)
Magnitude(p) ==
  LET span == IF FactorSpan = 0 THEN 1 ELSE FactorSpan
  IN  Distance(p.mesh, deployed.mesh) * span * Quarter(deployed.beat)
      + 2 * Distance(p.factor, deployed.factor) * Quarter(deployed.beat)
      + 2 * Distance(p.beat, deployed.beat) * span

Differ(a, b) == Distance(a, b) > Tolerance

(* The fixed order of the parameters.                                      *)
Precedes(p, q) ==
  \/ p.mesh < q.mesh
  \/ p.mesh = q.mesh /\ p.factor < q.factor
  \/ p.mesh = q.mesh /\ p.factor = q.factor /\ p.beat < q.beat

\* Mutant: of fully tied candidates the last one wins.
CandidateLessTied(a, b) ==
  IF Differ(a.objective, b.objective) THEN a.objective < b.objective
  ELSE IF Magnitude(a.set) # Magnitude(b.set) THEN Magnitude(a.set) < Magnitude(b.set)
  ELSE IF Differ(a.energy, b.energy) THEN a.energy < b.energy
  ELSE TRUE

(* candidateLess.                                                          *)
CandidateLess(a, b) ==
  IF Differ(a.objective, b.objective) THEN a.objective < b.objective
  ELSE IF Magnitude(a.set) # Magnitude(b.set) THEN Magnitude(a.set) < Magnitude(b.set)
  ELSE IF Differ(a.energy, b.energy) THEN a.energy < b.energy
  ELSE Precedes(a.set, b.set)

-----------------------------------------------------------------------------
(* GenerateTrainingSample is called.                                       *)
Generate ==
  /\ deployed = Nothing
  /\ deployed' \in Deployed
  /\ UNCHANGED <<offered, best, sample>>

(* One turn of the loops over the candidates.  An evaluator's error and an *)
(* invalid score leave everything as it is.                                *)
Evaluate ==
  /\ deployed # Nothing /\ sample = Nothing
  /\ Len(offered) < MaxOffered
  /\ \E set \in Candidates(deployed), score \in Scores :
       LET new == [kind |-> "scored", set |-> set, objective |-> score.objective,
                   energy |-> score.energy]
       IN  /\ offered' = Append(offered, new)
           /\ best' = IF best = Nothing \/ CandidateLess(new, best) THEN new ELSE best
  /\ UNCHANGED <<deployed, sample>>

\* Mutant: the interval is encoded against the whole interval.
TargetWhole(p, base) ==
  [kind   |-> "target",
   mesh   |-> Clamp(p.mesh - base.mesh, -2, 2),
   factor |-> Clamp(p.factor - base.factor, -FactorSpan, FactorSpan),
   beat   |-> Clamp((p.beat - base.beat) \div 4, -Quarter(base.beat), Quarter(base.beat))]

\* Mutant: the outputs are not limited to their range.
TargetUnclamped(p, base) ==
  [kind   |-> "target",
   mesh   |-> p.mesh - base.mesh,
   factor |-> p.factor - base.factor,
   beat   |-> p.beat - base.beat]

(* ParametersTarget relative to base; an output is given by the correction *)
(* it stands for, in units of the field.                                   *)
Target(p, base) ==
  [kind   |-> "target",
   mesh   |-> Clamp(p.mesh - base.mesh, -2, 2),
   factor |-> Clamp(p.factor - base.factor, -FactorSpan, FactorSpan),
   beat   |-> Clamp(p.beat - base.beat, -Quarter(base.beat), Quarter(base.beat))]

(* The end of the scan.                                                    *)
Choose ==
  /\ sample = Nothing
  /\ best # Nothing
  /\ sample' = Target(best.set, deployed)
  /\ UNCHANGED <<deployed, offered, best>>

(* "no valid candidate score": the observation is skipped.                 *)
NoSample == deployed # Nothing /\ best = Nothing

SelectionNext == Generate \/ Evaluate \/ Choose

(* ParametersFromModelOutput for a network that has learned a target       *)
(* exactly.  The interval's correction is scaled by the exact quarter here *)
(* and by the rounded one in Target.                                       *)
Learned(t, base) ==
  LET b == base.beat
      q == Quarter(b)
  IN  Around(base.mesh + t.mesh, base.factor + t.factor,
             IF b < 4 THEN b + t.beat ELSE (4 * b * q + t.beat * b) \div (4 * q))

-----------------------------------------------------------------------------
SelectionTypeOK ==
  /\ deployed \in Deployed \cup {Nothing}
  /\ Len(offered) <= MaxOffered
  /\ best = Nothing \/ \E i \in DOMAIN offered : best = offered[i]
  /\ sample = Nothing \/ sample \in
       [kind : {"target"}, mesh : -2..2, factor : -FactorSpan..FactorSpan,
        beat : -Quarter(deployed.beat)..Quarter(deployed.beat)]

(* The tolerance is not transitive, so that ties may add up, but each      *)
(* candidate adds one tolerance at most (target.go:75).                    *)
NearOptimal ==
  \A i \in DOMAIN offered :
    best.objective <= offered[i].objective + (Len(offered) - 1) * Tolerance

(* Two scores are nearly tied if they differ by less than the tolerance.   *)
NearlyTied(a, b) ==
  \/ a.objective # b.objective /\ ~Differ(a.objective, b.objective)
  \/ a.energy # b.energy /\ ~Differ(a.energy, b.energy)

(* "It never depends on the order candidates were generated in", as long   *)
(* as ties are exact: the choice is the least in the documented order of   *)
(* priorities, whatever the order of the scan (target.go:63-73).           *)
Lexicographic(a, b) ==
  \/ a.objective < b.objective
  \/ a.objective = b.objective /\ Magnitude(a.set) < Magnitude(b.set)
  \/ a.objective = b.objective /\ Magnitude(a.set) = Magnitude(b.set)
     /\ (\/ a.energy < b.energy
         \/ a.energy = b.energy /\ Precedes(a.set, b.set))

OrderIndependent ==
  (\A i, j \in DOMAIN offered : ~NearlyTied(offered[i], offered[j])) =>
    \A i \in DOMAIN offered : ~Lexicographic(offered[i], best)

(* What the scan has chosen so far is the best of what it was offered,     *)
(* exactly where that is defined and within the tolerances elsewhere       *)
(* (target.go:43-56 and 63-73).                                            *)
ChosenIsBest == NearOptimal /\ OrderIndependent

(* The target can be learned: a network that answers it proposes the set   *)
(* that was chosen, also when the bounds have cut the candidate or the     *)
(* deployed parameters lie outside of them; an interval cut by a bound may *)
(* be missed by one, for its two roundings (target.go:114-119 and          *)
(* inference.go:76-91).                                                    *)
TargetIsLearnable ==
  sample # Nothing =>
    LET p == Learned(sample, deployed)
    IN  /\ [p EXCEPT !.beat = 0] = [best.set EXCEPT !.beat = 0]
        /\ Distance(p.beat, best.set.beat) <= 1
        /\ best.set.beat \notin {MinBeat, MaxBeat} => p = best.set
=============================================================================
