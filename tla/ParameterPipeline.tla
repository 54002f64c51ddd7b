-------------------------- MODULE ParameterPipeline -------------------------
(***************************************************************************)
(* What happens to the values of the gossip parameters in one prediction   *)
(* tick: the heuristic or the learned prediction, the EMA smoother with    *)
(* its safety clamps, ParameterManager.Validate, the checks of a live      *)
(* router, and the parameters that end up in force (heuristic.go,          *)
(* inference.go, smoothing.go, parameters.go).                             *)
(***************************************************************************)
EXTENDS GossipParameters

CONSTANTS
  AlphaNum, AlphaDen,      \* EMAAlpha = AlphaNum / AlphaDen
  Predictors,              \* the predictors a Runtime may be given
  Failing,                 \* can its network fail to answer
  Guarded,                 \* is the deployment guard configured
  Live, Dscore, Dout       \* is a router attached; its other two degrees

ASSUME AlphaAssumption ==
  /\ AlphaNum \in Nat /\ AlphaDen \in Nat
  /\ 0 < AlphaNum /\ AlphaNum <= AlphaDen
ASSUME PredictorsAssumption ==
  /\ Predictors \subseteq {"heuristic", "learned"}
  /\ {Failing, Guarded} \subseteq BOOLEAN
ASSUME RouterAssumption ==
  Live \in BOOLEAN /\ Dscore \in Nat /\ Dout \in Nat

VARIABLES
  predictor,   \* the one that is asked: Runtime.predictor, or Runtime.learned
  predicted,   \* the latest prediction, before smoothing
  primed,      \* ParameterSmoother.primed
  smoothed,    \* ParameterSmoother.current
  manager,     \* ParameterManager.parameters
  failed       \* has an inference failed since the last Reset

vars == <<predictor, predicted, primed, smoothed, manager, failed>>

Learned == predictor = "learned"

-----------------------------------------------------------------------------
\* Mutant: the fraction is cut off, as a bare int conversion does.
RoundDown(num, den) == num \div den

(* math.Round of num / den, for a numerator that is not negative.          *)
Round(num, den) == (2 * num + den) \div (2 * den)

(* emaInt, emaFloat and emaDuration.                                       *)
Ema(previous, current) ==
  Round(AlphaNum * current + (AlphaDen - AlphaNum) * previous, AlphaDen)

\* Mutant: the clamp of the mesh degree leaves DLow and DHigh alone.
SafeMeshOnly(p) ==
  [p EXCEPT !.mesh = Clamp(p.mesh, MinMesh, MaxMesh),
            !.factor = Clamp(p.factor, MinFactor, MaxFactor),
            !.beat = Clamp(p.beat, MinBeat, MaxBeat)]

(* clampLocked: the bounds, then DLow and DHigh around the mesh degree.    *)
Safe(p) ==
  LET mesh == Clamp(p.mesh, MinMesh, MaxMesh)
  IN  [mesh   |-> mesh,
       low    |-> IF p.low > mesh THEN mesh ELSE p.low,
       high   |-> IF p.high < mesh THEN mesh ELSE p.high,
       factor |-> Clamp(p.factor, MinFactor, MaxFactor),
       beat   |-> Clamp(p.beat, MinBeat, MaxBeat)]

(* Each field moves by the EMA, DLow and DHigh independently of the mesh   *)
(* degree.                                                                 *)
Blend(previous, current) ==
  [mesh   |-> Ema(previous.mesh, current.mesh),
   low    |-> Ema(previous.low, current.low),
   high   |-> Ema(previous.high, current.high),
   factor |-> Ema(previous.factor, current.factor),
   beat   |-> Ema(previous.beat, current.beat)]

(* Smooth: the first sample after construction or Reset is only clamped.   *)
Smooth(p) == Safe(IF ~primed THEN p ELSE Blend(smoothed, p))

(* GossipSubParams.validate on the fields the adapter sets.                *)
RouterAccepts(p) ==
  /\ Dscore <= p.high
  /\ p.low <= p.mesh /\ p.mesh <= p.high
  /\ Dout < p.low /\ Dout < p.mesh \div 2

-----------------------------------------------------------------------------
Zero == [mesh |-> 0, low |-> 0, high |-> 0, factor |-> 0, beat |-> 0]

TypeOK ==
  /\ predictor \in Predictors
  /\ predicted \in Fields
  /\ primed \in BOOLEAN
  /\ smoothed \in Fields
  /\ manager \in Fields
  /\ failed \in BOOLEAN

Init ==
  /\ predictor \in Predictors
  /\ predicted = Zero
  /\ primed = FALSE
  /\ smoothed = Zero
  /\ manager = InitialManager
  /\ failed = FALSE

(* ConfigureFederatedLearning attaches a learned predictor or takes it away *)
(* again; the smoother keeps its history.                                  *)
Configure ==
  /\ predictor' \in Predictors \ {predictor}
  /\ UNCHANGED <<predicted, primed, smoothed, manager, failed>>

(* The deployment guard, if there is one, may turn p away.  Otherwise      *)
(* ApplyParameters puts p in force if validation and the router let it     *)
(* through.                                                                *)
Deploy(p) ==
  \/ manager' = IF Valid(p) /\ (Live => RouterAccepts(p)) THEN p ELSE manager
  \/ Guarded /\ UNCHANGED manager

(* Predict and Smooth with prediction p: whatever becomes of the result,   *)
(* the smoother has moved.                                                 *)
Tick(p) ==
  /\ predicted' = p
  /\ primed' = TRUE
  /\ smoothed' = Smooth(p)
  /\ failed' = (failed \/ p = Zero)
  /\ UNCHANGED predictor

(* A heuristic tick, for whatever thresholds the latest metrics cross.      *)
HeuristicTick ==
  /\ ~Learned
  /\ \E m \in Metrics : Tick(Heuristic(m))
  /\ Deploy(smoothed')

\* Mutant: the prediction starts from the smoother's own output, so that
\* rejected steps add up.
LearnedTickFromSmoother ==
  /\ Learned
  /\ \E p \in Decode(IF primed THEN smoothed ELSE manager) : Tick(p)
  /\ Deploy(smoothed')

(* A learned tick.  Without a network, or with one whose output is not     *)
(* finite, PredictWithOutput returns the zero set, which is smoothed like  *)
(* any other prediction.                                                   *)
LearnedTick ==
  /\ Learned
  /\ \E p \in Decode(manager) \cup (IF Failing THEN {Zero} ELSE {}) : Tick(p)
  /\ Deploy(smoothed')

(* ParameterSmoother.Reset.                                                *)
Reset ==
  /\ primed
  /\ primed' = FALSE
  /\ smoothed' = Zero
  /\ failed' = FALSE
  /\ UNCHANGED <<predictor, predicted, manager>>

Next == Configure \/ HeuristicTick \/ LearnedTick \/ Reset

Spec == Init /\ [][Next]_vars

-----------------------------------------------------------------------------
Distance(a, b) == IF a < b THEN b - a ELSE a - b

(* "smoothing can never itself produce an out-of-range or internally       *)
(* inconsistent parameter set" (smoothing.go:15-18): what the smoother     *)
(* hands out, validation accepts, from whatever history it was blended.    *)
SmoothedIsValid == primed => Valid(smoothed)

(* All candidates and learned predictions derived from the parameters in   *)
(* force satisfy the bounds ("safe candidates", target_generation.go:16;   *)
(* "safe parameter candidates", inference.go:57), at the edges of the      *)
(* range as well.                                                          *)
DerivedAreValid == \A p \in Candidates(manager) \cup Decode(manager) : Valid(p)

(* Smoothing damps: a blended mesh degree never passes the prediction, and *)
(* it comes strictly nearer whenever the EMA step is at least one half of  *)
(* a degree (smoothing.go:9-13).                                           *)
Damped ==
  [][~failed' /\ primed /\ primed' /\ UNCHANGED predictor =>
       LET before == Distance(smoothed.mesh, predicted'.mesh)
           after  == Distance(smoothed'.mesh, predicted'.mesh)
           between == \/ smoothed.mesh <= smoothed'.mesh /\ smoothed'.mesh <= predicted'.mesh
                      \/ predicted'.mesh <= smoothed'.mesh /\ smoothed'.mesh <= smoothed.mesh
       IN  between /\ (2 * AlphaNum * before > AlphaDen => after < before)]_vars

(* A learned prediction corrects the parameters in force by at most two    *)
(* degrees (inference.go:94-98), and so does what the smoother makes of    *)
(* it: however many results the deployment guard rejects in a row, the     *)
(* smoother does not run away from the parameters in force.  A history it  *)
(* has from a heuristic predictor, or from a failed inference that was     *)
(* smoothed as the zero set, may lie further off, and then it gets no      *)
(* further.                                                                *)
NoRunaway ==
  [][Learned /\ ~failed' /\ primed' =>
       LET distance == Distance(smoothed'.mesh, manager'.mesh)
       IN  \/ distance <= 2
           \/ primed /\ distance <= Distance(smoothed.mesh, manager.mesh)]_vars

(* A weight of the newest sample of at most 1/4, as by default, and a      *)
(* correction of at most two degrees: rounding half away from zero makes   *)
(* nothing of a correction downwards (8 and 6 blend to 7.5, that is, 8).   *)
(* Once the smoother has caught up with the parameters in force, a learned *)
(* predictor can only raise the mesh degree.                               *)
LearnedOnlyRaises ==
  [][Learned /\ ~failed' /\ 4 * AlphaNum <= AlphaDen
       /\ primed /\ primed' /\ manager.mesh <= smoothed.mesh =>
         manager.mesh <= manager'.mesh /\ manager'.mesh <= smoothed'.mesh]_vars

(* "ApplyParameters validates the proposed parameters.  If they are valid, *)
(* they are safely stored as the current parameter set"                    *)
(* (parameters.go:139-140).                                                *)
ValidIsStored ==
  [][~Guarded /\ primed' /\ smoothed' # smoothed /\ Valid(smoothed') =>
       manager' = smoothed']_vars
=============================================================================
