-------------------------- MODULE ControlledOutcome -------------------------
(***************************************************************************)
(* The synthetic stand-in for a network that the evaluation measures       *)
(* configurations with, the objective it ranks them by, and the guardrail  *)
(* that decides about a deployment (implementation.go, energy.go and       *)
(* target.go).                                                             *)
(*                                                                         *)
(* Ratios and costs are counted in Part of 1.0, losses in percent,         *)
(* latencies in milliseconds, gossip factors in steps of 0.05 and          *)
(* heartbeat intervals in steps of 250 ms; a quotient is rounded down to   *)
(* these.  The objective is counted in halves of a part, for its weights   *)
(* 1, 0.5, 0.5 and 10.                                                     *)
(***************************************************************************)
EXTENDS GossipParameters, Sequences, FiniteSetsExt

CONSTANTS
  Workload,    \* loss, latency and duplicates of the network itself
  Jitter       \* per seed what it adds to the loss, the latency, the duplicates
               \* and the processor load of each profile

(* Only their kind matters: a workload is any, and so is what a seed adds. *)
ASSUME OutcomeAssumption ==
  /\ Workload \in [loss : Int, latency : Int, duplicates : Int]
  /\ \A seed \in DOMAIN Jitter :
       Jitter[seed] \in [loss : Int, latency : Int, duplicates : Int, cpu : Int]

Part == 10000
Within01(v) == Clamp(v, 0, Part)

(* controlledProfile: four kinds of participants, in turn.                 *)
Profiles ==
  << [loss |-> -5, latency |-> -15, duplicates |-> -100, bandwidth |-> 3433, cpu |-> 20],
     [loss |->  0, latency |->   0, duplicates |->    0, bandwidth |-> 1373, cpu |-> 45],
     [loss |-> 10, latency |->  40, duplicates |->  500, bandwidth |->  343, cpu |-> 75],
     [loss |-> 20, latency |->  90, duplicates |-> 1000, bandwidth |->  171, cpu |-> 90] >>

ControlledProfile(i, seed) ==
  LET kind == Profiles[((i - 1) % Len(Profiles)) + 1]
  IN  [kind EXCEPT !.loss = @ + Jitter[seed].loss,
                   !.latency = @ + Jitter[seed].latency,
                   !.duplicates = @ + Jitter[seed].duplicates,
                   !.cpu = Clamp(@ + Jitter[seed].cpu, 0, 100)]

(* EstimateEnergy with the default weights, without memory.                *)
EstimateEnergy(cpu, bandwidth, duplicates, beat) ==
  35 * cpu + bandwidth \div 4 + (3 * duplicates) \div 20 + 250 * beat

\* Mutant: a wider mesh than the deployed one is credited for its paths.
OutcomeCredited(profile, p, currentMesh) ==
  LET loss       == Clamp(Workload.loss + profile.loss, 0, 100)
      deficit    == currentMesh - p.mesh
      duplicates == Within01(Workload.duplicates + profile.duplicates
                             + 60 * p.factor + 50 * p.mesh)
      latency    == 10 * (Workload.latency + profile.latency) + (75 * p.beat) \div 2
                    + 8 * p.mesh + (30 * deficit * (25 + loss)) \div 25
  IN  [delivery   |-> Within01(Part - 100 * loss - (60 * deficit * (25 + loss)) \div 25),
       duplicates |-> duplicates,
       latency    |-> Within01(latency),
       energy     |-> EstimateEnergy(profile.cpu, profile.bandwidth, duplicates, p.beat)]

(* controlledOutcome: a wide mesh costs duplicates and latency, a narrower *)
(* one than is deployed costs delivery and latency, the more the more is   *)
(* lost anyway.                                                            *)
Outcome(profile, p, currentMesh) ==
  LET loss       == Clamp(Workload.loss + profile.loss, 0, 100)
      deficit    == IF currentMesh > p.mesh THEN currentMesh - p.mesh ELSE 0
      duplicates == Within01(Workload.duplicates + profile.duplicates
                             + 60 * p.factor + 50 * p.mesh)
      latency    == 10 * (Workload.latency + profile.latency) + (75 * p.beat) \div 2
                    + 8 * p.mesh + (30 * deficit * (25 + loss)) \div 25
  IN  [delivery   |-> Within01(Part - 100 * loss - (60 * deficit * (25 + loss)) \div 25),
       duplicates |-> duplicates,
       latency    |-> Within01(latency),
       energy     |-> EstimateEnergy(profile.cpu, profile.bandwidth, duplicates, p.beat)]

(* aggregateOutcome: the mean over the participants, of which there is one *)
(* at least.                                                               *)
Aggregate(setting, p, currentMesh) ==
  LET of(i)   == Outcome(ControlledProfile(i, setting.seed), p, currentMesh)
      all     == 1..setting.peers
      sum(field) == SumFunction([i \in all |-> of(i)[field]])
  IN  [field \in {"delivery", "duplicates", "latency", "energy"} |->
         sum(field) \div setting.peers]

(* ScoreCandidate, with MinimumDeliveryRatio 0.95.                         *)
Objective(o) ==
  LET shortfall == Clamp(9500 - o.delivery, 0, Part)
  IN  2 * o.duplicates + o.latency + Within01(o.energy)
      + (shortfall * shortfall) \div 500

-----------------------------------------------------------------------------
(* evaluateGuardrailReference and deploymentDecision: both sets are        *)
(* measured as if the reference were deployed, and the candidate must not  *)
(* lose more than the tolerances nor have a worse objective.               *)
Accepts(setting, reference, candidate) ==
  LET current == Aggregate(setting, reference, reference.mesh)
      next    == Aggregate(setting, candidate, reference.mesh)
  IN  /\ next.delivery >= current.delivery - 100
      /\ next.duplicates <= current.duplicates + 200
      /\ next.energy <= current.energy + 200
      /\ Objective(next) <= Objective(current)

-----------------------------------------------------------------------------
(* One output of the network in quarter steps of the decoded mesh degree,  *)
(* and in whole steps of the other two corrections.                        *)
Outputs == (-8..8) \X {-1, 0, 1} \X {-1, 0, 1}

(* The mesh degrees next to a decoded one, given in quarters.              *)
Neighbors(decoded) ==
  {Clamp(v, MinMesh, MaxMesh) : v \in {decoded \div 4, (decoded + 2) \div 4,
                                       (decoded + 3) \div 4}}

(* selectNeighborMesh and selectBestMeshCandidate: the prediction with, of *)
(* the neighbours, the one with the best objective relative to the         *)
(* deployed mesh degree; of two equally good ones with the nearer, of two  *)
(* equally near ones with the lower.                                       *)
BestNeighbors(setting, current, output) ==
  LET decoded    == 4 * current.mesh + output[1]
      with(mesh) == Around(mesh, current.factor + output[2] * FactorSpan,
                           current.beat + output[3] * (current.beat \div 4))
      cost(mesh) == Objective(Aggregate(setting, with(mesh), current.mesh))
      far(mesh)  == IF 4 * mesh > decoded THEN 4 * mesh - decoded ELSE decoded - 4 * mesh
      before(m, n) == \/ cost(m) < cost(n)
                      \/ cost(m) = cost(n) /\ far(m) < far(n)
                      \/ cost(m) = cost(n) /\ far(m) = far(n) /\ m <= n
      meshes == Neighbors(decoded)
  IN  {with(m) : m \in {m \in meshes : \A n \in meshes : before(m, n)}}
=============================================================================
