---------------------------- MODULE Configuration ---------------------------
(***************************************************************************)
(* How a Config is built (config.go): the defaults, the functional options *)
(* in any order and number, and normalize, which repairs what they left.   *)
(* Every constructor of the package normalizes the Config it is given once *)
(* more, so that one built Config passes through normalize many times.     *)
(*                                                                         *)
(* Three pairs of bounds have the same options and the same repair.  The   *)
(* single fields fall into classes by their legal range.  Values are       *)
(* integers: mesh degrees, intervals and factors in steps of some grid,    *)
(* One being the 1.0 of the fields that are a fraction.                    *)
(***************************************************************************)
EXTENDS Integers

CONSTANTS
  Bounded,      \* the pairs of bounds: mesh degree, heartbeat, gossip factor
  Floor,        \* Floor[q]: the least legal minimum of pair q
  Default,      \* Default[q]: the pair of DefaultConfig
  Numbers,      \* the single numeric fields
  Capped,       \* those that may not exceed One
  Rule,         \* Rule[f]: least legal value, repair and default
  One, Half,    \* 1.0 and the 0.5 of the two quality weights
  Values,       \* values the options are called with
  MaxOptions    \* bound: number of options explored

ASSUME BoundedAssumption ==
  /\ Floor \in [Bounded -> Int]
  /\ Default \in [Bounded -> [min : Int, max : Int]]
  /\ \A q \in Bounded : /\ 0 < Floor[q] /\ Floor[q] <= Default[q].min
                        /\ Default[q].min <= Default[q].max
ASSUME FieldsAssumption ==
  /\ Rule \in [Numbers -> [least : Nat, repair : Nat, default : Nat]]
  /\ \A f \in Numbers : \A v \in {Rule[f].repair, Rule[f].default} :
       Rule[f].least <= v /\ (f \in Capped => v <= One)
  /\ {One, Half} \subseteq Nat /\ 0 < Half
ASSUME OptionsAssumption == Values \subseteq Int /\ MaxOptions \in Nat

Weights  == {"peerScore", "trustScore"}
Requests == {"none", "min", "max", "both"}

VARIABLES
  cfg,       \* the Config under construction, then the one that was built
  request,   \* request[q]: the last option given for pair q, and its values
  options,   \* number of options applied
  built      \* NewConfig has returned

configVars == <<cfg, request, options, built>>

DefaultConfig ==
  [bounds |-> Default,
   field  |-> [f \in Numbers |-> Rule[f].default],
   weight |-> [w \in Weights |-> Half]]

ConfigTypeOK ==
  /\ cfg \in [bounds : [Bounded -> [min : Int, max : Int]],
              field : [Numbers -> Int], weight : [Weights -> Int]]
  /\ built => /\ cfg.field \in [Numbers -> Nat]
              /\ cfg.weight \in [Weights -> Nat]
  /\ request \in [Bounded -> [last : Requests, min : Int, max : Int]]
  /\ options \in 0..MaxOptions
  /\ built \in BOOLEAN

ConfigInit ==
  /\ cfg = DefaultConfig
  /\ request = [q \in Bounded |-> [last |-> "none", min |-> 0, max |-> 0]]
  /\ options = 0
  /\ built = FALSE

-----------------------------------------------------------------------------
(* normalize *)

\* Mutant: the maximum is compared with the minimum before that is repaired.
RepairBoundsSwapped(q, b) ==
  [min |-> IF b.min < Floor[q] THEN Default[q].min ELSE b.min,
   max |-> IF b.max <= 0 \/ b.max < b.min THEN b.min ELSE b.max]

(* A minimum below the floor is replaced by the default one (3 for the     *)
(* mesh degree); then a maximum below the minimum is raised to it.         *)
RepairBounds(q, b) ==
  LET min == IF b.min < Floor[q] THEN Default[q].min ELSE b.min
  IN  [min |-> min, max |-> IF b.max <= 0 \/ b.max < min THEN min ELSE b.max]

Legal(f, v) == Rule[f].least <= v /\ (f \in Capped => v <= One)

\* Mutant: the repair lets a value through that is too large.
RepairFieldBelow(f, v) == IF v < Rule[f].least THEN Rule[f].repair ELSE v

(* An illegal value is replaced: by the default, or, for the weight of     *)
(* trust in the aggregation, by zero.                                      *)
RepairField(f, v) == IF Legal(f, v) THEN v ELSE Rule[f].repair

(* PeerScoreWeight and TrustScoreWeight are only replaced together.        *)
RepairWeights(w) ==
  IF (\E i \in Weights : w[i] < 0) \/ w["peerScore"] + w["trustScore"] <= 0
  THEN [i \in Weights |-> Half] ELSE w

Normalize(c) ==
  [bounds |-> [q \in Bounded |-> RepairBounds(q, c.bounds[q])],
   field  |-> [f \in Numbers |-> RepairField(f, c.field[f])],
   weight |-> RepairWeights(c.weight)]

-----------------------------------------------------------------------------
(* The options *)

MayOption == ~built /\ options < MaxOptions

SetBounds(q, min, max, last) ==
  /\ MayOption
  /\ cfg' = [cfg EXCEPT !.bounds[q] = [min |-> min, max |-> max]]
  /\ request' = [request EXCEPT ![q] = last]
  /\ options' = options + 1
  /\ UNCHANGED built

(* WithMinMeshDegree, WithMinHeartbeatInterval, WithMinGossipFactor: the   *)
(* maximum is pushed up if need be.                                        *)
WithMin(q, v) ==
  LET max == cfg.bounds[q].max
  IN  SetBounds(q, v, IF max < v THEN v ELSE max,
                [last |-> "min", min |-> v, max |-> 0])

\* Mutant: the minimum is left where it is.
WithMaxOnly(q, v) ==
  SetBounds(q, cfg.bounds[q].min, v, [last |-> "max", min |-> 0, max |-> v])

(* WithMaxMeshDegree, WithMaxHeartbeatInterval, WithMaxGossipFactor: the   *)
(* minimum is pushed down if need be.                                      *)
WithMax(q, v) ==
  LET min == cfg.bounds[q].min
  IN  SetBounds(q, IF min > v THEN v ELSE min, v,
                [last |-> "max", min |-> 0, max |-> v])

(* WithMeshBounds, WithHeartbeatBounds, WithGossipFactorBounds.            *)
WithBounds(q, min, max) ==
  SetBounds(q, min, max, [last |-> "both", min |-> min, max |-> max])

(* The options of a single field.                                          *)
WithField(f, v) ==
  /\ MayOption
  /\ cfg' = [cfg EXCEPT !.field[f] = v]
  /\ options' = options + 1
  /\ UNCHANGED <<request, built>>

(* WithPeerScoreWeight and WithTrustScoreWeight.                           *)
WithWeight(w, v) ==
  /\ MayOption
  /\ cfg' = [cfg EXCEPT !.weight[w] = v]
  /\ options' = options + 1
  /\ UNCHANGED <<request, built>>

(* The end of NewConfig.  A Config written down without NewConfig is       *)
(* normalized by the first constructor it is given to: the same step.      *)
NewConfig ==
  /\ ~built
  /\ cfg' = Normalize(cfg)
  /\ built' = TRUE
  /\ UNCHANGED <<request, options>>

(* NewOptimizer, NewRuntime, NewParameterManager, NewParameterSmoother and *)
(* every predictor normalize their own copy.                               *)
Construct ==
  /\ built
  /\ cfg' = Normalize(cfg)
  /\ UNCHANGED <<request, options, built>>

Option ==
  \/ \E q \in Bounded, v \in Values : WithMin(q, v) \/ WithMax(q, v)
  \/ \E q \in Bounded, v, w \in Values : WithBounds(q, v, w)
  \/ \E f \in Numbers, v \in Values : WithField(f, v)
  \/ \E w \in Weights, v \in Values : WithWeight(w, v)

ConfigNext == Option \/ NewConfig \/ Construct

ConfigSpec == ConfigInit /\ [][ConfigNext]_configVars

-----------------------------------------------------------------------------
(* Whatever options were given, in whatever order, a built Config is what  *)
(* the rest of the package takes for granted (the assumptions of module    *)
(* ParameterPipeline among them): bounds in order and above their floor,   *)
(* every field in its range, weights that can be divided by their sum      *)
(* ("enforced safety bounds", README.md:118).                              *)
BuiltIsSound ==
  built =>
    /\ \A q \in Bounded : /\ Floor[q] <= cfg.bounds[q].min
                          /\ cfg.bounds[q].min <= cfg.bounds[q].max
    /\ \A f \in Numbers : Legal(f, cfg.field[f])
    /\ cfg.weight["peerScore"] + cfg.weight["trustScore"] > 0

(* All components work with one and the same Config, although each of them *)
(* normalizes the copy it is given: normalizing again changes nothing.     *)
ComponentsAgree == [][built => cfg' = cfg]_configVars

(* The last option given for a pair of bounds is honoured whatever came    *)
(* before it, provided that it asks for bounds in order and no lower than  *)
(* the default minimum: an earlier minimum that is illegal is repaired to  *)
(* that one and would win over a lower maximum.                            *)
LastRequestHonoured ==
  \A q \in Bounded :
    LET r == request[q]
        b == cfg.bounds[q]
        least == Default[q].min
    IN  built =>
          /\ r.last = "min" /\ least <= r.min => b.min = r.min
          /\ r.last = "max" /\ least <= r.max => b.max = r.max
          /\ r.last = "both" /\ least <= r.min /\ r.min <= r.max =>
               b.min = r.min /\ b.max = r.max
=============================================================================
