----------------------- MODULE ParameterPipelineProofs ----------------------
(***************************************************************************)
(* Proofs about Configuration and ParameterPipeline.                       *)
(*                                                                         *)
(* First, for every set of options, every order and number of them and all *)
(* integer values: one pass of normalize is enough, what it leaves is      *)
(* sound, and the last request for a pair of bounds wins.  Then, for every *)
(* configuration that normalize lets through and every weight of the EMA:  *)
(* whatever is predicted, the smoother only hands out valid sets; and with *)
(* a learned predictor it stays near the parameters in force.              *)
(***************************************************************************)
EXTENDS Configuration, ParameterPipeline, TLAPS

-----------------------------------------------------------------------------
(* Configuration *)

Pairs == [min : Int, max : Int]

(* Bounds that normalize leaves alone.                                     *)
SoundPair(q, b) == Floor[q] <= b.min /\ b.min <= b.max

(* What an option leaves behind before normalize is called.                *)
Asked(q) ==
  LET r == request[q]
      b == cfg.bounds[q]
  IN  /\ r.last = "min" => b.min = r.min /\ b.min <= b.max
      /\ r.last = "max" => b.max = r.max /\ b.min <= b.max
      /\ r.last = "both" => b = [min |-> r.min, max |-> r.max]

(* The inductive invariant.                                                *)
ConfigInv ==
  /\ ConfigTypeOK
  /\ ~built => \A q \in Bounded : Asked(q)
  /\ BuiltIsSound
  /\ LastRequestHonoured

-----------------------------------------------------------------------------
(* Floors and defaults are in order.                                       *)
LEMMA FloorIsInt ==
  ASSUME NEW q \in Bounded
  PROVE  /\ Floor[q] \in Int /\ 0 < Floor[q]
         /\ Default[q] \in Pairs /\ Floor[q] <= Default[q].min
BY BoundedAssumption DEF Pairs

(* What the repair of a pair of bounds leaves is sound, and sound bounds   *)
(* are left alone.                                                         *)
LEMMA RepairIsSound ==
  ASSUME NEW q \in Bounded, NEW b \in Pairs
  PROVE  /\ RepairBounds(q, b) \in Pairs
         /\ SoundPair(q, RepairBounds(q, b))
         /\ SoundPair(q, b) => RepairBounds(q, b) = b
BY FloorIsInt DEF RepairBounds, SoundPair, Pairs

(* A request that asks for enough survives the repair.                     *)
LEMMA RepairHonours ==
  ASSUME NEW q \in Bounded, NEW b \in Pairs
  PROVE  LET n == RepairBounds(q, b)
         IN  /\ Default[q].min <= b.min => n.min = b.min
             /\ Default[q].min <= b.max /\ b.min <= b.max => n.max = b.max
BY FloorIsInt DEF RepairBounds, Pairs

(* A repaired field is legal, and a legal one is not changed.              *)
LEMMA FieldIsLegal ==
  ASSUME NEW f \in Numbers, NEW v \in Int
  PROVE  /\ RepairField(f, v) \in Nat
         /\ Legal(f, RepairField(f, v))
         /\ Legal(f, v) => RepairField(f, v) = v
BY FieldsAssumption DEF RepairField, Legal

(* Repaired weights are sound, and sound ones are not changed.             *)
LEMMA WeightsAreSound ==
  ASSUME NEW w \in [Weights -> Int]
  PROVE  /\ RepairWeights(w) \in [Weights -> Nat]
         /\ RepairWeights(w)["peerScore"] + RepairWeights(w)["trustScore"] > 0
         /\ w \in [Weights -> Nat] /\ w["peerScore"] + w["trustScore"] > 0
              => RepairWeights(w) = w
<1>1. CASE (\E i \in Weights : w[i] < 0) \/ w["peerScore"] + w["trustScore"] <= 0
  <2>1. RepairWeights(w) = [i \in Weights |-> Half]
    BY <1>1 DEF RepairWeights
  <2>2. Half \in Nat /\ Half + Half > 0
    BY FieldsAssumption
  <2>3. ~(w \in [Weights -> Nat] /\ w["peerScore"] + w["trustScore"] > 0)
    BY <1>1 DEF Weights
  <2> QED
    BY <2>1, <2>2, <2>3 DEF Weights
<1>2. CASE ~((\E i \in Weights : w[i] < 0) \/ w["peerScore"] + w["trustScore"] <= 0)
  <2>1. RepairWeights(w) = w
    BY <1>2 DEF RepairWeights
  <2>2. w["peerScore"] \in Int /\ w["trustScore"] \in Int
    BY DEF Weights
  <2> QED
    BY <1>2, <2>1, <2>2
<1> QED
  BY <1>1, <1>2

Configs == [bounds : [Bounded -> Pairs], field : [Numbers -> Int],
            weight : [Weights -> Int]]

Sound(c) ==
  /\ c.field \in [Numbers -> Nat] /\ c.weight \in [Weights -> Nat]
  /\ \A q \in Bounded : SoundPair(q, c.bounds[q])
  /\ \A f \in Numbers : Legal(f, c.field[f])
  /\ c.weight["peerScore"] + c.weight["trustScore"] > 0

(* normalize makes any Config sound ...                                    *)
LEMMA NormalizeIsSound ==
  ASSUME NEW c \in Configs
  PROVE  Normalize(c) \in Configs /\ Sound(Normalize(c))
<1>1. \A q \in Bounded : c.bounds[q] \in Pairs
  BY DEF Configs
<1>2. \A f \in Numbers : c.field[f] \in Int
  BY DEF Configs
<1>3. c.weight \in [Weights -> Int]
  BY DEF Configs
<1>4. \A q \in Bounded : /\ RepairBounds(q, c.bounds[q]) \in Pairs
                         /\ SoundPair(q, RepairBounds(q, c.bounds[q]))
  BY <1>1, RepairIsSound
<1>5. \A f \in Numbers : /\ RepairField(f, c.field[f]) \in Nat
                        /\ Legal(f, RepairField(f, c.field[f]))
  BY <1>2, FieldIsLegal
<1>6. /\ RepairWeights(c.weight) \in [Weights -> Nat]
      /\ RepairWeights(c.weight)["peerScore"] + RepairWeights(c.weight)["trustScore"] > 0
  BY <1>3, WeightsAreSound
<1>7. RepairWeights(c.weight) \in [Weights -> Int]
  BY <1>6
<1>8. [f \in Numbers |-> RepairField(f, c.field[f])] \in [Numbers -> Int]
  BY <1>5
<1> QED
  BY <1>4, <1>5, <1>6, <1>7, <1>8 DEF Normalize, Sound, Configs

(* ... and a sound Config stays as it is.                                  *)
LEMMA NormalizeKeeps ==
  ASSUME NEW c \in Configs, Sound(c)
  PROVE  Normalize(c) = c
<1>1. c.bounds = [q \in Bounded |-> RepairBounds(q, c.bounds[q])]
  <2>1. \A q \in Bounded : RepairBounds(q, c.bounds[q]) = c.bounds[q]
    BY RepairIsSound DEF Configs, Sound
  <2> QED
    BY <2>1 DEF Configs
<1>2. c.field = [f \in Numbers |-> RepairField(f, c.field[f])]
  <2>1. \A f \in Numbers : RepairField(f, c.field[f]) = c.field[f]
    BY FieldIsLegal DEF Configs, Sound
  <2> QED
    BY <2>1 DEF Configs
<1>3. c.weight = RepairWeights(c.weight)
  BY WeightsAreSound DEF Configs, Sound
<1>4. c = [bounds |-> c.bounds, field |-> c.field, weight |-> c.weight]
  BY DEF Configs
<1> QED
  BY <1>1, <1>2, <1>3, <1>4 DEF Normalize

(* What normalize leaves is what the properties call a built Config.       *)
LEMMA SoundIsBuilt ==
  ASSUME cfg' \in Configs, built', Sound(cfg')
  PROVE  BuiltIsSound'
BY DEF BuiltIsSound, Sound, SoundPair, Legal

-----------------------------------------------------------------------------
(* The defaults satisfy the invariant.                                     *)
LEMMA ConfigInitially == ConfigInit => ConfigInv
<1> SUFFICES ASSUME ConfigInit PROVE ConfigInv
  OBVIOUS
<1>1. Default \in [Bounded -> Pairs]
  BY BoundedAssumption DEF Pairs
<1>2. [f \in Numbers |-> Rule[f].default] \in [Numbers -> Int]
  BY FieldsAssumption
<1>3. [w \in Weights |-> Half] \in [Weights -> Int]
  BY FieldsAssumption
<1>4. ~built /\ built \in BOOLEAN /\ options \in 0..MaxOptions
  <2>1. 0 \in 0..MaxOptions
    BY OptionsAssumption
  <2> QED
    BY <2>1, Zenon DEF ConfigInit
<1>5. cfg \in [bounds : [Bounded -> [min : Int, max : Int]],
              field : [Numbers -> Int], weight : [Weights -> Int]]
  BY <1>1, <1>2, <1>3 DEF ConfigInit, DefaultConfig, Pairs
<1>6. request \in [Bounded -> [last : Requests, min : Int, max : Int]]
      /\ \A q \in Bounded : request[q].last = "none"
  BY DEF ConfigInit, Requests
<1> QED
  BY <1>4, <1>5, <1>6
     DEF ConfigInv, ConfigTypeOK, Asked, BuiltIsSound, LastRequestHonoured

(* An option whose pair is what was last asked for keeps the invariant.    *)
LEMMA OptionKeeps ==
  ASSUME ConfigInv, NEW q \in Bounded, NEW min \in Int, NEW max \in Int,
         NEW last \in [last : Requests, min : Int, max : Int],
         last.last = "min" => min = last.min /\ min <= max,
         last.last = "max" => max = last.max /\ min <= max,
         last.last = "both" => min = last.min /\ max = last.max,
         SetBounds(q, min, max, last)
  PROVE  ConfigInv'
<1>1. ~built /\ ~built' /\ built' \in BOOLEAN /\ options' \in 0..MaxOptions
  BY OptionsAssumption DEF SetBounds, MayOption, ConfigInv, ConfigTypeOK
<1>2. cfg'.bounds = [cfg.bounds EXCEPT ![q] = [min |-> min, max |-> max]]
      /\ cfg'.field = cfg.field /\ cfg'.weight = cfg.weight
  BY DEF SetBounds, ConfigInv, ConfigTypeOK
<1>3. ConfigTypeOK'
  <2>1. cfg' \in [bounds : [Bounded -> [min : Int, max : Int]],
                  field : [Numbers -> Int], weight : [Weights -> Int]]
    BY DEF SetBounds, ConfigInv, ConfigTypeOK
  <2>2. request' \in [Bounded -> [last : Requests, min : Int, max : Int]]
    BY DEF SetBounds, ConfigInv, ConfigTypeOK
  <2> QED
    BY <1>1, <2>1, <2>2 DEF ConfigTypeOK
<1>4. \A p \in Bounded : Asked(p)'
  <2> SUFFICES ASSUME NEW p \in Bounded PROVE Asked(p)'
    OBVIOUS
  <2>1. CASE p = q
    <3>1. cfg'.bounds[p] = [min |-> min, max |-> max] /\ request'[p] = last
      BY <1>2, <2>1 DEF SetBounds, ConfigInv, ConfigTypeOK
    <3> QED
      BY <3>1 DEF Asked
  <2>2. CASE p # q
    <3>1. cfg'.bounds[p] = cfg.bounds[p] /\ request'[p] = request[p]
      BY <1>2, <2>2 DEF SetBounds, ConfigInv, ConfigTypeOK
    <3> QED
      BY <1>1, <3>1 DEF Asked, ConfigInv
  <2> QED
    BY <2>1, <2>2
<1> QED
  BY <1>1, <1>3, <1>4 DEF ConfigInv, BuiltIsSound, LastRequestHonoured

(* A configuration that is built is repaired.                              *)
LEMMA NewConfigKeeps ==
  ASSUME ConfigInv, NewConfig
  PROVE  ConfigInv'
<1>1. cfg \in Configs /\ cfg' = Normalize(cfg) /\ built' /\ ~built
  BY DEF NewConfig, ConfigInv, ConfigTypeOK, Configs, Pairs
<1>2. cfg' \in Configs /\ Sound(cfg')
  BY <1>1, NormalizeIsSound
<1>3. ConfigTypeOK'
  BY <1>1, <1>2 DEF NewConfig, ConfigInv, ConfigTypeOK, Configs, Pairs, Sound
<1>4. BuiltIsSound'
  BY <1>1, <1>2, SoundIsBuilt
<1>5. LastRequestHonoured'
  <2> SUFFICES ASSUME NEW q \in Bounded
               PROVE  LET r == request[q]
                          b == cfg'.bounds[q]
                          least == Default[q].min
                      IN  /\ r.last = "min" /\ least <= r.min => b.min = r.min
                          /\ r.last = "max" /\ least <= r.max => b.max = r.max
                          /\ r.last = "both" /\ least <= r.min /\ r.min <= r.max =>
                               b.min = r.min /\ b.max = r.max
    BY DEF LastRequestHonoured, NewConfig
  <2>1. cfg.bounds[q] \in Pairs /\ request[q] \in [last : Requests, min : Int, max : Int]
    BY DEF ConfigInv, ConfigTypeOK, Pairs
  <2>2. cfg'.bounds[q] = RepairBounds(q, cfg.bounds[q])
    BY <1>1 DEF Normalize
  <2>3. Asked(q)
    BY <1>1 DEF ConfigInv
  <2>4. Default[q].min \in Int
    BY FloorIsInt DEF Pairs
  <2>5. LET n == RepairBounds(q, cfg.bounds[q])
            b == cfg.bounds[q]
        IN  /\ Default[q].min <= b.min => n.min = b.min
            /\ Default[q].min <= b.max /\ b.min <= b.max => n.max = b.max
    BY <2>1, RepairHonours
  <2> QED
    BY <2>1, <2>2, <2>3, <2>4, <2>5 DEF Asked, Pairs
<1> QED
  BY <1>1, <1>3, <1>4, <1>5 DEF ConfigInv

(* A constructor's normalize changes nothing.                              *)
LEMMA ConstructKeeps ==
  ASSUME ConfigInv, Construct
  PROVE  UNCHANGED configVars
<1>1. cfg \in Configs /\ Sound(cfg)
  BY DEF Construct, ConfigInv, ConfigTypeOK, Configs, Pairs, BuiltIsSound, Sound, SoundPair
<1> QED
  BY <1>1, NormalizeKeeps DEF Construct, configVars

(* Every step keeps the invariant.                                         *)
LEMMA ConfigNextKeeps == ConfigInv /\ [ConfigNext]_configVars => ConfigInv'
<1> SUFFICES ASSUME ConfigInv, [ConfigNext]_configVars PROVE ConfigInv'
  OBVIOUS
<1>1. CASE UNCHANGED configVars
  BY <1>1 DEF configVars, ConfigInv, ConfigTypeOK, Asked, BuiltIsSound, LastRequestHonoured
<1>2. ASSUME NEW q \in Bounded, NEW v \in Values, WithMin(q, v) PROVE ConfigInv'
  <2> DEFINE max == cfg.bounds[q].max
             top == IF max < v THEN v ELSE max
  <2>1. v \in Int /\ top \in Int /\ v <= top
    BY OptionsAssumption DEF ConfigInv, ConfigTypeOK
  <2> HIDE DEF top
  <2> QED
    BY <1>2, <2>1, OptionKeeps DEF WithMin, Requests, top
<1>3. ASSUME NEW q \in Bounded, NEW v \in Values, WithMax(q, v) PROVE ConfigInv'
  <2> DEFINE min == cfg.bounds[q].min
             low == IF min > v THEN v ELSE min
  <2>1. v \in Int /\ low \in Int /\ low <= v
    BY OptionsAssumption DEF ConfigInv, ConfigTypeOK
  <2> HIDE DEF low
  <2> QED
    BY <1>3, <2>1, OptionKeeps DEF WithMax, Requests, low
<1>4. ASSUME NEW q \in Bounded, NEW v \in Values, NEW w \in Values,
             WithBounds(q, v, w)
      PROVE  ConfigInv'
  BY <1>4, OptionsAssumption, OptionKeeps DEF WithBounds, Requests
<1>5. ASSUME NEW f \in Numbers, NEW v \in Values, WithField(f, v) PROVE ConfigInv'
  BY <1>5, OptionsAssumption, SMTT(30)
     DEF WithField, MayOption, ConfigInv, ConfigTypeOK, Asked, BuiltIsSound, LastRequestHonoured
<1>6. ASSUME NEW w \in Weights, NEW v \in Values, WithWeight(w, v) PROVE ConfigInv'
  BY <1>6, OptionsAssumption, SMTT(30)
     DEF WithWeight, MayOption, ConfigInv, ConfigTypeOK, Asked, BuiltIsSound, LastRequestHonoured
<1>7. CASE NewConfig
  BY <1>7, NewConfigKeeps
<1>8. CASE Construct
  BY <1>1, <1>8, ConstructKeeps
<1> QED
  BY <1>1, <1>2, <1>3, <1>4, <1>5, <1>6, <1>7, <1>8 DEF ConfigNext, Option

(* The invariant holds in every reachable state.                           *)
THEOREM ConfigInvariant == ConfigSpec => []ConfigInv
BY ConfigInitially, ConfigNextKeeps, PTL DEF ConfigSpec

(* Type correctness; no negative value is left in a built Config.          *)
THEOREM ConfigTypeCorrect == ConfigSpec => []ConfigTypeOK
<1>1. ConfigInv => ConfigTypeOK
  BY DEF ConfigInv
<1> QED
  BY <1>1, ConfigInvariant, PTL

(* Whatever options are given, a built Config keeps the safety bounds of   *)
(* README.md:118 that every other component relies on (config.go:101-179). *)
THEOREM BuiltConfigsAreSound == ConfigSpec => []BuiltIsSound
<1>1. ConfigInv => BuiltIsSound
  BY DEF ConfigInv
<1> QED
  BY <1>1, ConfigInvariant, PTL

(* The last option of config.go:262-335 for a pair of bounds wins.         *)
THEOREM LastRequestWins == ConfigSpec => []LastRequestHonoured
<1>1. ConfigInv => LastRequestHonoured
  BY DEF ConfigInv
<1> QED
  BY <1>1, ConfigInvariant, PTL

(* normalize is idempotent: every component has the same Config.           *)
THEOREM AllComponentsAgree == ConfigSpec => ComponentsAgree
<1>1. ASSUME ConfigInv, [ConfigNext]_configVars PROVE [built => cfg' = cfg]_configVars
  <2> SUFFICES ASSUME ConfigNext, built PROVE cfg' = cfg
    BY <1>1
  <2>1. Construct
    BY DEF ConfigNext, Option, WithMin, WithMax, WithBounds, WithField, WithWeight,
           SetBounds, MayOption, NewConfig
  <2> QED
    BY <1>1, <2>1, ConstructKeeps DEF configVars
<1> QED
  BY <1>1, ConfigInvariant, PTL DEF ConfigSpec, ComponentsAgree

-----------------------------------------------------------------------------
(* ParameterPipeline *)

Bound == MinMesh..MaxMesh

(* The parameters in force are valid, from the construction on.            *)
ManagerIsValid == Valid(manager)

(* The inductive invariant.                                                *)
IInv ==
  /\ TypeOK
  /\ SmoothedIsValid
  /\ ManagerIsValid

-----------------------------------------------------------------------------
(* Arithmetic *)

(* A clamped value is within the bounds, and no further from any value     *)
(* within the bounds than before.                                          *)
LEMMA ClampRange ==
  ASSUME NEW v \in Int, NEW min \in Nat, NEW max \in Nat, min <= max
  PROVE  /\ Clamp(v, min, max) \in Nat
         /\ min <= Clamp(v, min, max) /\ Clamp(v, min, max) <= max
BY DEF Clamp

(* Bounds that overlap a range do not lead out of it.                      *)
LEMMA ClampKeeps ==
  ASSUME NEW v \in Int, NEW min \in Nat, NEW max \in Nat, min <= max,
         NEW low \in Int, NEW high \in Int, low <= v, v <= high,
         low <= max, min <= high
  PROVE  low <= Clamp(v, min, max) /\ Clamp(v, min, max) <= high
BY DEF Clamp

(* The defining property of integer division.                              *)
LEMMA Division ==
  ASSUME NEW n \in Int, NEW d \in Nat \ {0}
  PROVE  /\ n \div d \in Int
         /\ d * (n \div d) <= n /\ n < d * (n \div d) + d
OBVIOUS

(* A product grows with its factor.                                        *)
LEMMA Monotone ==
  ASSUME NEW a \in Nat, NEW b \in Int, NEW c \in Int, b <= c
  PROVE  a * b <= a * c
OBVIOUS

(* A quotient is bounded by what it is the quotient of.                    *)
LEMMA Cancel ==
  ASSUME NEW d \in Nat \ {0}, NEW q \in Int, NEW r \in Int, d * q < d * (r + 1)
  PROVE  q <= r
<1>1. CASE r + 1 <= q
  <2>1. d * (r + 1) <= d * q
    BY <1>1, Monotone
  <2> QED
    BY <2>1
<1> QED
  BY <1>1

(* Rounding does not cross an integer bound, and from below it even        *)
(* reaches a bound that is at most half a unit above.                      *)
LEMMA RoundBounds ==
  ASSUME NEW n \in Int, NEW d \in Nat \ {0}, NEW low \in Int, NEW high \in Int,
         2 * (d * low) <= 2 * n + d, n <= d * high
  PROVE  /\ Round(n, d) \in Int
         /\ low <= Round(n, d) /\ Round(n, d) <= high
<1> DEFINE q == (2 * n + d) \div (2 * d)
           e == 2 * d
<1>1. e \in Nat \ {0} /\ 2 * n + d \in Int
  OBVIOUS
<1>2. q \in Int /\ e * q <= 2 * n + d /\ 2 * n + d < e * q + e
  BY <1>1, Division
<1>3. low <= q
  <2>1. e * low <= 2 * n + d
    OBVIOUS
  <2>2. e * low < e * (q + 1)
    BY <1>1, <1>2, <2>1
  <2> HIDE DEF q, e
  <2> QED
    BY <1>1, <1>2, <2>2, Cancel
<1>4. q <= high
  <2>1. 2 * n + d < e * (high + 1)
    OBVIOUS
  <2>2. e * q < e * (high + 1)
    BY <1>2, <2>1
  <2> HIDE DEF q, e
  <2> QED
    BY <1>1, <1>2, <2>2, Cancel
<1> QED
  BY <1>2, <1>3, <1>4 DEF Round

(* A blend lies between any bounds of both samples.                        *)
LEMMA EmaBetween ==
  ASSUME NEW x \in Int, NEW y \in Int, NEW low \in Int, NEW high \in Int,
         low <= x, x <= high, low <= y, y <= high
  PROVE  Ema(x, y) \in Int /\ low <= Ema(x, y) /\ Ema(x, y) <= high
<1> DEFINE b == AlphaDen - AlphaNum
           n == AlphaNum * y + b * x
<1>1. AlphaNum \in Nat /\ b \in Nat /\ AlphaDen \in Nat \ {0}
  BY AlphaAssumption
<1>2. AlphaNum * low <= AlphaNum * y /\ AlphaNum * y <= AlphaNum * high
  BY <1>1, Monotone
<1>3. b * low <= b * x /\ b * x <= b * high
  BY <1>1, Monotone
<1>4. AlphaNum * low + b * low = AlphaDen * low
      /\ AlphaNum * high + b * high = AlphaDen * high
  BY <1>1
<1>5. n \in Int /\ AlphaDen * low <= n /\ n <= AlphaDen * high
  BY <1>1, <1>2, <1>3, <1>4
<1>6. 2 * (AlphaDen * low) <= 2 * n + AlphaDen
  BY <1>1, <1>5
<1> HIDE DEF n
<1>7. Round(n, AlphaDen) \in Int /\ low <= Round(n, AlphaDen)
      /\ Round(n, AlphaDen) <= high
  BY <1>1, <1>5, <1>6, RoundBounds
<1> QED
  BY <1>7 DEF Ema, n

(* A blend of naturals is one.                                             *)
LEMMA EmaNat ==
  ASSUME NEW x \in Nat, NEW y \in Nat
  PROVE  Ema(x, y) \in Nat
<1>1. CASE x <= y
  BY <1>1, EmaBetween
<1>2. CASE y <= x
  BY <1>2, EmaBetween
<1> QED
  BY <1>1, <1>2

(* With a weight of at most 1/4, a sample two degrees below is rounded     *)
(* away.                                                                   *)
LEMMA EmaHolds ==
  ASSUME 4 * AlphaNum <= AlphaDen,
         NEW low \in Int, NEW x \in Int, NEW y \in Int, low <= x, low - 2 <= y
  PROVE  Ema(x, y) \in Int /\ low <= Ema(x, y)
<1> DEFINE b == AlphaDen - AlphaNum
           n == AlphaNum * y + b * x
           high == IF x <= y THEN y ELSE x
<1>1. AlphaNum \in Nat /\ b \in Nat /\ AlphaDen \in Nat \ {0} /\ high \in Int
  BY AlphaAssumption
<1>2. AlphaNum * (low - 2) <= AlphaNum * y /\ AlphaNum * y <= AlphaNum * high
  BY <1>1, Monotone
<1>3. b * low <= b * x /\ b * x <= b * high
  BY <1>1, Monotone
<1>4. AlphaNum * (low - 2) + b * low = AlphaDen * low - 2 * AlphaNum
      /\ AlphaNum * high + b * high = AlphaDen * high
  BY <1>1
<1>5. n \in Int /\ AlphaDen * low - 2 * AlphaNum <= n /\ n <= AlphaDen * high
  BY <1>1, <1>2, <1>3, <1>4
<1>6. 2 * (AlphaDen * low) <= 2 * n + AlphaDen
  BY <1>1, <1>5
<1> HIDE DEF n, high
<1>7. Round(n, AlphaDen) \in Int /\ low <= Round(n, AlphaDen)
  BY <1>1, <1>5, <1>6, RoundBounds
<1> QED
  BY <1>7 DEF Ema, n

-----------------------------------------------------------------------------
(* Parameter sets *)

(* Every field has a range.                                                *)
LEMMA Bounds ==
  /\ MinMesh \in Nat /\ MaxMesh \in Nat /\ MinMesh <= MaxMesh
  /\ MinFactor \in Nat /\ MaxFactor \in Nat /\ MinFactor <= MaxFactor
  /\ MinBeat \in Nat /\ MaxBeat \in Nat /\ MinBeat <= MaxBeat
BY BoundsAssumption

(* clampLocked only hands out valid sets.                                  *)
LEMMA SafeIsValid ==
  ASSUME NEW p \in Fields
  PROVE  Safe(p) \in Fields /\ Valid(Safe(p))
<1>1. p.mesh \in Nat /\ p.low \in Nat /\ p.high \in Nat /\ p.factor \in Nat
      /\ p.beat \in Nat
  BY DEF Fields
<1> DEFINE m == Clamp(p.mesh, MinMesh, MaxMesh)
           f == Clamp(p.factor, MinFactor, MaxFactor)
           b == Clamp(p.beat, MinBeat, MaxBeat)
<1>2. m \in Nat /\ MinMesh <= m /\ m <= MaxMesh
  <2>1. \A v \in Nat : /\ Clamp(v, MinMesh, MaxMesh) \in Nat
                      /\ MinMesh <= Clamp(v, MinMesh, MaxMesh)
                      /\ Clamp(v, MinMesh, MaxMesh) <= MaxMesh
    BY Bounds, ClampRange
  <2> QED
    BY <1>1, <2>1
<1>3. f \in Nat /\ MinFactor <= f /\ f <= MaxFactor
  <2>1. \A v \in Nat : /\ Clamp(v, MinFactor, MaxFactor) \in Nat
                      /\ MinFactor <= Clamp(v, MinFactor, MaxFactor)
                      /\ Clamp(v, MinFactor, MaxFactor) <= MaxFactor
    BY Bounds, ClampRange
  <2> QED
    BY <1>1, <2>1
<1>4. b \in Nat /\ MinBeat <= b /\ b <= MaxBeat
  <2>1. \A v \in Nat : /\ Clamp(v, MinBeat, MaxBeat) \in Nat
                      /\ MinBeat <= Clamp(v, MinBeat, MaxBeat)
                      /\ Clamp(v, MinBeat, MaxBeat) <= MaxBeat
    BY Bounds, ClampRange
  <2> QED
    BY <1>1, <2>1
<1> DEFINE l == IF p.low > m THEN m ELSE p.low
           h == IF p.high < m THEN m ELSE p.high
<1>5. l \in Nat /\ l <= m /\ h \in Nat /\ m <= h
  BY <1>1, <1>2
<1>6. Safe(p) = [mesh |-> m, low |-> l, high |-> h, factor |-> f, beat |-> b]
  BY DEF Safe
<1> HIDE DEF m, f, b, l, h
<1> QED
  BY <1>2, <1>3, <1>4, <1>5, <1>6 DEF Fields, Valid

(* So do CandidateParameters and ParametersFromModelOutput.                *)
LEMMA AroundIsValid ==
  ASSUME NEW mesh \in Int, NEW factor \in Int, NEW beat \in Int
  PROVE  Around(mesh, factor, beat) \in Fields /\ Valid(Around(mesh, factor, beat))
<1> DEFINE m == Clamp(mesh, MinMesh, MaxMesh)
           f == Clamp(factor, MinFactor, MaxFactor)
           b == Clamp(beat, MinBeat, MaxBeat)
           l == Clamp(m \div 2, MinMesh, m)
           h == Clamp(m + 4, m, MaxMesh)
<1>1. m \in Nat /\ MinMesh <= m /\ m <= MaxMesh
  BY Bounds, ClampRange
<1>2. f \in Nat /\ MinFactor <= f /\ f <= MaxFactor
  BY Bounds, ClampRange
<1>3. b \in Nat /\ MinBeat <= b /\ b <= MaxBeat
  BY Bounds, ClampRange
<1> HIDE DEF m
<1>4. l \in Nat /\ l <= m
  <2>1. m \div 2 \in Int
    BY <1>1, Division
  <2> QED
    BY <1>1, <2>1, Bounds, ClampRange
<1>5. h \in Nat /\ m <= h
  <2>1. m + 4 \in Int /\ MaxMesh \in Nat
    BY <1>1, Bounds
  <2> QED
    BY <1>1, <2>1, ClampRange
<1>6. Around(mesh, factor, beat) =
        [mesh |-> m, low |-> l, high |-> h, factor |-> f, beat |-> b]
  BY DEF Around, m
<1> HIDE DEF f, b, l, h
<1> QED
  BY <1>1, <1>2, <1>3, <1>4, <1>5, <1>6 DEF Fields, Valid

(* The blend of two sets of fields is one.                                 *)
LEMMA BlendIsFields ==
  ASSUME NEW p \in Fields, NEW q \in Fields
  PROVE  Blend(p, q) \in Fields
BY EmaNat DEF Blend, Fields

(* The heuristic predicts a set of fields.                                 *)
LEMMA HeuristicIsFields ==
  ASSUME NEW m \in Metrics
  PROVE  Heuristic(m) \in Fields
<1> DEFINE base == IF m.lonely THEN Rules.meshLonely
                   ELSE IF m.busy THEN Rules.meshBusy ELSE Rules.mesh
           wish == IF m.distrusted THEN base + 1 ELSE base
           mesh == Clamp(wish, MinMesh, MaxMesh)
           factor == IF m.duplicates THEN Rules.factorDuplicates ELSE Rules.factor
           beat == IF m.slow THEN Rules.beatSlow ELSE Rules.beat
<1>1. wish \in Int /\ factor \in Int /\ beat \in Int
  BY RulesAssumption
<1> HIDE DEF wish, factor, beat
<1>2. mesh \in Nat /\ Clamp(factor, MinFactor, MaxFactor) \in Nat
      /\ Clamp(beat, MinBeat, MaxBeat) \in Nat
  BY <1>1, BoundsAssumption, ClampRange
<1>3. mesh \div 2 \in Nat
  BY <1>2
<1>4. Heuristic(m) = [mesh |-> mesh, low |-> mesh \div 2, high |-> mesh + 4,
                      factor |-> Clamp(factor, MinFactor, MaxFactor),
                      beat |-> Clamp(beat, MinBeat, MaxBeat)]
  BY DEF Heuristic, wish, factor, beat
<1> HIDE DEF mesh
<1> QED
  BY <1>2, <1>3, <1>4 DEF Fields

(* A learned prediction is valid and corrects the mesh degree by at most   *)
(* two.                                                                    *)
LEMMA DecodeIsValid ==
  ASSUME NEW base \in Fields, Valid(base), NEW p \in Decode(base)
  PROVE  /\ p \in Fields /\ Valid(p)
         /\ base.mesh - 2 <= p.mesh /\ p.mesh <= base.mesh + 2
<1> USE BoundsAssumption, RulesAssumption
<1>1. base.mesh \in Nat /\ base.factor \in Nat /\ base.beat \in Nat
      /\ MinMesh <= base.mesh /\ base.mesh <= MaxMesh
  BY DEF Fields, Valid
<1>2. base.beat \div 4 \in Int
  BY <1>1, Division
<1>3. PICK d \in -2..2, f \in {-FactorSpan, 0, FactorSpan},
           b \in {-(base.beat \div 4), 0, base.beat \div 4} :
        p = Around(base.mesh + d, base.factor + f, base.beat + b)
  BY DEF Decode
<1>4. base.mesh + d \in Int /\ base.factor + f \in Int /\ base.beat + b \in Int
  BY <1>1, <1>2
<1>5. p.mesh = Clamp(base.mesh + d, MinMesh, MaxMesh)
  BY <1>3 DEF Around
<1>6. base.mesh - 2 <= p.mesh /\ p.mesh <= base.mesh + 2
  <2> DEFINE v == base.mesh + d
  <2>1. v \in Int /\ base.mesh - 2 <= v /\ v <= base.mesh + 2
    BY <1>1
  <2>2. base.mesh - 2 \in Int /\ base.mesh + 2 \in Int
        /\ base.mesh - 2 <= MaxMesh /\ MinMesh <= base.mesh + 2
    BY <1>1, Bounds
  <2> HIDE DEF v
  <2>3. base.mesh - 2 <= Clamp(v, MinMesh, MaxMesh)
        /\ Clamp(v, MinMesh, MaxMesh) <= base.mesh + 2
    BY <2>1, <2>2, Bounds, ClampKeeps
  <2> QED
    BY <1>5, <2>3 DEF v
<1> QED
  BY <1>3, <1>4, <1>6, AroundIsValid

-----------------------------------------------------------------------------
(* The state *)

(* The pipeline starts with valid sets.                                    *)
LEMMA InitIInv == Init => IInv
<1> SUFFICES ASSUME Init PROVE IInv
  OBVIOUS
<1>1. InitialManager \in Fields /\ Valid(InitialManager)
  BY BoundsAssumption DEF InitialManager, Fields, Valid
<1>2. Zero \in Fields
  BY DEF Zero, Fields
<1> QED
  BY <1>1, <1>2 DEF Init, IInv, TypeOK, SmoothedIsValid, ManagerIsValid

(* Whatever set of fields a tick predicts, the smoother ends up with a     *)
(* valid one, and what is put in force then is that or what was.           *)
LEMMA TickKeepsIInv ==
  ASSUME IInv, NEW p \in Fields, Tick(p), Deploy(smoothed')
  PROVE  IInv'
<1> USE DEF IInv
<1>1. smoothed' \in Fields /\ Valid(smoothed')
  BY SafeIsValid, BlendIsFields DEF Tick, Smooth, TypeOK
<1>2. manager' \in {smoothed', manager}
  BY DEF Deploy
<1>3. manager' \in Fields /\ Valid(manager')
  BY <1>1, <1>2 DEF TypeOK, ManagerIsValid
<1>4. failed' \in BOOLEAN
  BY DEF Tick, TypeOK
<1>5. TypeOK'
  BY <1>1, <1>3, <1>4 DEF Tick, TypeOK
<1>6. SmoothedIsValid' /\ ManagerIsValid'
  BY <1>1, <1>3 DEF SmoothedIsValid, ManagerIsValid, Valid
<1> QED
  BY <1>5, <1>6

(* What a learned tick predicts.                                           *)
LEMMA LearnedPredicts ==
  ASSUME IInv, LearnedTick
  PROVE  \E p \in Fields :
           /\ Tick(p) /\ Deploy(smoothed')
           /\ ~failed' => /\ manager.mesh - 2 <= p.mesh
                          /\ p.mesh <= manager.mesh + 2
<1>1. PICK p \in Decode(manager) \cup (IF Failing THEN {Zero} ELSE {}) : Tick(p)
  BY DEF LearnedTick
<1>2. Zero \in Fields
  BY DEF Zero, Fields
<1>3. manager \in Fields /\ Valid(manager)
  BY DEF IInv, TypeOK, ManagerIsValid
<1>4. p \in Fields
        /\ (~failed' => manager.mesh - 2 <= p.mesh /\ p.mesh <= manager.mesh + 2)
  BY <1>1, <1>2, <1>3, DecodeIsValid DEF Tick
<1> QED
  BY <1>1, <1>4 DEF LearnedTick

(* Every step keeps the invariant.                                         *)
LEMMA NextKeepsIInv == IInv /\ [Next]_vars => IInv'
<1> SUFFICES ASSUME IInv, [Next]_vars PROVE IInv'
  OBVIOUS
<1>1. CASE Configure
  BY <1>1 DEF Configure, IInv, TypeOK, SmoothedIsValid, ManagerIsValid, Valid
<1>2. CASE HeuristicTick
  <2>1. PICK m \in Metrics : Tick(Heuristic(m))
    BY <1>2 DEF HeuristicTick
  <2>2. Heuristic(m) \in Fields
    BY HeuristicIsFields
  <2> QED
    BY <1>2, <2>1, <2>2, TickKeepsIInv DEF HeuristicTick
<1>3. CASE LearnedTick
  BY <1>3, LearnedPredicts, TickKeepsIInv
<1>4. CASE Reset
  <2>1. Zero \in Fields
    BY DEF Zero, Fields
  <2> QED
    BY <1>4, <2>1 DEF Reset, IInv, TypeOK, SmoothedIsValid, ManagerIsValid, Valid
<1>5. CASE UNCHANGED vars
  BY <1>5 DEF vars, IInv, TypeOK, SmoothedIsValid, ManagerIsValid, Valid
<1> QED
  BY <1>1, <1>2, <1>3, <1>4, <1>5 DEF Next

(* The invariant holds in every reachable state; in particular the         *)
(* parameters in force are always valid.                                   *)
THEOREM InductiveInvariant == Spec => []IInv
BY InitIInv, NextKeepsIInv, PTL DEF Spec

(* Every reachable state is well typed: no value becomes negative.         *)
THEOREM TypeCorrect == Spec => []TypeOK
<1>1. IInv => TypeOK
  BY DEF IInv
<1> QED
  BY <1>1, InductiveInvariant, PTL

(* Smoothing never produces an out-of-range or inconsistent set            *)
(* (smoothing.go:15-18), for any bounds, weight, rules and history.        *)
THEOREM SmoothingIsSafe == Spec => []SmoothedIsValid
<1>1. IInv => SmoothedIsValid
  BY DEF IInv
<1> QED
  BY <1>1, InductiveInvariant, PTL

(* All candidates and all learned predictions satisfy the bounds           *)
(* (target_generation.go:16, inference.go:57).                             *)
THEOREM DerivedAreSafe == Spec => []DerivedAreValid
<1>1. ASSUME IInv PROVE DerivedAreValid
  <2> USE BoundsAssumption, RulesAssumption
  <2>1. manager.mesh \in Nat /\ manager.factor \in Nat /\ manager.beat \in Nat
    BY <1>1 DEF IInv, TypeOK, Fields
  <2>2. (manager.beat * 3) \div 4 \in Int /\ (manager.beat * 5) \div 4 \in Int
    BY <2>1, Division
  <2>3. ASSUME NEW p \in Candidates(manager) PROVE Valid(p)
    <3>1. PICK mesh \in {manager.mesh - 2, manager.mesh, manager.mesh + 2},
               factor \in {manager.factor - FactorSpan, manager.factor,
                           manager.factor + FactorSpan},
               beat \in {(manager.beat * 3) \div 4, manager.beat,
                         (manager.beat * 5) \div 4} :
            p = Around(mesh, factor, beat)
      BY <2>3 DEF Candidates
    <3>2. mesh \in Int /\ factor \in Int /\ beat \in Int
      BY <2>1, <2>2
    <3> QED
      BY <3>1, <3>2, AroundIsValid
  <2>4. ASSUME NEW p \in Decode(manager) PROVE Valid(p)
    BY <1>1, <2>4, DecodeIsValid DEF IInv, TypeOK, ManagerIsValid
  <2> QED
    BY <2>3, <2>4 DEF DerivedAreValid
<1> QED
  BY <1>1, InductiveInvariant, PTL

-----------------------------------------------------------------------------
(* The learned predictor *)

(* The mesh degree of a tick, smoothed and clamped: as near to the         *)
(* parameters in force as prediction and smoother were.                    *)
LEMMA TickMesh ==
  ASSUME IInv, NEW p \in Fields, Tick(p), NEW low \in Int, NEW high \in Int,
         low <= p.mesh, p.mesh <= high,
         primed => low <= smoothed.mesh /\ smoothed.mesh <= high,
         low <= MaxMesh, MinMesh <= high
  PROVE  low <= smoothed'.mesh /\ smoothed'.mesh <= high
<1> USE BoundsAssumption
<1>1. p.mesh \in Int /\ smoothed.mesh \in Int
  BY DEF IInv, TypeOK, Fields
<1> DEFINE v == IF ~primed THEN p.mesh ELSE Ema(smoothed.mesh, p.mesh)
<1>2. v \in Int /\ low <= v /\ v <= high
  BY <1>1, EmaBetween
<1>3. smoothed'.mesh = Clamp(v, MinMesh, MaxMesh)
  BY DEF Tick, Smooth, Safe, Blend
<1> HIDE DEF v
<1> QED
  BY <1>2, <1>3, ClampKeeps

(* However many results the deployment guard rejects in a row, the         *)
(* smoother stays within two degrees of the parameters in force, or no     *)
(* further from them than it was.                                          *)
THEOREM SmootherStaysNear == Spec => NoRunaway
<1> DEFINE Near ==
      Learned /\ ~failed' /\ primed' =>
        LET distance == Distance(smoothed'.mesh, manager'.mesh)
        IN  \/ distance <= 2
            \/ primed /\ distance <= Distance(smoothed.mesh, manager.mesh)
<1>1. ASSUME IInv, [Next]_vars PROVE [Near]_vars
  <2> SUFFICES ASSUME Learned, ~failed', primed', Next
               PROVE  LET distance == Distance(smoothed'.mesh, manager'.mesh)
                      IN  \/ distance <= 2
                          \/ primed /\ distance <= Distance(smoothed.mesh, manager.mesh)
    BY <1>1
  <2> USE BoundsAssumption
  <2>1. manager.mesh \in Nat /\ MinMesh <= manager.mesh /\ manager.mesh <= MaxMesh
        /\ smoothed.mesh \in Nat
    BY <1>1 DEF IInv, TypeOK, ManagerIsValid, Valid, Fields
  <2>2. CASE LearnedTick
    <3>1. PICK p \in Fields :
            /\ Tick(p) /\ Deploy(smoothed')
            /\ manager.mesh - 2 <= p.mesh /\ p.mesh <= manager.mesh + 2
      BY <1>1, <2>2, LearnedPredicts
    <3> DEFINE before == Distance(smoothed.mesh, manager.mesh)
               reach  == IF primed /\ before > 2 THEN before ELSE 2
    <3>2. /\ reach \in Nat /\ 2 <= reach
          /\ reach <= 2 \/ (primed /\ reach <= before)
      BY <2>1 DEF Distance
    <3>3. primed => manager.mesh - reach <= smoothed.mesh
                    /\ smoothed.mesh <= manager.mesh + reach
      BY <2>1 DEF Distance
    <3> HIDE DEF reach
    <3>4. /\ manager.mesh - reach <= smoothed'.mesh
          /\ smoothed'.mesh <= manager.mesh + reach
      <4> DEFINE low  == manager.mesh - reach
                 high == manager.mesh + reach
      <4>1. low \in Int /\ high \in Int /\ low <= MaxMesh /\ MinMesh <= high
        BY <2>1, <3>2
      <4>2. low <= p.mesh /\ p.mesh <= high
        <5>1. p.mesh \in Nat
          BY DEF Fields
        <5> QED
          BY <2>1, <3>1, <3>2, <5>1
      <4>3. primed => low <= smoothed.mesh /\ smoothed.mesh <= high
        BY <3>3
      <4> HIDE DEF low, high
      <4>4. Tick(p) /\ IInv
        BY <1>1, <3>1
      <4>5. low <= smoothed'.mesh /\ smoothed'.mesh <= high
        BY <4>1, <4>2, <4>3, <4>4, TickMesh
      <4> QED
        BY <4>5 DEF low, high
    <3>5. IInv'
      BY <1>1, <3>1, TickKeepsIInv
    <3>6. smoothed'.mesh \in Nat
      BY <3>5 DEF IInv, TypeOK, Fields
    <3>7. manager' \in {smoothed', manager}
      BY <3>1 DEF Deploy
    <3>8. Distance(smoothed'.mesh, manager'.mesh) <= reach
      BY <2>1, <3>2, <3>4, <3>6, <3>7 DEF Distance
    <3>9. Distance(smoothed'.mesh, manager'.mesh) \in Int
      BY <2>1, <3>6, <3>7 DEF Distance
    <3>10. before \in Int
      BY <2>1 DEF Distance
    <3> HIDE DEF before
    <3>11. \/ Distance(smoothed'.mesh, manager'.mesh) <= 2
           \/ primed /\ Distance(smoothed'.mesh, manager'.mesh) <= before
      BY <3>2, <3>8, <3>9, <3>10
    <3> QED
      BY <3>11 DEF before
  <2>3. CASE Configure
    <3>1. smoothed' = smoothed /\ manager' = manager /\ primed
      BY <2>3 DEF Configure
    <3>2. Distance(smoothed.mesh, manager.mesh) \in Int
      BY <2>1 DEF Distance
    <3> QED
      BY <3>1, <3>2
  <2>4. CASE HeuristicTick \/ Reset
    BY <2>4 DEF HeuristicTick, Reset
  <2> QED
    BY <2>2, <2>3, <2>4 DEF Next
<1> QED
  BY <1>1, InductiveInvariant, PTL DEF Spec, NoRunaway

(* With a weight of at most 1/4 a learned predictor can only raise the     *)
(* mesh degree, once the smoother has caught up with it.                   *)
THEOREM LearnedRaises == Spec => LearnedOnlyRaises
<1> DEFINE Raises ==
      Learned /\ ~failed' /\ 4 * AlphaNum <= AlphaDen
        /\ primed /\ primed' /\ manager.mesh <= smoothed.mesh =>
          manager.mesh <= manager'.mesh /\ manager'.mesh <= smoothed'.mesh
<1>1. ASSUME IInv, [Next]_vars PROVE [Raises]_vars
  <2> SUFFICES ASSUME Learned, ~failed', 4 * AlphaNum <= AlphaDen, primed, primed',
                      manager.mesh <= smoothed.mesh, Next
               PROVE  manager.mesh <= manager'.mesh /\ manager'.mesh <= smoothed'.mesh
    BY <1>1
  <2> USE BoundsAssumption
  <2>1. manager.mesh \in Nat /\ MinMesh <= manager.mesh /\ manager.mesh <= MaxMesh
        /\ smoothed.mesh \in Nat
    BY <1>1 DEF IInv, TypeOK, ManagerIsValid, Valid, Fields
  <2>2. CASE LearnedTick
    <3>1. PICK p \in Fields :
            Tick(p) /\ Deploy(smoothed') /\ manager.mesh - 2 <= p.mesh
      BY <1>1, <2>2, LearnedPredicts
    <3> DEFINE v == Ema(smoothed.mesh, p.mesh)
    <3>2. v \in Int /\ manager.mesh <= v
      <4>1. p.mesh \in Int /\ manager.mesh \in Int /\ smoothed.mesh \in Int
        BY <2>1 DEF Fields
      <4> QED
        BY <2>1, <3>1, <4>1, EmaHolds
    <3>3. smoothed'.mesh = Clamp(v, MinMesh, MaxMesh)
      BY <3>1 DEF Tick, Smooth, Safe, Blend
    <3> HIDE DEF v
    <3>4. manager.mesh <= smoothed'.mesh /\ smoothed'.mesh \in Int
      BY <2>1, <3>2, <3>3 DEF Clamp
    <3>5. manager' \in {smoothed', manager}
      BY <3>1 DEF Deploy
    <3> QED
      BY <2>1, <3>4, <3>5
  <2>3. CASE Configure
    <3>1. smoothed' = smoothed /\ manager' = manager
      BY <2>3 DEF Configure
    <3> QED
      BY <2>1, <3>1
  <2>4. CASE HeuristicTick \/ Reset
    BY <2>4 DEF HeuristicTick, Reset
  <2> QED
    BY <2>2, <2>3, <2>4 DEF Next
<1> QED
  BY <1>1, InductiveInvariant, PTL DEF Spec, LearnedOnlyRaises

(* A blend comes nearer to the sample whenever the step is at least one    *)
(* half, and the sample is reached from neither side too early.            *)
LEMMA EmaNearer ==
  ASSUME NEW x \in Int, NEW y \in Int, 2 * AlphaNum * Distance(x, y) > AlphaDen
  PROVE  IF x < y THEN x + 1 <= Ema(x, y) ELSE Ema(x, y) <= x - 1
<1> DEFINE n == AlphaNum * y + (AlphaDen - AlphaNum) * x
           t == AlphaNum * (y - x)
           h == AlphaDen * x
           q == (2 * n + AlphaDen) \div (2 * AlphaDen)
<1>1. AlphaNum \in Nat /\ AlphaDen \in Nat \ {0}
  BY AlphaAssumption
<1>2. n \in Int /\ t \in Int /\ h \in Int /\ n = h + t
  BY <1>1
<1>3. 2 * AlphaDen \in Nat \ {0} /\ 2 * n + AlphaDen \in Int
  BY <1>1, <1>2
<1>4. /\ q \in Int
      /\ (2 * AlphaDen) * q <= 2 * n + AlphaDen
      /\ 2 * n + AlphaDen < (2 * AlphaDen) * q + 2 * AlphaDen
  BY <1>3, Division
<1>5. CASE x < y
  <2>1. 2 * t > AlphaDen
    BY <1>1, <1>5 DEF Distance
  <2>2. (2 * AlphaDen) * (x + 1) = 2 * h + 2 * AlphaDen
    BY <1>1
  <2>3. (2 * AlphaDen) * (x + 1) < (2 * AlphaDen) * (q + 1)
    <3> HIDE DEF q, n, t, h
    <3>1. (2 * AlphaDen) * (q + 1) = (2 * AlphaDen) * q + 2 * AlphaDen
      BY <1>1, <1>4
    <3> QED
      BY <1>1, <1>2, <1>4, <2>1, <2>2, <3>1
  <2>4. x + 1 <= q
    <3> HIDE DEF q
    <3> QED
      BY <1>3, <1>4, <2>3, Cancel
  <2> QED
    BY <1>5, <2>4 DEF Ema, Round
<1>6. CASE ~(x < y)
  <2>1. 2 * t < 0 - AlphaDen
    BY <1>1, <1>6 DEF Distance
  <2>2. (2 * AlphaDen) * ((x - 1) + 1) = 2 * h
    BY <1>1
  <2>3. (2 * AlphaDen) * q < (2 * AlphaDen) * ((x - 1) + 1)
    <3> HIDE DEF q, n, t, h
    <3> QED
      BY <1>1, <1>2, <1>4, <2>1, <2>2
  <2>4. q <= x - 1
    <3> HIDE DEF q
    <3> QED
      BY <1>3, <1>4, <2>3, Cancel
  <2> QED
    BY <1>6, <2>4 DEF Ema, Round
<1> QED
  BY <1>5, <1>6

(* Smoothing damps (smoothing.go:9-13), for any bounds, weight and rules,  *)
(* for heuristic and learned predictions alike: no overshoot, and progress *)
(* whenever the step is at least half a degree.                            *)
THEOREM SmoothingDamps == Spec => Damped
<1> DEFINE Damps ==
      ~failed' /\ primed /\ primed' /\ UNCHANGED predictor =>
         LET before == Distance(smoothed.mesh, predicted'.mesh)
             after  == Distance(smoothed'.mesh, predicted'.mesh)
             between == \/ smoothed.mesh <= smoothed'.mesh /\ smoothed'.mesh <= predicted'.mesh
                        \/ predicted'.mesh <= smoothed'.mesh /\ smoothed'.mesh <= smoothed.mesh
         IN  between /\ (2 * AlphaNum * before > AlphaDen => after < before)
<1>1. ASSUME IInv, [Next]_vars PROVE [Damps]_vars
  <2> SUFFICES ASSUME ~failed', primed, primed', UNCHANGED predictor, Next,
                      ~(UNCHANGED vars)
               PROVE  Damps
    BY <1>1
  <2> USE BoundsAssumption
  <2>1. smoothed.mesh \in Nat /\ MinMesh <= smoothed.mesh /\ smoothed.mesh <= MaxMesh
    BY <1>1 DEF IInv, TypeOK, SmoothedIsValid, Valid, Fields
  <2>2. PICK p \in Fields :
          Tick(p) /\ MinMesh <= p.mesh /\ p.mesh <= MaxMesh
    <3>1. CASE HeuristicTick
      <4>1. PICK m \in Metrics : Tick(Heuristic(m))
        BY <3>1 DEF HeuristicTick
      <4>2. Heuristic(m) \in Fields
        BY HeuristicIsFields
      <4>3. MinMesh <= Heuristic(m).mesh /\ Heuristic(m).mesh <= MaxMesh
        BY RulesAssumption DEF Heuristic, Clamp
      <4> QED
        BY <4>1, <4>2, <4>3
    <3>2. CASE LearnedTick
      <4>1. PICK p \in Decode(manager) \cup (IF Failing THEN {Zero} ELSE {}) : Tick(p)
        BY <3>2 DEF LearnedTick
      <4>2. p # Zero
        BY <4>1 DEF Tick
      <4>3. manager \in Fields /\ Valid(manager)
        BY <1>1 DEF IInv, TypeOK, ManagerIsValid
      <4> QED
        BY <4>1, <4>2, <4>3, DecodeIsValid DEF Valid
    <3>3. ~Configure /\ ~Reset
      BY DEF Configure, Reset
    <3> QED
      BY <3>1, <3>2, <3>3 DEF Next
  <2> DEFINE x == smoothed.mesh
             y == p.mesh
             v == Ema(x, y)
  <2>3. x \in Int /\ y \in Int /\ y \in Nat /\ x \in Nat
    BY <2>1, <2>2 DEF Fields
  <2>4. \/ x <= y /\ x <= v /\ v <= y /\ v \in Int
        \/ y <= x /\ y <= v /\ v <= x /\ v \in Int
    <3> HIDE DEF x, y
    <3>1. CASE x <= y
      <4>1. Ema(x, y) \in Int /\ x <= Ema(x, y) /\ Ema(x, y) <= y
        BY <2>3, <3>1, EmaBetween, SMTT(30)
      <4> QED
        BY <3>1, <4>1
    <3>2. CASE y <= x
      <4>1. Ema(x, y) \in Int /\ y <= Ema(x, y) /\ Ema(x, y) <= x
        BY <2>3, <3>2, EmaBetween, SMTT(30)
      <4> QED
        BY <3>2, <4>1
    <3> QED
      BY <2>3, <3>1, <3>2
  <2>5. smoothed'.mesh = v /\ predicted'.mesh = y
    <3>1. smoothed'.mesh = Clamp(v, MinMesh, MaxMesh) /\ predicted' = p
      BY <2>2 DEF Tick, Smooth, Safe, Blend
    <3>2. Clamp(v, MinMesh, MaxMesh) = v
      <4> HIDE DEF v
      <4>1. MinMesh <= v /\ v <= MaxMesh /\ v \in Int
        BY <2>1, <2>2, <2>3, <2>4
      <4> QED
        BY <4>1 DEF Clamp
    <3> QED
      BY <3>1, <3>2
  <2>6. 2 * AlphaNum * Distance(x, y) > AlphaDen => Distance(v, y) < Distance(x, y)
    <3> SUFFICES ASSUME 2 * AlphaNum * Distance(x, y) > AlphaDen
                 PROVE  Distance(v, y) < Distance(x, y)
      OBVIOUS
    <3>1. IF x < y THEN x + 1 <= v ELSE v <= x - 1
      <4> HIDE DEF x, y
      <4> QED
        BY <2>3, EmaNearer DEF v
    <3> HIDE DEF v, x, y
    <3> QED
      BY <2>3, <2>4, <3>1 DEF Distance
  <2> HIDE DEF v
  <2> QED
    BY <2>4, <2>5, <2>6
<1> QED
  BY <1>1, InductiveInvariant, PTL DEF Spec, Damped
=============================================================================
