-------------------------- MODULE EvaluationProofs --------------------------
(***************************************************************************)
(* Proofs about Evaluation, for every grid of runs, number of rounds,      *)
(* workload, jitter and answer of the networks: what a run measures is     *)
(* what its guardrails let through, what the tables say it was, and a      *)
(* guarded deployment; it never loses to the defaults, and the results     *)
(* have every cell of the grid once.  How outcomes are computed matters    *)
(* only to AdaptationAlwaysPays: elsewhere Accepts is never expanded.      *)
(***************************************************************************)
EXTENDS Evaluation, SumTheorems

Entries == [current : Fields, candidate : Fields, accepted : BOOLEAN]

(* The trace has a last accepted entry, if it has one at all.              *)
HasLast(t) ==
  \/ Accepted(t) = {}
  \/ \E m \in Accepted(t) : \A k \in Accepted(t) : k <= m

Plain == Name \in {"gossipsub", "heuristic"}
Measured == stage \in {"measure", "reported", "finished"}

(* The inductive invariant.                                                *)
RunInv ==
  /\ cell \in 1..Runs
  /\ stage \in Stages
  /\ parameters \in Fields /\ Valid(parameters)
  /\ stage = "start" => parameters = Default /\ trace = <<>>
  /\ stage = "rounds" => ~Plain
  /\ Name = "gossipsub" => parameters = Default
  /\ ~Measured => manager = InitialManager
  /\ Measured => \/ manager = parameters
                 \/ manager = InitialManager /\ parameters = Default
  /\ row = IF stage \in {"reported", "finished"} THEN Shown(parameters) ELSE Unreported

TraceInv ==
  /\ trace \in Seq(Entries)
  /\ HasLast(trace)
  /\ Plain => trace = <<>>
  /\ ~Plain => LastAccepted(trace) = parameters

IInv == RunInv /\ TraceInv /\ DriftBounded /\ TrajectoryConnects

-----------------------------------------------------------------------------
(* The default set is one a mesh can run with.                             *)
LEMMA DefaultIsField == Default \in Fields /\ Valid(Default)
BY DefaultAssumption DEF Default, Fields

(* So is the set the manager starts with.                                  *)
LEMMA ManagerStarts == InitialManager \in Fields
BY BoundsAssumption DEF InitialManager, Fields, Clamp

(* Whatever a set is built around, the bounds hold.                        *)
LEMMA AroundIsValid ==
  ASSUME NEW mesh \in Int, NEW factor \in Int, NEW beat \in Int
  PROVE  Around(mesh, factor, beat) \in Fields /\ Valid(Around(mesh, factor, beat))
<1> DEFINE m == Clamp(mesh, MinMesh, MaxMesh)
<1>1. m \in Nat /\ MinMesh <= m /\ m <= MaxMesh
  BY BoundsAssumption DEF Clamp
<1>2. m \div 2 \in Nat /\ m \div 2 <= m
  BY <1>1
<1> HIDE DEF m
<1>3. /\ Clamp(m \div 2, MinMesh, m) \in Nat /\ Clamp(m \div 2, MinMesh, m) <= m
      /\ Clamp(m + 4, m, MaxMesh) \in Nat /\ m <= Clamp(m + 4, m, MaxMesh)
      /\ Clamp(factor, MinFactor, MaxFactor) \in MinFactor..MaxFactor
      /\ Clamp(beat, MinBeat, MaxBeat) \in MinBeat..MaxBeat
  BY <1>1, <1>2, BoundsAssumption DEF Clamp
<1>4. Around(mesh, factor, beat) =
        [mesh |-> m, low |-> Clamp(m \div 2, MinMesh, m),
         high |-> Clamp(m + 4, m, MaxMesh),
         factor |-> Clamp(factor, MinFactor, MaxFactor),
         beat |-> Clamp(beat, MinBeat, MaxBeat)]
  BY DEF Around, m
<1> QED
  BY <1>1, <1>3, <1>4, BoundsAssumption DEF Fields, Valid

(* What the heuristic makes of a default is valid.                         *)
LEMMA HeuristicIsValid ==
  ASSUME NEW m
  PROVE  Heuristic(m) \in Fields /\ Valid(Heuristic(m))
<1> DEFINE base == IF m.lonely THEN Rules.meshLonely
                   ELSE IF m.busy THEN Rules.meshBusy ELSE Rules.mesh
           mesh == Clamp(IF m.distrusted THEN base + 1 ELSE base, MinMesh, MaxMesh)
           factor == Clamp(IF m.duplicates THEN Rules.factorDuplicates
                           ELSE Rules.factor, MinFactor, MaxFactor)
           beat == Clamp(IF m.slow THEN Rules.beatSlow ELSE Rules.beat, MinBeat, MaxBeat)
<1>1. base \in Nat
  BY RulesAssumption
<1>2. mesh \in MinMesh..MaxMesh
  BY <1>1, BoundsAssumption DEF Clamp
<1>3. factor \in MinFactor..MaxFactor /\ beat \in MinBeat..MaxBeat
  BY RulesAssumption, BoundsAssumption DEF Clamp
<1>4. Heuristic(m) = [mesh |-> mesh, low |-> mesh \div 2, high |-> mesh + 4,
                      factor |-> factor, beat |-> beat]
  BY DEF Heuristic
<1> HIDE DEF mesh, factor, beat
<1>5. mesh \in Nat /\ mesh \div 2 \in Nat /\ mesh \div 2 <= mesh
  BY <1>2, BoundsAssumption
<1> QED
  BY <1>2, <1>3, <1>4, <1>5, BoundsAssumption DEF Fields, Valid

(* The candidate of a round is a set the manager would take.               *)
LEMMA NeighborsAreValid ==
  ASSUME NEW setting, NEW p \in Fields, NEW output \in Outputs,
         NEW candidate \in BestNeighbors(setting, p, output)
  PROVE  candidate \in Fields /\ Valid(candidate)
<1>1. output[1] \in Int /\ output[2] \in Int /\ output[3] \in Int
  BY DEF Outputs
<1>2. p.mesh \in Nat /\ p.factor \in Nat /\ p.beat \in Nat
  BY DEF Fields
<1> DEFINE decoded == 4 * p.mesh + output[1]
           factor == p.factor + output[2] * FactorSpan
           beat == p.beat + output[3] * (p.beat \div 4)
<1>3. decoded \in Int /\ factor \in Int /\ beat \in Int
  BY <1>1, <1>2, RulesAssumption
<1>4. \A m \in Neighbors(decoded) : m \in Int
  BY <1>3, BoundsAssumption DEF Neighbors, Clamp
<1>5. PICK m \in Neighbors(decoded) : candidate = Around(m, factor, beat)
  BY DEF BestNeighbors
<1> HIDE DEF decoded, factor, beat
<1> QED
  BY <1>3, <1>4, <1>5, AroundIsValid

-----------------------------------------------------------------------------
(* What the tables read off the trace, after one more round.               *)
LEMMA AppendAccepted ==
  ASSUME NEW t \in Seq(Entries), NEW e \in Entries
  PROVE  Accepted(Append(t, e)) =
           IF e.accepted THEN Accepted(t) \cup {Len(t) + 1} ELSE Accepted(t)
BY DEF Accepted

(* A trace that gains a row has that row last, if it was accepted.         *)
LEMMA LastOfAppend ==
  ASSUME NEW t \in Seq(Entries), NEW e \in Entries, HasLast(t)
  PROVE  /\ HasLast(Append(t, e))
         /\ LastAccepted(Append(t, e)) =
              IF e.accepted THEN e.candidate ELSE LastAccepted(t)
<1> DEFINE u == Append(t, e)
           n == Len(t) + 1
<1>0. /\ n \in Nat /\ u[n] = e /\ n \in DOMAIN u
      /\ \A k \in DOMAIN t : u[k] = t[k] /\ k \in Nat /\ k <= n
  OBVIOUS
<1>1. Accepted(t) \subseteq DOMAIN t
  BY DEF Accepted
<1>2. CASE e.accepted
  <2>1. Accepted(u) = Accepted(t) \cup {n}
    BY <1>2, AppendAccepted
  <2>2. \A k \in Accepted(u) : k \in Nat /\ k <= n
    BY <2>1, <1>0, <1>1
  <2>3. Max(Accepted(u)) = n
    BY <2>1, <2>2, <1>0 DEF Max
  <2>4. HasLast(u)
    BY <2>1, <2>2 DEF HasLast
  <2> QED
    BY <2>1, <2>3, <2>4, <1>0, <1>2 DEF LastAccepted
<1>3. CASE ~e.accepted
  <2>1. Accepted(u) = Accepted(t)
    BY <1>3, AppendAccepted
  <2>2. HasLast(u)
    BY <2>1 DEF HasLast
  <2>3. CASE Accepted(t) = {}
    BY <2>1, <2>2, <2>3, <1>3 DEF LastAccepted
  <2>4. CASE Accepted(t) # {}
    <3>1. PICK m \in Accepted(t) : \A k \in Accepted(t) : k <= m
      BY <2>4 DEF HasLast
    <3>2. Max(Accepted(t)) \in Accepted(t)
      BY <3>1, <1>0, <1>1 DEF Max
    <3>3. u[Max(Accepted(t))] = t[Max(Accepted(t))]
      BY <3>2, <1>0, <1>1
    <3> QED
      BY <2>1, <2>2, <2>4, <3>3, <1>3 DEF LastAccepted
  <2> QED
    BY <2>3, <2>4
<1> QED
  BY <1>2, <1>3
-----------------------------------------------------------------------------
(* The sizes of network, and the grid of runs they give.                   *)

(* The sizes that were asked for, or the one that is taken instead.        *)
Positive(n) == {PeerCounts[j] : j \in {k \in 1..n : PeerCounts[k] > 0}}

(* A sequence has each of some values once, and nothing else.              *)
OneEach(s, values) ==
  /\ s \in Seq(Int)
  /\ Range(s) = values
  /\ \A i, j \in DOMAIN s : s[i] = s[j] => i = j

(* What Kept is defined to be, for the sizes up to the n-th.               *)
KeptUpTo(g, n) ==
  g = [i \in 0..n |->
        IF i = 0 THEN <<>>
        ELSE IF PeerCounts[i] > 0 /\ PeerCounts[i] \notin Range(g[i - 1])
             THEN Append(g[i - 1], PeerCounts[i]) ELSE g[i - 1]]

(* The equation that defines Kept has a solution: by induction over the    *)
(* length of the list.                                                     *)
LEMMA KeptExists == \A n \in Nat : \E g : KeptUpTo(g, n)
<1> DEFINE T == {n \in Nat : \E g : KeptUpTo(g, n)}
<1>1. 0 \in T
  <2>1. KeptUpTo([i \in 0..0 |-> <<>>], 0)
    BY DEF KeptUpTo
  <2> QED
    BY <2>1
<1>2. ASSUME NEW n \in T PROVE n + 1 \in T
  <2>1. PICK g : KeptUpTo(g, n)
    OBVIOUS
  <2> DEFINE step(f, i) == IF PeerCounts[i] > 0 /\ PeerCounts[i] \notin Range(f[i - 1])
                           THEN Append(f[i - 1], PeerCounts[i]) ELSE f[i - 1]
             h == [i \in 0..(n + 1) |-> IF i = 0 THEN <<>> ELSE step(g, i)]
  <2>0. \A i \in 0..n : i \in 0..(n + 1)
    OBVIOUS
  <2>2. \A i \in 0..n : h[i] = g[i]
    <3>1. \A i \in 0..n : h[i] = IF i = 0 THEN <<>> ELSE step(g, i)
      <4> HIDE DEF step
      <4> QED
        BY <2>0
    <3>2. \A i \in 0..n : g[i] = IF i = 0 THEN <<>> ELSE step(g, i)
      BY <2>1, Zenon DEF KeptUpTo
    <3> HIDE DEF h, step
    <3> QED
      BY <3>1, <3>2
  <2>3. \A i \in 0..(n + 1) : i # 0 => i - 1 \in 0..n
    OBVIOUS
  <2>4. \A i \in 0..(n + 1) : i # 0 => step(g, i) = step(h, i)
    BY <2>2, <2>3
  <2> HIDE DEF step
  <2>5. h = [i \in 0..(n + 1) |-> IF i = 0 THEN <<>> ELSE step(g, i)]
    OBVIOUS
  <2> HIDE DEF h
  <2>6. h = [i \in 0..(n + 1) |-> IF i = 0 THEN <<>> ELSE step(h, i)]
    BY <2>4, <2>5
  <2>7. KeptUpTo(h, n + 1)
    BY <2>6, Zenon DEF KeptUpTo, step
  <2> QED
    BY <2>7
<1>3. T = Nat
  <2> HIDE DEF T
  <2>1. T \subseteq Nat
    BY DEF T
  <2> QED
    BY <1>1, <1>2, <2>1, SetInduction
<1> QED
  BY <1>3

(* So Kept satisfies it.                                                   *)
LEMMA KeptIs == KeptUpTo(Kept, Len(PeerCounts))
<1>1. Len(PeerCounts) \in Nat
  BY EvaluationAssumption
<1>2. \E g : KeptUpTo(g, Len(PeerCounts))
  BY <1>1, KeptExists
<1> QED
  BY <1>2, Zenon DEF Kept, KeptUpTo

(* The values of a list, from both sides.                                  *)
LEMMA RangeIs ==
  ASSUME NEW t, NEW X, \A i \in DOMAIN t : t[i] \in X, \A x \in X : \E i \in DOMAIN t : t[i] = x
  PROVE  Range(t) = X
BY DEF Range

(* A value that is not in a list of distinct values can be added to it.    *)
LEMMA AppendNew ==
  ASSUME NEW s, NEW values, OneEach(s, values), NEW v \in Int, v \notin values
  PROVE  OneEach(Append(s, v), values \cup {v})
<1> DEFINE t == Append(s, v)
           n == Len(s) + 1
<1>1. /\ t \in Seq(Int) /\ s \in Seq(Int) /\ DOMAIN t = 1..n /\ DOMAIN s = 1..Len(s)
      /\ Len(s) \in Nat /\ t[n] = v /\ \A i \in DOMAIN s : t[i] = s[i]
  BY DEF OneEach
<1>2. \A i \in DOMAIN s : s[i] \in values
  BY DEF OneEach, Range
<1>3. \A x \in values : \E i \in DOMAIN s : s[i] = x
  BY DEF OneEach, Range
<1> HIDE DEF t
<1>4. Range(t) = values \cup {v}
  <2>1. \A i \in DOMAIN t : t[i] \in values \cup {v}
    BY <1>1, <1>2
  <2>2. \A x \in values \cup {v} : \E i \in DOMAIN t : t[i] = x
    BY <1>1, <1>3
  <2> QED
    BY <2>1, <2>2, RangeIs, Zenon
<1>5. \A i, j \in DOMAIN t : t[i] = t[j] => i = j
  <2>1. \A i, j \in DOMAIN s : s[i] = s[j] => i = j
    BY DEF OneEach
  <2>2. \A i \in DOMAIN t : i = n \/ (i \in DOMAIN s /\ t[i] = s[i] /\ t[i] # v)
    BY <1>1, <1>2
  <2>3. t[n] = v
    BY <1>1
  <2> HIDE DEF n
  <2> QED
    BY <2>1, <2>2, <2>3, Zenon
<1>6. OneEach(t, values \cup {v})
  BY <1>1, <1>4, <1>5 DEF OneEach
<1> QED
  BY <1>6 DEF t

(* What normalize has kept of the first n sizes: each positive one, once   *)
(* (config.go:74-86).                                                      *)
LEMMA KeptAre == \A n \in 0..Len(PeerCounts) : OneEach(Kept[n], Positive(n))
<1> DEFINE N == Len(PeerCounts)
           T == {n \in Nat : n <= N => OneEach(Kept[n], Positive(n))}
<1>0. N \in Nat /\ \A i \in 1..N : PeerCounts[i] \in Int
  BY EvaluationAssumption
<1>1. 0 \in T
  <2>1. Kept[0] = <<>>
    BY <1>0, KeptIs DEF KeptUpTo
  <2>2. Positive(0) = {}
    BY DEF Positive
  <2>3. OneEach(<<>>, {})
    BY DEF OneEach, Range
  <2> QED
    BY <2>1, <2>2, <2>3
<1>2. ASSUME NEW n \in T PROVE n + 1 \in T
  <2> DEFINE m == n + 1
             v == PeerCounts[m]
  <2> SUFFICES ASSUME m <= N PROVE OneEach(Kept[m], Positive(m))
    OBVIOUS
  <2>0. n \in Nat /\ m \in 1..N /\ m - 1 = n /\ v \in Int
    BY <1>0
  <2>1. OneEach(Kept[n], Positive(n))
    BY <2>0
  <2>2. Kept[m] = IF v > 0 /\ v \notin Range(Kept[n]) THEN Append(Kept[n], v) ELSE Kept[n]
    <3> HIDE DEF m
    <3>1. m \in 0..N /\ m # 0
      BY <2>0
    <3> QED
      BY <2>0, <3>1, KeptIs DEF KeptUpTo
  <2>3. Range(Kept[n]) = Positive(n)
    BY <2>1 DEF OneEach
  <2>4. Positive(m) = IF v > 0 THEN Positive(n) \cup {v} ELSE Positive(n)
    <3>1. 1..m = (1..n) \cup {m}
      BY <2>0
    <3> HIDE DEF m
    <3> QED
      BY <3>1 DEF Positive
  <2> HIDE DEF m, v
  <2>5. CASE v > 0 /\ v \notin Positive(n)
    BY <2>0, <2>1, <2>2, <2>3, <2>4, <2>5, AppendNew
  <2>6. CASE ~(v > 0 /\ v \notin Positive(n))
    <3>1. Positive(m) = Positive(n)
      BY <2>4, <2>6
    <3> QED
      BY <2>1, <2>2, <2>3, <2>6, <3>1
  <2> QED
    BY <2>5, <2>6
<1>3. T = Nat
  <2> HIDE DEF T
  <2>1. T \subseteq Nat
    BY DEF T
  <2> QED
    BY <1>1, <1>2, <2>1, SetInduction
<1> QED
  BY <1>0, <1>3

Sizes == IF Positive(Len(PeerCounts)) = {} THEN {DefaultPeers}
         ELSE Positive(Len(PeerCounts))

(* The runner goes through the sizes one by one, each once.                *)
THEOREM CountsAreSizes ==
  /\ OneEach(Counts, Sizes)
  /\ \A n \in Sizes : n \in Nat \ {0}
<1> DEFINE N == Len(PeerCounts)
           kept == Kept[N]
<1>1. N \in Nat /\ \A i \in 1..N : PeerCounts[i] \in Int
  BY EvaluationAssumption
<1>2. OneEach(kept, Positive(N))
  BY <1>1, KeptAre
<1>3. kept = <<>> <=> Positive(N) = {}
  <2> HIDE DEF kept
  <2>1. kept \in Seq(Int) /\ Range(kept) = Positive(N)
    BY <1>2 DEF OneEach
  <2>2. kept # <<>> => kept[1] \in Positive(N)
    BY <2>1 DEF Range
  <2>3. kept = <<>> => Range(kept) = {}
    BY DEF Range
  <2> QED
    BY <2>1, <2>2, <2>3
<1>4. OneEach(<<DefaultPeers>>, {DefaultPeers})
  BY EvaluationAssumption DEF OneEach, Range
<1>5. OneEach(Counts, Sizes)
  BY <1>2, <1>3, <1>4 DEF Counts, Sizes
<1>6. \A n \in Positive(N) : n \in Nat \ {0}
  BY <1>1 DEF Positive
<1> QED
  BY <1>5, <1>6, EvaluationAssumption DEF Sizes

-----------------------------------------------------------------------------
(* The k-th run has the p-th size, the i-th seed and the b-th name.        *)
Sized(k) == (((k - 1) \div Len(Names)) \div Repetitions) + 1
Seeded(k) == (((k - 1) \div Len(Names)) % Repetitions) + 1
Named(k) == ((k - 1) % Len(Names)) + 1
Place(p, i, b) == Len(Names) * (Repetitions * (p - 1) + (i - 1)) + b

(* The five implementations are different (runner.go:31-47).               *)
LEMMA FiveNames ==
  /\ Len(Names) = 5
  /\ \A i, j \in 1..5 : Names[i] = Names[j] => i = j
BY DEF Names

(* There is a size to run, and every one of them is positive.              *)
LEMMA LengthOfCounts ==
  /\ Len(Counts) \in Nat \ {0} /\ DOMAIN Counts = 1..Len(Counts)
  /\ \A p \in 1..Len(Counts) : Counts[p] \in Nat \ {0}
<1>1. Counts \in Seq(Int) /\ Range(Counts) = Sizes
  BY CountsAreSizes DEF OneEach
<1>2. Sizes # {}
  BY DEF Sizes
<1>3. \E p \in DOMAIN Counts : TRUE
  BY <1>1, <1>2 DEF Range
<1>4. \A p \in DOMAIN Counts : Counts[p] \in Sizes
  BY <1>1 DEF Range
<1> QED
  BY <1>1, <1>3, <1>4, CountsAreSizes

(* Neither factor is 0, nor is the product.                                *)
LEMMA ProductPositive ==
  ASSUME NEW a \in Nat \ {0}, NEW b \in Nat \ {0}
  PROVE  a * b \in Nat \ {0}
OBVIOUS

(* normalize leaves something to run.                                      *)
THEOREM RunsExist == Runs \in Nat \ {0} /\ Runs = 5 * (Repetitions * Len(Counts))
<1>1. Repetitions \in Nat \ {0}
  BY EvaluationAssumption
<1>2. Repetitions * Len(Counts) \in Nat \ {0}
  BY <1>1, LengthOfCounts, ProductPositive
<1>3. Len(Counts) * Repetitions = Repetitions * Len(Counts)
  BY <1>1, LengthOfCounts
<1> QED
  BY <1>2, <1>3, FiveNames DEF Runs

(* A cell of the grid is what its three places name.                       *)
LEMMA CellsAre ==
  ASSUME NEW k
  PROVE  Cell(k) = [peers |-> Counts[Sized(k)], seed |-> Seed + Seeded(k) - 1,
                    name |-> Names[Named(k)]]
BY Zenon DEF Cell, Sized, Seeded, Named, SeedOf

(* A number below R * L has one digit below R and one below L.             *)
LEMMA Digits ==
  ASSUME NEW R \in Nat \ {0}, NEW L \in Nat \ {0}, NEW m \in Nat, m < R * L
  PROVE  /\ m \div R \in 0..(L - 1) /\ m % R \in 0..(R - 1)
         /\ m = R * (m \div R) + (m % R)
<1> DEFINE q == m \div R
           area == R * L
<1>1. q \in Int /\ R * q <= m
  BY Quotient
<1>2. m = R * q + (m % R) /\ m % R \in Nat /\ m % R < R
  BY Remainder
<1>3. 0 <= q
  <2>1. R * 0 <= m
    OBVIOUS
  <2> QED
    BY <2>1, Quotient
<1>4. area \in Int /\ m < area
  OBVIOUS
<1> HIDE DEF q
<1>5. q < L
  <2> SUFFICES ASSUME L <= q PROVE FALSE
    BY <1>1
  <2>1. area <= R * q
    BY <1>1, Product
  <2>2. R * q \in Int
    BY <1>1
  <2> HIDE DEF area
  <2> QED
    BY <1>1, <1>4, <2>1, <2>2
<1>6. q \in 0..(L - 1) /\ m % R \in 0..(R - 1)
  BY <1>1, <1>2, <1>3, <1>5
<1> QED
  BY <1>2, <1>6 DEF q

(* Every run has a place in the grid, ...                                  *)
LEMMA PlacesOf ==
  ASSUME NEW k \in 1..Runs
  PROVE  /\ Sized(k) \in 1..Len(Counts) /\ Seeded(k) \in 1..Repetitions
         /\ Named(k) \in 1..5
         /\ k = Place(Sized(k), Seeded(k), Named(k))
<1> DEFINE area == Repetitions * Len(Counts)
           m == (k - 1) \div 5
           q == m \div Repetitions
           r == m % Repetitions
           b == (k - 1) % 5
<1>0. Repetitions \in Nat \ {0} /\ Len(Counts) \in Nat \ {0}
  BY EvaluationAssumption, LengthOfCounts
<1>1. area \in Nat /\ Runs = 5 * area
  BY <1>0, RunsExist
<1> HIDE DEF area
<1>2. m \in Nat /\ m < area /\ k = 5 * m + b + 1 /\ b \in 0..4
  BY <1>1
<1> HIDE DEF m, b
<1>3. q \in 0..(Len(Counts) - 1) /\ r \in 0..(Repetitions - 1) /\ m = Repetitions * q + r
  BY <1>0, <1>2, Digits DEF area
<1>4. Sized(k) = q + 1 /\ Seeded(k) = r + 1 /\ Named(k) = b + 1
  BY FiveNames, Zenon DEF Sized, Seeded, Named, m, b
<1> HIDE DEF q, r
<1>5. (q + 1) - 1 = q /\ (r + 1) - 1 = r
  BY <1>3
<1>6. Place(q + 1, r + 1, b + 1) = 5 * m + (b + 1)
  <2>1. Place(q + 1, r + 1, b + 1)
          = Len(Names) * (Repetitions * ((q + 1) - 1) + ((r + 1) - 1)) + (b + 1)
    BY Zenon DEF Place
  <2> QED
    BY <1>3, <1>5, <2>1, FiveNames, Zenon
<1>7. q + 1 \in 1..Len(Counts) /\ r + 1 \in 1..Repetitions /\ b + 1 \in 1..5
  BY <1>0, <1>2, <1>3
<1>8. k = Place(q + 1, r + 1, b + 1)
  BY <1>2, <1>6
<1> QED
  BY <1>4, <1>7, <1>8

(* ... and every place in the grid is a run.                               *)
LEMMA PlaceIsRun ==
  ASSUME NEW p \in 1..Len(Counts), NEW i \in 1..Repetitions, NEW b \in 1..5
  PROVE  /\ Place(p, i, b) \in 1..Runs
         /\ Sized(Place(p, i, b)) = p
         /\ Seeded(Place(p, i, b)) = i
         /\ Named(Place(p, i, b)) = b
<1> DEFINE area == Repetitions * Len(Counts)
           before == Repetitions * (p - 1)
           m == before + (i - 1)
           k == Place(p, i, b)
<1>0. /\ Repetitions \in Nat \ {0} /\ Len(Counts) \in Nat \ {0}
      /\ p - 1 \in Nat /\ p - 1 \in Int /\ i - 1 \in 0..(Repetitions - 1)
  BY EvaluationAssumption, LengthOfCounts
<1>1. area \in Nat /\ before \in Nat /\ Runs = 5 * area
  BY <1>0, RunsExist
<1>2. m \div Repetitions = p - 1 /\ m % Repetitions = i - 1
  BY <1>0, Quotients, Zenon
<1>3. before + Repetitions <= area
  <2>1. Repetitions * p <= area
    BY <1>0, Product
  <2>2. Repetitions * p = before + Repetitions
    BY <1>0
  <2> QED
    BY <2>1, <2>2
<1>4. k = 5 * m + b
  BY FiveNames, Zenon DEF Place
<1> HIDE DEF area, before, k
<1>5. m \in Nat /\ m < area
  BY <1>0, <1>1, <1>3
<1> HIDE DEF m
<1>6. (k - 1) \div 5 = m /\ (k - 1) % 5 = b - 1 /\ k \in 1..Runs
  BY <1>1, <1>4, <1>5
<1>7. Sized(k) = (p - 1) + 1 /\ Seeded(k) = (i - 1) + 1 /\ Named(k) = (b - 1) + 1
  BY <1>2, <1>6, FiveNames, Zenon DEF Sized, Seeded, Named
<1>8. Sized(k) = p /\ Seeded(k) = i /\ Named(k) = b
  BY <1>0, <1>7
<1> QED
  BY <1>6, <1>8 DEF k

(* Two runs of one cell are one run.                                       *)
LEMMA CellsDiffer ==
  ASSUME NEW k \in 1..Runs, NEW l \in 1..Runs, Cell(k) = Cell(l)
  PROVE  k = l
<1>1. /\ Counts[Sized(k)] = Counts[Sized(l)]
      /\ Seed + Seeded(k) - 1 = Seed + Seeded(l) - 1
      /\ Names[Named(k)] = Names[Named(l)]
  BY CellsAre
<1>2. Sized(k) = Sized(l)
  BY <1>1, PlacesOf, CountsAreSizes, LengthOfCounts DEF OneEach
<1>3. Seeded(k) = Seeded(l)
  <2>1. Seeded(k) \in 1..Repetitions /\ Seeded(l) \in 1..Repetitions
    BY PlacesOf
  <2> QED
    BY <1>1, <2>1, EvaluationAssumption
<1>4. Named(k) = Named(l)
  BY <1>1, PlacesOf, FiveNames
<1> QED
  BY <1>2, <1>3, <1>4, PlacesOf, Zenon

(* The grid has every combination.                                         *)
LEMMA CellExists ==
  ASSUME NEW peers \in Sizes, NEW i \in 1..Repetitions, NEW b \in 1..5
  PROVE  \E k \in 1..Runs : Cell(k) = [peers |-> peers, seed |-> Seed + i - 1,
                                       name |-> Names[b]]
<1>1. PICK p \in DOMAIN Counts : Counts[p] = peers
  BY CountsAreSizes DEF OneEach, Range
<1>2. p \in 1..Len(Counts)
  BY LengthOfCounts
<1> DEFINE k == Place(p, i, b)
<1>3. k \in 1..Runs /\ Sized(k) = p /\ Seeded(k) = i /\ Named(k) = b
  BY <1>2, PlaceIsRun
<1> HIDE DEF k
<1>4. Cell(k) = [peers |-> peers, seed |-> Seed + i - 1, name |-> Names[b]]
  BY <1>1, <1>3, CellsAre
<1> QED
  BY <1>3, <1>4

-----------------------------------------------------------------------------
(* The invariant holds when an experiment begins.                          *)
LEMMA InitInvariant == Init => IInv
<1> SUFFICES ASSUME Init PROVE IInv
  OBVIOUS
<1> USE DEF Init
<1>1. RunInv
  BY DefaultIsField, RunsExist DEF RunInv, Stages, Measured
<1>2. Accepted(<<>>) = {} /\ trace \in Seq(Entries)
  BY DEF Accepted
<1>3. TraceInv
  BY <1>2 DEF TraceInv, HasLast, LastAccepted
<1> QED
  BY <1>1, <1>3 DEF IInv, DriftBounded, TrajectoryConnects

(* A round that only counts.                                               *)
LEMMA QuietRound ==
  ASSUME IInv, RoundFails \/ ImportFails \/ RoundsEnd
  PROVE  IInv'
<1>1. UNCHANGED <<cell, parameters, trace, manager, row>> /\ stage = "rounds"
  BY DEF RoundFails, ImportFails, RoundsEnd
<1>2. stage' \in {"rounds", "failed", "decide"}
  BY DEF RoundFails, ImportFails, RoundsEnd
<1>3. Name' = Name /\ Here' = Here
  BY <1>1 DEF Name, Here
<1>4. RunInv'
  BY <1>1, <1>2, <1>3 DEF IInv, RunInv, Plain, Measured, Stages
<1>5. TraceInv' /\ TrajectoryConnects'
  BY <1>1, <1>3 DEF IInv, TraceInv, Plain, TrajectoryConnects
<1>6. DriftBounded'
  BY <1>1, <1>3 DEF IInv, DriftBounded
<1> QED
  BY <1>4, <1>5, <1>6 DEF IInv

(* A run starts from defaults and no trace.                                *)
LEMMA StartKeeps == ASSUME IInv, Start PROVE IInv'
<1>1. UNCHANGED <<cell, parameters, trace, manager, row>> /\ stage = "start"
  BY DEF Start
<1>2. stage' = IF Name = "gossipsub" THEN "measure"
               ELSE IF Name = "heuristic" THEN "decide" ELSE "rounds"
  BY DEF Start
<1>3. Name' = Name /\ Here' = Here
  BY <1>1 DEF Name, Here
<1>4. parameters = Default /\ manager = InitialManager /\ row = Unreported
  BY <1>1 DEF IInv, RunInv, Measured
<1>5. RunInv'
  BY <1>1, <1>2, <1>3, <1>4 DEF IInv, RunInv, Plain, Measured, Stages
<1>6. TraceInv' /\ TrajectoryConnects'
  BY <1>1, <1>3 DEF IInv, TraceInv, Plain, TrajectoryConnects
<1>7. DriftBounded'
  BY <1>1, <1>3 DEF IInv, DriftBounded
<1> QED
  BY <1>5, <1>6, <1>7 DEF IInv

(* A round with a verdict.  Both guardrails have to agree, and the second  *)
(* one compares with the defaults: that is why small steps do not add up.  *)
LEMMA DecidedRound == ASSUME IInv, RoundDecides PROVE IInv'
<1>1. /\ stage = "rounds" /\ parameters \in Fields
      /\ trace \in Seq(Entries) /\ HasLast(trace)
      /\ UNCHANGED <<cell, stage, manager, row>>
  BY DEF RoundDecides, IInv, RunInv, TraceInv
<1>2. PICK output \in SomeOutputs :
        \E candidate \in BestNeighbors(Here, parameters, output) :
          Record(candidate, /\ Accepts(Here, parameters, candidate)
                            /\ Accepts(Here, Default, candidate))
  BY DEF RoundDecides
<1>3. PICK candidate \in BestNeighbors(Here, parameters, output) :
        Record(candidate, /\ Accepts(Here, parameters, candidate)
                          /\ Accepts(Here, Default, candidate))
  BY <1>2
<1>4. output \in Outputs
  BY EvaluationAssumption
<1>5. candidate \in Fields /\ Valid(candidate)
  BY <1>1, <1>4, NeighborsAreValid
<1> DEFINE yes == Accepts(Here, parameters, candidate) /\ Accepts(Here, Default, candidate)
           e == [current |-> parameters, candidate |-> candidate, accepted |-> yes]
<1>6. yes \in BOOLEAN
  OBVIOUS
<1>7. yes => Accepts(Here, Default, candidate)
  OBVIOUS
<1>8. trace' = Append(trace, e) /\ parameters' = IF yes THEN candidate ELSE parameters
  BY <1>3 DEF Record
<1> HIDE DEF yes
<1>9. e \in Entries
  BY <1>1, <1>5, <1>6 DEF Entries
<1>10. Name' = Name /\ Here' = Here /\ ~Plain /\ ~Plain'
  BY <1>1 DEF Name, Here, IInv, RunInv, Plain
<1>11. RunInv'
  <2>1. parameters' \in Fields /\ Valid(parameters')
    BY <1>1, <1>5, <1>8 DEF IInv, RunInv, Valid
  <2>2. Name # "gossipsub" /\ manager = InitialManager /\ row = Unreported
    BY <1>1, <1>10 DEF IInv, RunInv, Plain, Measured
  <2>3. stage' = "rounds" /\ cell' = cell /\ cell \in 1..Runs /\ manager' = manager /\ row' = row
    BY <1>1 DEF IInv, RunInv
  <2>4. ~Measured' /\ stage' \in Stages /\ stage' \notin {"start", "reported", "finished"}
    BY <2>3 DEF Measured, Stages
  <2>5. Name' # "gossipsub" /\ manager' = InitialManager /\ row' = Unreported
    BY <2>2, <2>3, <1>10
  <2> QED
    BY <1>10, <2>1, <2>3, <2>4, <2>5 DEF RunInv
<1>12. TraceInv'
  <2>1. trace' \in Seq(Entries)
    BY <1>1, <1>8, <1>9
  <2>2. HasLast(trace') /\ LastAccepted(trace') =
          IF e.accepted THEN e.candidate ELSE LastAccepted(trace)
    BY <1>1, <1>8, <1>9, LastOfAppend
  <2>3. LastAccepted(trace) = parameters
    BY <1>10 DEF IInv, TraceInv
  <2> QED
    BY <2>1, <2>2, <2>3, <1>8, <1>10 DEF TraceInv
<1>13. DriftBounded'
  BY <1>7, <1>8, <1>10 DEF IInv, DriftBounded
<1>14. TrajectoryConnects'
  <2> DEFINE n == Len(trace) + 1
  <2>1. /\ Len(trace') = n /\ n \in Nat /\ n \in DOMAIN trace' /\ trace'[n] = e
        /\ DOMAIN trace' = 1..n /\ DOMAIN trace = 1..Len(trace) /\ Len(trace) \in Nat
        /\ \A k \in DOMAIN trace : trace'[k] = trace[k]
    BY <1>1, <1>8, <1>9
  <2>2. parameters' = DeployedAfter(trace'[Len(trace')])
    BY <2>1, <1>8 DEF DeployedAfter
  <2>3. CASE trace = <<>>
    <3>1. n = 1 /\ LastAccepted(trace) = parameters
      BY <2>3, <1>10 DEF IInv, TraceInv
    <3>2. LastAccepted(trace) = Default
      BY <2>3 DEF LastAccepted, Accepted
    <3>3. trace'[1].current = Default
      BY <2>1, <3>1, <3>2
    <3> QED
      BY <2>1, <2>2, <3>1, <3>3 DEF TrajectoryConnects
  <2>4. CASE trace # <<>>
    <3>1. n > 1 /\ trace[1].current = Default /\ 1 \in DOMAIN trace /\ n - 1 \in DOMAIN trace
      BY <2>1, <2>4, <1>1 DEF IInv, TrajectoryConnects
    <3>2. trace'[1].current = Default
      BY <2>1, <3>1
    <3>3. parameters = DeployedAfter(trace[n - 1])
      BY <2>1, <2>4, <3>1 DEF IInv, TrajectoryConnects
    <3>4. \A i \in DOMAIN trace' : i > 1 =>
            trace'[i].current = DeployedAfter(trace'[i - 1])
      <4> SUFFICES ASSUME NEW i \in DOMAIN trace', i > 1
                   PROVE  trace'[i].current = DeployedAfter(trace'[i - 1])
        OBVIOUS
      <4>1. CASE i = n
        BY <4>1, <2>1, <3>1, <3>3
      <4>2. CASE i # n
        <5>1. i \in DOMAIN trace /\ i - 1 \in DOMAIN trace
          BY <4>2, <2>1
        <5>2. trace[i].current = DeployedAfter(trace[i - 1])
          BY <5>1 DEF IInv, TrajectoryConnects
        <5> QED
          BY <5>1, <5>2, <2>1
      <4> QED
        BY <4>1, <4>2
    <3> QED
      BY <2>2, <3>2, <3>4 DEF TrajectoryConnects
  <2> QED
    BY <2>3, <2>4
<1> QED
  BY <1>11, <1>12, <1>13, <1>14 DEF IInv

(* A decision adds one row to the trace, and what it accepted is deployed. *)
LEMMA DecideKeeps == ASSUME IInv, Decide PROVE IInv'
<1>1. /\ stage = "decide" /\ stage' = "measure"
      /\ UNCHANGED <<cell, trace, row>>
      /\ parameters \in Fields /\ Valid(parameters)
      /\ manager = InitialManager /\ row = Unreported
  BY DEF Decide, IInv, RunInv, Measured
<1>2. Name' = Name /\ Here' = Here
  BY <1>1 DEF Name, Here
<1>3. Predicted \in Fields /\ Valid(Predicted)
  BY <1>1, HeuristicIsValid DEF Predicted, HeuristicPrediction
<1>4. \/ Accepts(Here, Default, Predicted) /\ parameters' = Predicted /\ manager' = Predicted
      \/ ~Accepts(Here, Default, Predicted) /\ parameters' = Default /\ manager' = manager
  BY <1>3 DEF Decide
<1>5. Name # "heuristic" => parameters' = parameters
  BY <1>4 DEF IInv, DriftBounded, Predicted
<1>6. RunInv'
  <2>1. parameters' \in Fields /\ Valid(parameters')
    BY <1>3, <1>4, DefaultIsField
  <2>2. Name' = "gossipsub" => parameters' = Default
    BY <1>2, <1>5 DEF IInv, RunInv
  <2>3. Measured' /\ stage' \in Stages /\ stage' \notin {"start", "rounds", "reported", "finished"}
    BY <1>1 DEF Measured, Stages
  <2>4. \/ manager' = parameters'
        \/ manager' = InitialManager /\ parameters' = Default
    BY <1>1, <1>4
  <2>5. cell' = cell /\ cell \in 1..Runs /\ row' = Unreported
    BY <1>1 DEF IInv, RunInv
  <2> QED
    BY <2>1, <2>2, <2>3, <2>4, <2>5 DEF RunInv
<1>7. TraceInv' /\ TrajectoryConnects'
  <2>1. CASE Name = "heuristic"
    BY <2>1, <1>1, <1>2 DEF IInv, TraceInv, Plain, TrajectoryConnects
  <2>2. CASE Name # "heuristic"
    BY <2>2, <1>1, <1>2, <1>5 DEF IInv, TraceInv, Plain, TrajectoryConnects
  <2> QED
    BY <2>1, <2>2
<1>8. DriftBounded'
  BY <1>2, <1>4 DEF DriftBounded
<1> QED
  BY <1>6, <1>7, <1>8 DEF IInv

(* What the dataset says of the parameters, wherever it takes them from.   *)
LEMMA RowIsShown == ASSUME IInv, Measure PROVE row' = Shown(parameters)
<1>1. row' = IF Name \in Dataset THEN RawRow ELSE Shown(parameters)
  BY DEF Measure
<1>2. CASE Name = "gossipsub"
  <2>1. trace = <<>> /\ parameters = Default
    BY <1>2 DEF IInv, RunInv, TraceInv, Plain
  <2>2. LastAccepted(trace) = Default
    BY <2>1 DEF LastAccepted, Accepted
  <2> QED
    BY <1>1, <2>1, <2>2 DEF RawRow, Shown
<1>3. CASE Name \in {"fedgreen", "trustaware"}
  <2>1. LastAccepted(trace) = parameters
    BY <1>3 DEF IInv, TraceInv, Plain
  <2> QED
    BY <1>1, <2>1 DEF RawRow, Shown
<1>4. CASE Name \notin Dataset
  BY <1>1, <1>4
<1> QED
  BY <1>2, <1>3, <1>4 DEF Dataset

(* A run is measured with what it has deployed.                            *)
LEMMA MeasureKeeps == ASSUME IInv, Measure PROVE IInv'
<1>1. /\ stage = "measure" /\ stage' = "reported"
      /\ UNCHANGED <<cell, parameters, trace, manager>>
  BY DEF Measure
<1>2. Name' = Name /\ Here' = Here
  BY <1>1 DEF Name, Here
<1>3. row' = Shown(parameters')
  BY <1>1, RowIsShown
<1>4. RunInv'
  BY <1>1, <1>2, <1>3 DEF IInv, RunInv, Measured, Stages
<1>5. TraceInv' /\ TrajectoryConnects'
  BY <1>1, <1>2 DEF IInv, TraceInv, Plain, TrajectoryConnects
<1>6. DriftBounded'
  BY <1>1, <1>2 DEF IInv, DriftBounded
<1> QED
  BY <1>4, <1>5, <1>6 DEF IInv

(* A row is collected, and the next run starts.                            *)
LEMMA CollectKeeps == ASSUME IInv, Collect PROVE IInv'
<1>1. CASE cell < Runs
  <2>1. /\ cell' = cell + 1 /\ stage' = "start" /\ parameters' = Default /\ trace' = <<>>
        /\ manager' = InitialManager /\ row' = Unreported
    BY <1>1 DEF Collect
  <2>2. cell' \in 1..Runs
    BY <1>1, <2>1, RunsExist DEF IInv, RunInv
  <2>3. RunInv'
    BY <2>1, <2>2, DefaultIsField DEF RunInv, Measured, Stages
  <2>4. Accepted(<<>>) = {} /\ trace' \in Seq(Entries)
    BY <2>1 DEF Accepted
  <2>5. TraceInv'
    BY <2>1, <2>4 DEF TraceInv, HasLast, LastAccepted
  <2> QED
    BY <2>1, <2>3, <2>5 DEF IInv, DriftBounded, TrajectoryConnects
<1>2. CASE ~(cell < Runs)
  <2>1. /\ stage = "reported" /\ stage' = "finished"
        /\ UNCHANGED <<cell, parameters, trace, manager, row>>
    BY <1>2 DEF Collect
  <2>2. Name' = Name /\ Here' = Here
    BY <2>1 DEF Name, Here
  <2>3. RunInv'
    BY <2>1, <2>2 DEF IInv, RunInv, Measured, Stages
  <2>4. TraceInv' /\ TrajectoryConnects'
    BY <2>1, <2>2 DEF IInv, TraceInv, Plain, TrajectoryConnects
  <2>5. DriftBounded'
    BY <2>1, <2>2 DEF IInv, DriftBounded
  <2> QED
    BY <2>3, <2>4, <2>5 DEF IInv
<1> QED
  BY <1>1, <1>2

(* A step of nothing keeps the invariant.                                  *)
LEMMA StutterKeeps == ASSUME IInv, UNCHANGED vars PROVE IInv'
<1>1. UNCHANGED <<cell, stage, parameters, trace, manager, row>>
  BY DEF vars
<1>2. Name' = Name /\ Here' = Here
  BY <1>1 DEF Name, Here
<1>3. RunInv' /\ TraceInv' /\ TrajectoryConnects'
  BY <1>1, <1>2 DEF IInv, RunInv, TraceInv, Plain, Measured, TrajectoryConnects
<1>4. DriftBounded'
  BY <1>1, <1>2 DEF IInv, DriftBounded
<1> QED
  BY <1>3, <1>4 DEF IInv

(* The inductive invariant holds of every experiment.                      *)
THEOREM InductiveInvariant == Spec => []IInv
<1>1. IInv /\ [Next]_vars => IInv'
  BY QuietRound, StartKeeps, DecidedRound, DecideKeeps, MeasureKeeps, CollectKeeps,
     StutterKeeps DEF Next
<1> QED
  BY InitInvariant, <1>1, PTL DEF Spec

(* However many rounds are accepted one after the other, what they arrive  *)
(* at is the default set or one the guardrail accepts against it           *)
(* (implementation.go:253-258).                                            *)
THEOREM DriftIsBounded == Spec => []DriftBounded
<1>1. IInv => DriftBounded
  BY DEF IInv
<1> QED
  BY InductiveInvariant, <1>1, PTL

(* The trace table is one trajectory that starts with the defaults and     *)
(* ends with what the run is measured with (raw_trace.go:66-85).           *)
THEOREM TrajectoryIsConnected == Spec => []TrajectoryConnects
<1>1. IInv => TrajectoryConnects
  BY DEF IInv
<1> QED
  BY InductiveInvariant, <1>1, PTL

(* A row is shown once it is reported, and it is the row of what is        *)
(* deployed.                                                               *)
LEMMA ReportedRow ==
  ASSUME IInv
  PROVE  /\ row # Unreported <=> stage \in {"reported", "finished"}
         /\ row # Unreported => row = Shown(parameters)
<1>1. Shown(parameters) \in Shows
  BY DEF IInv, RunInv, Fields, Shown, Shows
<1>2. Shown(parameters) # Unreported
  BY <1>1, UnreportedAssumption
<1> QED
  BY <1>2 DEF IInv, RunInv

(* The row that is put together from the metrics and the trace shows the   *)
(* parameters of the run (raw_dataset.go:160-164).                         *)
THEOREM DatasetIsRun == Spec => []DatasetMatchesRun
<1>1. IInv => DatasetMatchesRun
  BY ReportedRow DEF DatasetMatchesRun
<1> QED
  BY InductiveInvariant, <1>1, PTL

(* The parameter manager has taken exactly what is reported as deployed,   *)
(* although its error is discarded (implementation.go:140-148).            *)
THEOREM ReportIsApplied == Spec => []AppliedIsReported
<1>1. IInv => AppliedIsReported
  <2> SUFFICES ASSUME IInv PROVE AppliedIsReported
    OBVIOUS
  <2>1. row # Unreported => Measured
    BY ReportedRow DEF Measured
  <2> QED
    BY <2>1 DEF IInv, RunInv, AppliedIsReported
<1> QED
  BY InductiveInvariant, <1>1, PTL

-----------------------------------------------------------------------------
(* The results *)

(* What has been collected: the cells before the present one, in order.    *)
Collected ==
  IF stage = "failed" THEN 0 ELSE IF stage = "finished" THEN Runs ELSE cell - 1

ResultsInv ==
  /\ cell \in 1..Runs
  /\ stage = "finished" => cell = Runs
  /\ results = [k \in 1..Collected |-> Cell(k)]

(* The rows of the first n cells, and the next one.                        *)
LEMMA AppendNext ==
  ASSUME NEW n \in Nat, NEW s, s = [k \in 1..n |-> Cell(k)]
  PROVE  Append(s, Cell(n + 1)) = [k \in 1..(n + 1) |-> Cell(k)]
<1> DEFINE C == {Cell(k) : k \in 1..(n + 1)}
           t == Append(s, Cell(n + 1))
<1>1. \A k \in 1..(n + 1) : Cell(k) \in C
  OBVIOUS
<1>2. s \in [1..n -> C]
  BY <1>1
<1> HIDE DEF C
<1>3. s \in Seq(C) /\ Len(s) = n
  BY <1>2
<1>4. Cell(n + 1) \in C
  BY <1>1
<1>5. /\ t \in Seq(C) /\ Len(t) = n + 1
      /\ \A k \in 1..n : t[k] = Cell(k)
      /\ t[n + 1] = Cell(n + 1)
  BY <1>3, <1>4
<1> HIDE DEF t
<1>6. DOMAIN t = 1..(n + 1) /\ t = [k \in DOMAIN t |-> t[k]]
  BY <1>5
<1>7. \A k \in 1..(n + 1) : t[k] = Cell(k)
  BY <1>5
<1>8. t = [k \in 1..(n + 1) |-> Cell(k)]
  BY <1>6, <1>7
<1> QED
  BY <1>8 DEF t

(* No row is collected before the first run ends.                          *)
LEMMA ResultsStart == Init => ResultsInv
<1> SUFFICES ASSUME Init PROVE ResultsInv
  OBVIOUS
<1>1. cell = 1 /\ stage = "start" /\ results = <<>>
  BY DEF Init
<1>2. Collected = 0
  BY <1>1 DEF Collected
<1>3. results = [k \in 1..Collected |-> Cell(k)]
  BY <1>1, <1>2
<1> QED
  BY <1>1, <1>3, RunsExist DEF ResultsInv

(* Each run adds the row of its own cell.                                  *)
LEMMA ResultsKept == ASSUME ResultsInv, [Next]_vars PROVE ResultsInv'
<1>1. CASE Start \/ RoundFails \/ RoundDecides \/ RoundsEnd \/ Decide \/ Measure
  <2>1. UNCHANGED <<cell, results>> /\ stage \notin {"failed", "finished"}
        /\ stage' \notin {"failed", "finished"}
    BY <1>1 DEF Start, RoundFails, RoundDecides, RoundsEnd, Decide, Measure
  <2> QED
    BY <2>1 DEF ResultsInv, Collected
<1>2. CASE ImportFails
  <2>1. cell' = cell /\ results' = <<>> /\ stage' = "failed"
    BY <1>2 DEF ImportFails
  <2>2. Collected' = 0
    BY <2>1 DEF Collected
  <2>3. results' = [k \in 1..Collected' |-> Cell(k)]
    BY <2>1, <2>2
  <2> QED
    BY <2>1, <2>3 DEF ResultsInv
<1>3. CASE Collect
  <2>1. cell \in 1..Runs /\ results = [k \in 1..(cell - 1) |-> Cell(k)]
    BY <1>3 DEF Collect, ResultsInv, Collected
  <2>2. cell - 1 \in Nat /\ (cell - 1) + 1 = cell
    BY <2>1
  <2>3. Append(results, Cell((cell - 1) + 1)) = [k \in 1..((cell - 1) + 1) |-> Cell(k)]
    BY <2>1, <2>2, AppendNext
  <2>4. results' = [k \in 1..cell |-> Cell(k)]
    BY <1>3, <2>2, <2>3 DEF Collect
  <2>5. CASE cell < Runs
    <3>1. cell' = cell + 1 /\ stage' = "start"
      BY <1>3, <2>5 DEF Collect
    <3>2. Collected' = cell
      BY <2>1, <3>1 DEF Collected
    <3> QED
      BY <2>1, <2>4, <2>5, <3>1, <3>2, RunsExist DEF ResultsInv
  <2>6. CASE ~(cell < Runs)
    <3>1. cell' = cell /\ stage' = "finished" /\ cell = Runs
      BY <1>3, <2>1, <2>6, RunsExist DEF Collect
    <3>2. Collected' = cell
      BY <3>1 DEF Collected
    <3> QED
      BY <2>1, <2>4, <3>1, <3>2 DEF ResultsInv
  <2> QED
    BY <2>5, <2>6
<1>4. CASE UNCHANGED vars
  BY <1>4 DEF ResultsInv, Collected, vars
<1> QED
  BY <1>1, <1>2, <1>3, <1>4 DEF Next

(* The rows are those of the cells that have been run, in their order.     *)
LEMMA ResultsAlways == Spec => []ResultsInv
BY ResultsStart, ResultsKept, PTL DEF Spec

(* An experiment that finishes has exactly one row for each network size,  *)
(* seed and compared implementation (raw_dataset.go:287-329).              *)
THEOREM DatasetIsComplete == Spec => []DatasetComplete
<1>1. ResultsInv => DatasetComplete
  <2> SUFFICES ASSUME ResultsInv, stage = "finished",
                      NEW peers \in Asked,
                      NEW i \in 1..Repetitions, NEW name \in Dataset
               PROVE  Cardinality({k \in DOMAIN results :
                        results[k] = [peers |-> peers, seed |-> Seed + i - 1,
                                      name |-> name]}) = 1
    BY DEF DatasetComplete
  <2> DEFINE rowOf == [peers |-> peers, seed |-> Seed + i - 1, name |-> name]
             found == {k \in DOMAIN results : results[k] = rowOf}
  <2>1. results = [k \in 1..Runs |-> Cell(k)]
    BY DEF ResultsInv, Collected
  <2>2. peers \in Sizes
    <3>1. {n \in Range(PeerCounts) : n > 0} = Positive(Len(PeerCounts))
      BY EvaluationAssumption DEF Range, Positive
    <3> QED
      BY <3>1 DEF Asked, Sizes
  <2>3. PICK b \in 1..5 : name = Names[b]
    BY DEF Dataset, Names
  <2>4. PICK k \in 1..Runs : Cell(k) = rowOf
    BY <2>2, <2>3, CellExists
  <2> HIDE DEF rowOf
  <2>5. found = {k}
    <3>1. \A l \in 1..Runs : Cell(l) = rowOf => l = k
      BY <2>4, CellsDiffer
    <3> QED
      BY <2>1, <2>4, <3>1
  <2>6. Cardinality(found) = 1
    BY <2>5, FS_Singleton
  <2> QED
    BY <2>6 DEF rowOf
<1> QED
  BY ResultsAlways, <1>1, PTL

-----------------------------------------------------------------------------
(* Adaptation pays: the outcome model *)

(* What a participant of the outcome model is.                             *)
Participant == [loss : Int, latency : Int, duplicates : Int, bandwidth : Int, cpu : Int]

(* The profile of a participant is one of integers.                        *)
LEMMA ProfilesTyped ==
  ASSUME NEW i \in Nat \ {0}, NEW seed \in DOMAIN Jitter
  PROVE  ControlledProfile(i, seed) \in Participant
<1> DEFINE n == ((i - 1) % 4) + 1
           kind == Profiles[n]
           j == Jitter[seed]
<1>1. n \in 1..4
  OBVIOUS
<1> HIDE DEF n
<1>2. kind \in Participant
  BY <1>1 DEF Profiles, Participant
<1>3. j \in [loss : Int, latency : Int, duplicates : Int, cpu : Int]
  BY OutcomeAssumption
<1>4. Len(Profiles) = 4
  BY DEF Profiles
<1>5. Clamp(kind.cpu + j.cpu, 0, 100) \in Int
  BY <1>2, <1>3 DEF Participant, Clamp
<1>6. ControlledProfile(i, seed) =
        [kind EXCEPT !.loss = kind.loss + j.loss,
                     !.latency = kind.latency + j.latency,
                     !.duplicates = kind.duplicates + j.duplicates,
                     !.cpu = Clamp(kind.cpu + j.cpu, 0, 100)]
  BY <1>4, Zenon DEF ControlledProfile, n
<1> DEFINE cpu == Clamp(kind.cpu + j.cpu, 0, 100)
<1> HIDE DEF kind, j, cpu
<1>7. /\ kind.loss + j.loss \in Int /\ kind.latency + j.latency \in Int
      /\ kind.duplicates + j.duplicates \in Int /\ kind.bandwidth \in Int
  BY <1>2, <1>3 DEF Participant
<1>8. ControlledProfile(i, seed) =
        [loss |-> kind.loss + j.loss, latency |-> kind.latency + j.latency,
         duplicates |-> kind.duplicates + j.duplicates,
         bandwidth |-> kind.bandwidth, cpu |-> cpu]
  BY <1>2, <1>6 DEF Participant, cpu
<1> QED
  BY <1>5, <1>7, <1>8 DEF Participant, cpu

Outcomes == [delivery : Int, duplicates : Int, latency : Int, energy : Int]

(* What is charged for a missing path is not negative.                     *)
LEMMA PathsAreNoCredit ==
  ASSUME NEW d \in Nat, NEW loss \in Nat
  PROVE  /\ (60 * d * (25 + loss)) \div 25 \in Nat
         /\ (30 * d * (25 + loss)) \div 25 \in Nat
<1> DEFINE n == d * (25 + loss)
<1>1. n \in Nat
  OBVIOUS
<1>2. 60 * d * (25 + loss) = 60 * n /\ 30 * d * (25 + loss) = 30 * n
  OBVIOUS
<1> HIDE DEF n
<1>3. (60 * n) \div 25 \in Nat /\ (30 * n) \div 25 \in Nat
  BY <1>1
<1> QED
  BY <1>2, <1>3

(* A set costs a participant least where its own mesh degree is deployed.  *)
LEMMA OwnMeshIsBest ==
  ASSUME NEW profile \in Participant, NEW p \in Fields, NEW m \in Nat
  PROVE  LET own == Outcome(profile, p, p.mesh)
             other == Outcome(profile, p, m)
         IN  /\ own \in Outcomes /\ other \in Outcomes
             /\ own.delivery >= other.delivery /\ own.latency <= other.latency
             /\ own.duplicates = other.duplicates /\ own.energy = other.energy
<1> DEFINE loss == Clamp(Workload.loss + profile.loss, 0, 100)
           duplicates == Within01(Workload.duplicates + profile.duplicates
                                  + 60 * p.factor + 50 * p.mesh)
           base == 10 * (Workload.latency + profile.latency) + (75 * p.beat) \div 2
                    + 8 * p.mesh
           energy == EstimateEnergy(profile.cpu, profile.bandwidth, duplicates, p.beat)
           deficit(n) == IF n > p.mesh THEN n - p.mesh ELSE 0
           risk(n) == (60 * deficit(n) * (25 + loss)) \div 25
           delay(n) == (30 * deficit(n) * (25 + loss)) \div 25
           outcome(n) == [delivery |-> Within01(Part - 100 * loss - risk(n)),
                          duplicates |-> duplicates,
                          latency |-> Within01(base + delay(n)),
                          energy |-> energy]
<1>1. \A n : Outcome(profile, p, n) = outcome(n)
  BY Zenon DEF Outcome
<1>2. loss \in Nat /\ base \in Int /\ duplicates \in Int /\ p.mesh \in Nat
  BY OutcomeAssumption DEF Participant, Fields, Clamp, Within01, Part
<1>3. energy \in Int
  BY <1>2 DEF EstimateEnergy, Participant, Fields
<1> HIDE DEF loss, duplicates, base, energy
<1>4. deficit(p.mesh) = 0 /\ deficit(m) \in Nat
  BY <1>2
<1> HIDE DEF deficit
<1>5. risk(m) \in Nat /\ delay(m) \in Nat
  BY <1>2, <1>4, PathsAreNoCredit
<1>6. risk(p.mesh) = 0 /\ delay(p.mesh) = 0
  BY <1>2, <1>4
<1> HIDE DEF risk, delay
<1>7. /\ outcome(p.mesh) \in Outcomes /\ outcome(m) \in Outcomes
      /\ outcome(p.mesh).delivery >= outcome(m).delivery
      /\ outcome(p.mesh).latency <= outcome(m).latency
      /\ outcome(p.mesh).duplicates = outcome(m).duplicates
      /\ outcome(p.mesh).energy = outcome(m).energy
  BY <1>2, <1>3, <1>5, <1>6 DEF Outcomes, Within01, Clamp, Part
<1> HIDE DEF outcome
<1> QED
  BY <1>1, <1>7

(* The charge for a distance grows with it.                                *)
LEMMA SquareMonotone ==
  ASSUME NEW a \in Nat, NEW b \in Nat, a <= b
  PROVE  (a * a) \div 500 <= (b * b) \div 500
<1> DEFINE x == a * a
           y == b * b
<1>1. a * a <= a * b /\ b * a <= b * b /\ a * b = b * a
  BY Product
<1>2. x \in Nat /\ y \in Nat /\ a * b \in Nat
  OBVIOUS
<1>3. x <= y
  BY <1>1, <1>2
<1> HIDE DEF x, y
<1>4. x \div 500 <= y \div 500
  BY <1>2, <1>3
<1> QED
  BY <1>4 DEF x, y

(* The objective falls with the delivery and rises with the costs.         *)
LEMMA ObjectiveMonotone ==
  ASSUME NEW o, NEW q,
         o.delivery \in Int, o.duplicates \in Int, o.latency \in Int, o.energy \in Int,
         q.delivery \in Int, q.duplicates \in Int, q.latency \in Int, q.energy \in Int,
         o.delivery >= q.delivery, o.duplicates <= q.duplicates,
         o.latency <= q.latency, o.energy <= q.energy
  PROVE  /\ Objective(o) \in Int /\ Objective(q) \in Int
         /\ Objective(o) <= Objective(q)
<1> DEFINE a == Clamp(9500 - o.delivery, 0, Part)
           b == Clamp(9500 - q.delivery, 0, Part)
           s == (a * a) \div 500
           t == (b * b) \div 500
           e == Within01(o.energy)
           f == Within01(q.energy)
<1>1. a \in Nat /\ b \in Nat /\ a <= b
  BY DEF Clamp, Part
<1> HIDE DEF a, b
<1>2. s <= t
  BY <1>1, SquareMonotone
<1>3. s \in Int /\ t \in Int
  <2>1. a * a \in Int /\ b * b \in Int
    BY <1>1
  <2> QED
    BY <2>1
<1>4. e <= f /\ e \in Int /\ f \in Int
  BY DEF Within01, Clamp, Part
<1> HIDE DEF s, t, e, f
<1>5. Objective(o) = 2 * o.duplicates + o.latency + e + s
  BY DEF Objective, a, e, s
<1>6. Objective(q) = 2 * q.duplicates + q.latency + f + t
  BY DEF Objective, b, f, t
<1> QED
  BY <1>2, <1>3, <1>4, <1>5, <1>6

(* Settings of the experiment, as far as outcomes depend on them.          *)
Measurable(setting) == setting.peers \in Nat \ {0} /\ setting.seed \in DOMAIN Jitter

Fieldwise(setting, p, m, field) ==
  [i \in 1..setting.peers |->
     Outcome(ControlledProfile(i, setting.seed), p, m)[field]]

(* A mean is a sum divided by the number of participants.                  *)
LEMMA AggregateIs ==
  ASSUME NEW setting, NEW p, NEW m, setting.peers \in Nat,
         NEW field \in {"delivery", "duplicates", "latency", "energy"}
  PROVE  Aggregate(setting, p, m)[field] =
           SumFunctionOnSet(Fieldwise(setting, p, m, field), 1..setting.peers)
             \div setting.peers
BY Zenon DEF Aggregate, Fieldwise, SumFunction

(* What is less for every participant is less on average.                  *)
LEMMA MeansCompare ==
  ASSUME NEW n \in Nat \ {0}, NEW f, NEW e,
         \A i \in 1..n : f[i] \in Int /\ e[i] \in Int /\ f[i] <= e[i]
  PROVE  /\ SumFunctionOnSet(f, 1..n) \div n \in Int
         /\ SumFunctionOnSet(e, 1..n) \div n \in Int
         /\ SumFunctionOnSet(f, 1..n) \div n <= SumFunctionOnSet(e, 1..n) \div n
<1> DEFINE S == 1..n
           a == SumFunctionOnSet(f, S)
           b == SumFunctionOnSet(e, S)
<1>1. IsFiniteSet(S)
  BY FS_Interval
<1>2. \A i \in S : f[i] \in Int /\ e[i] \in Int /\ f[i] <= e[i]
  OBVIOUS
<1> HIDE DEF S
<1>3. a \in Int /\ b \in Int /\ a <= b
  BY <1>1, <1>2, SumInt, SumMonotone
<1> HIDE DEF a, b
<1>4. a \div n \in Int /\ b \div n \in Int /\ a \div n <= b \div n
  BY <1>3, Quotient, QuotientMonotone
<1> QED
  BY <1>4 DEF a, b, S

(* A set is never worse off measured where its own mesh degree is deployed *)
(* than where the guardrail measured it.                                   *)
THEOREM OwnMeshIsNoWorse ==
  ASSUME NEW setting, Measurable(setting), NEW p \in Fields, NEW m \in Nat
  PROVE  /\ Objective(Aggregate(setting, p, p.mesh)) \in Int
         /\ Objective(Aggregate(setting, p, m)) \in Int
         /\ Objective(Aggregate(setting, p, p.mesh)) <= Objective(Aggregate(setting, p, m))
<1> DEFINE n == setting.peers
           all == 1..n
           of(i) == ControlledProfile(i, setting.seed)
           own(field) == Fieldwise(setting, p, p.mesh, field)
           other(field) == Fieldwise(setting, p, m, field)
           o == Aggregate(setting, p, p.mesh)
           q == Aggregate(setting, p, m)
<1>0. n \in Nat \ {0} /\ p.mesh \in Nat
  BY DEF Measurable, Fields
<1>1. \A i \in all : of(i) \in Participant
  BY ProfilesTyped DEF Measurable
<1>2. \A i \in all :
        /\ own("delivery")[i] \in Int /\ other("delivery")[i] \in Int
        /\ other("delivery")[i] <= own("delivery")[i]
        /\ own("latency")[i] \in Int /\ other("latency")[i] \in Int
        /\ own("latency")[i] <= other("latency")[i]
        /\ own("duplicates")[i] \in Int /\ other("duplicates")[i] \in Int
        /\ own("duplicates")[i] <= other("duplicates")[i]
        /\ own("energy")[i] \in Int /\ other("energy")[i] \in Int
        /\ own("energy")[i] <= other("energy")[i]
  <2> SUFFICES ASSUME NEW i \in all
               PROVE  /\ own("delivery")[i] \in Int /\ other("delivery")[i] \in Int
                      /\ other("delivery")[i] <= own("delivery")[i]
                      /\ own("latency")[i] \in Int /\ other("latency")[i] \in Int
                      /\ own("latency")[i] <= other("latency")[i]
                      /\ own("duplicates")[i] \in Int /\ other("duplicates")[i] \in Int
                      /\ own("duplicates")[i] <= other("duplicates")[i]
                      /\ own("energy")[i] \in Int /\ other("energy")[i] \in Int
                      /\ own("energy")[i] <= other("energy")[i]
    BY Zenon
  <2> DEFINE x == Outcome(of(i), p, p.mesh)
             y == Outcome(of(i), p, m)
  <2>1. of(i) \in Participant
    BY <1>1
  <2> HIDE DEF of
  <2>2. /\ x \in Outcomes /\ y \in Outcomes
        /\ x.delivery >= y.delivery /\ x.latency <= y.latency
        /\ x.duplicates = y.duplicates /\ x.energy = y.energy
    BY <2>1, OwnMeshIsBest
  <2>3. \A field : own(field)[i] = x[field] /\ other(field)[i] = y[field]
    BY Zenon DEF Fieldwise, of
  <2> HIDE DEF x, y, own, other
  <2> QED
    BY <2>2, <2>3 DEF Outcomes
<1> HIDE DEF own, other
<1>3. \A field \in {"delivery", "duplicates", "latency", "energy"} :
        /\ o[field] = SumFunctionOnSet(own(field), all) \div n
        /\ q[field] = SumFunctionOnSet(other(field), all) \div n
  BY <1>0, AggregateIs, Zenon DEF own, other
<1> HIDE DEF o, q
<1>4. o.delivery \in Int /\ q.delivery \in Int /\ q.delivery <= o.delivery
  BY <1>0, <1>2, <1>3, MeansCompare
<1>5. o.latency \in Int /\ q.latency \in Int /\ o.latency <= q.latency
  BY <1>0, <1>2, <1>3, MeansCompare
<1>6. o.duplicates \in Int /\ q.duplicates \in Int /\ o.duplicates <= q.duplicates
  BY <1>0, <1>2, <1>3, MeansCompare
<1>7. o.energy \in Int /\ q.energy \in Int /\ o.energy <= q.energy
  BY <1>0, <1>2, <1>3, MeansCompare
<1>8. Objective(o) \in Int /\ Objective(q) \in Int /\ Objective(o) <= Objective(q)
  BY <1>4, <1>5, <1>6, <1>7, ObjectiveMonotone
<1> QED
  BY <1>8 DEF o, q

(* The grid only has settings the outcome model can measure.               *)
LEMMA HereIsMeasurable == ASSUME IInv PROVE Measurable(Here)
<1>1. cell \in 1..Runs
  BY DEF IInv, RunInv
<1>2. /\ Here.peers = Counts[Sized(cell)]
      /\ Here.seed = Seed + Seeded(cell) - 1
  BY CellsAre DEF Here, Setting
<1>3. Sized(cell) \in 1..Len(Counts) /\ Seeded(cell) \in 1..Repetitions
  BY <1>1, PlacesOf
<1>4. Here.peers \in Nat \ {0}
  BY <1>2, <1>3, LengthOfCounts
<1>5. Here.seed \in DOMAIN Jitter
  BY <1>2, <1>3, EvaluationAssumption
<1> QED
  BY <1>4, <1>5 DEF Measurable

(* In the results no implementation loses to the defaults: what the        *)
(* guardrail lets through is no worse measured as if the defaults were     *)
(* deployed, and no set is worse measured as deployed itself               *)
(* (implementation.go:140-152).                                            *)
THEOREM AdaptationAlwaysPays == Spec => []AdaptationPays
<1>1. IInv => AdaptationPays
  <2> SUFFICES ASSUME IInv
               PROVE  Objective(Aggregate(Here, parameters, parameters.mesh))
                        <= Objective(Aggregate(Here, Default, Default.mesh))
    BY DEF AdaptationPays
  <2>1. parameters \in Fields /\ Default \in Fields /\ Measurable(Here)
    BY DefaultIsField, HereIsMeasurable DEF IInv, RunInv
  <2>2. Default.mesh \in Nat
    BY <2>1 DEF Fields
  <2> DEFINE own == Objective(Aggregate(Here, parameters, parameters.mesh))
             judged == Objective(Aggregate(Here, parameters, Default.mesh))
             base == Objective(Aggregate(Here, Default, Default.mesh))
  <2>3. own \in Int /\ judged \in Int /\ own <= judged
    BY <2>1, <2>2, OwnMeshIsNoWorse
  <2>4. base \in Int
    BY <2>1, <2>2, OwnMeshIsNoWorse
  <2>5. CASE parameters = Default
    BY <2>3, <2>5
  <2>6. CASE Accepts(Here, Default, parameters)
    <3>1. judged <= base
      BY <2>6, Zenon DEF Accepts
    <3> HIDE DEF own, judged, base
    <3>2. own <= base
      BY <2>3, <2>4, <3>1
    <3> QED
      BY <3>2 DEF own, base
  <2> QED
    BY <2>5, <2>6 DEF IInv, DriftBounded
<1> QED
  BY InductiveInvariant, <1>1, PTL

-----------------------------------------------------------------------------
(* What only counts: no property of a run depends on it.                   *)
Cells == {Cell(k) : k \in 1..Runs}
Counted == round \in 0..FLRounds /\ results \in Seq(Cells)

(* The rounds are counted and the rows are rows of the grid.               *)
LEMMA CountedAlways == Spec => []Counted
<1>1. Init => Counted
  BY EvaluationAssumption DEF Init, Counted
<1>2. IInv /\ Counted /\ [Next]_vars => Counted'
  <2> SUFFICES ASSUME IInv, Counted, [Next]_vars PROVE Counted'
    OBVIOUS
  <2>1. CASE RoundFails \/ RoundDecides \/ ImportFails
    <3>1. round < FLRounds /\ round' \in {round, round + 1} /\ results' \in {results, <<>>}
      BY <2>1 DEF RoundFails, RoundDecides, ImportFails
    <3>2. <<>> \in Seq(Cells) /\ round' \in 0..FLRounds
      BY <3>1, EvaluationAssumption DEF Counted
    <3> QED
      BY <3>1, <3>2 DEF Counted
  <2>2. CASE UNCHANGED <<round, results>>
    BY <2>2 DEF Counted
  <2>3. CASE Collect
    <3>1. Cell(cell) \in Cells
      BY DEF IInv, RunInv, Cells
    <3>2. results' = Append(results, Cell(cell)) /\ round' \in {round, 0}
      BY <2>3 DEF Collect
    <3> QED
      BY <3>1, <3>2, EvaluationAssumption DEF Counted
  <2> QED
    BY <2>1, <2>2, <2>3 DEF Next, vars, Start, RoundsEnd, Decide, Measure
<1> QED
  BY InductiveInvariant, <1>1, <1>2, PTL DEF Spec

(* Every variable has its type: a run deploys and traces sets the manager  *)
(* accepts as such, and collects only cells of its grid.                   *)
THEOREM TypeCorrect == Spec => []EvaluationTypeOK
<1>1. IInv /\ Counted => EvaluationTypeOK
  <2> SUFFICES ASSUME IInv, Counted PROVE EvaluationTypeOK
    OBVIOUS
  <2>1. cell \in 1..Runs /\ stage \in Stages /\ parameters \in Fields
    BY DEF IInv, RunInv
  <2>2. manager \in Fields
    <3>1. CASE Measured
      BY <3>1, DefaultIsField, ManagerStarts DEF IInv, RunInv
    <3>2. CASE ~Measured
      BY <3>2, ManagerStarts DEF IInv, RunInv
    <3> QED
      BY <3>1, <3>2
  <2>3. Shown(parameters) \in Shows
    BY <2>1 DEF Shown, Shows, Fields
  <2>4. row \in Shows \cup {Unreported}
    BY <2>3, ReportedRow
  <2>5. trace \in Seq(Entries)
    BY DEF IInv, TraceInv
  <2> QED
    BY <2>1, <2>2, <2>4, <2>5 DEF EvaluationTypeOK, Counted, Entries, Cells
<1> QED
  BY InductiveInvariant, CountedAlways, <1>1, PTL

-----------------------------------------------------------------------------
(* The refinement: the rounds, however they go, do not show; the decision  *)
(* at the end of a run is Deploy or nothing, the measurement is Report.    *)

(* An experiment begins where a guarded deployment does.                   *)
LEMMA InitRefines == Init => Promise!DeploymentInit
<1> SUFFICES ASSUME Init PROVE Promise!DeploymentInit
  OBVIOUS
<1>1. cell = 1 /\ stage = "start" /\ row = Unreported
  BY DEF Init
<1>2. Here \in {Setting(k) : k \in 1..Runs}
  BY <1>1, RunsExist DEF Here
<1>3. InForce = Default
  BY <1>1 DEF InForce
<1> QED
  BY <1>1, <1>2, <1>3 DEF Promise!DeploymentInit

(* Each step of a run is a step of a guarded deployment, or none.          *)
LEMMA StepRefines ==
  ASSUME IInv, [Next]_vars
  PROVE  [Promise!DeploymentNext]_Promise!deployment
<1> SUFFICES \/ Promise!DeploymentNext
             \/ UNCHANGED <<Here, InForce, row>>
  BY DEF Promise!deployment
<1>1. CASE RoundFails \/ ImportFails \/ RoundsEnd \/ RoundDecides
  <2>1. UNCHANGED <<cell, row>> /\ ~Measured /\ ~Measured'
    BY <1>1 DEF RoundFails, ImportFails, RoundsEnd, RoundDecides, Measured
  <2> QED
    BY <2>1 DEF Here, InForce, Measured
<1>2. CASE Start
  <2>1. /\ UNCHANGED <<cell, row, parameters>> /\ stage = "start" /\ parameters = Default
    BY <1>2 DEF Start, IInv, RunInv
  <2> QED
    BY <2>1 DEF Here, InForce
<1>3. CASE Decide
  <2>1. UNCHANGED <<cell, row>> /\ stage = "decide" /\ stage' = "measure" /\ row = Unreported
    BY <1>3 DEF Decide, IInv, RunInv
  <2>2. Here' = Here /\ InForce = Default /\ InForce' = parameters'
    BY <2>1 DEF Here, InForce
  <2>3. parameters' \in Fields
    BY <1>3, DecideKeeps DEF IInv, RunInv
  <2>4. CASE parameters' = Default
    BY <2>1, <2>2, <2>4
  <2>5. CASE parameters' # Default
    <3>1. MayReplace(Here, parameters')
      BY <1>3, <2>5 DEF Decide, MayReplace
    <3> QED
      BY <2>1, <2>2, <2>3, <3>1 DEF Promise!DeploymentNext, Promise!Deploy
  <2> QED
    BY <2>4, <2>5
<1>4. CASE Measure
  <2>1. UNCHANGED <<cell, parameters>> /\ stage = "measure" /\ stage' = "reported" /\ row = Unreported
    BY <1>4 DEF Measure, IInv, RunInv
  <2>2. Here' = Here /\ InForce' = InForce /\ InForce = parameters
    BY <2>1 DEF Here, InForce
  <2>3. row' = Shown(InForce)
    BY <1>4, <2>2, RowIsShown
  <2> QED
    BY <2>1, <2>2, <2>3 DEF Promise!DeploymentNext, Promise!Report
<1>5. CASE Collect
  <2>1. stage = "reported" /\ row # Unreported
    BY <1>5, ReportedRow DEF Collect
  <2>2. CASE cell < Runs
    <3>1. cell' = cell + 1 /\ stage' = "start" /\ row' = Unreported
      BY <1>5, <2>2 DEF Collect
    <3>2. cell' \in 1..Runs
      BY <2>2, <3>1, RunsExist DEF IInv, RunInv
    <3>3. Here' \in {Setting(k) : k \in 1..Runs} /\ InForce' = Default
      BY <3>1, <3>2 DEF Here, InForce
    <3> QED
      BY <2>1, <3>1, <3>3 DEF Promise!DeploymentNext, Promise!NextRun
  <2>3. CASE ~(cell < Runs)
    <3>1. stage' = "finished" /\ UNCHANGED <<cell, parameters, row>>
      BY <1>5, <2>3 DEF Collect
    <3> QED
      BY <2>1, <3>1 DEF Here, InForce
  <2> QED
    BY <2>2, <2>3
<1>6. CASE UNCHANGED vars
  BY <1>6 DEF vars, Here, InForce
<1> QED
  BY <1>1, <1>2, <1>3, <1>4, <1>5, <1>6 DEF Next

(* Every experiment is a sequence of guarded deployments: a run puts at    *)
(* most one set in force besides the defaults, one that the guardrail      *)
(* accepts against them, and its row shows what is in force                *)
(* (implementation.go:127-149, raw_dataset.go:152-172).                    *)
THEOREM EvaluationImplementsDeployment == Spec => ImplementsDeployment
<1>1. IInv /\ [Next]_vars => [Promise!DeploymentNext]_Promise!deployment
  BY StepRefines
<1> QED
  BY InductiveInvariant, InitRefines, <1>1, PTL
     DEF Spec, ImplementsDeployment, Promise!DeploymentSpec
=============================================================================
