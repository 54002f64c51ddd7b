---------------------------- MODULE SensingProofs ---------------------------
(***************************************************************************)
(* Proofs about Sensing and the two modules it composes: the rates of the  *)
(* collector for any traffic, failures and resets, the trust in peers for  *)
(* any weights, observations and number of peers, and what the minimum,    *)
(* the mean and the ratio of a stored summary of that trust say of each    *)
(* other.                                                                  *)
(***************************************************************************)
EXTENDS Sensing, SumTheorems

-----------------------------------------------------------------------------
(* The collector *)

(* What the counter has grown by since the last sample.                    *)
Pending == IF counter > last.count THEN counter - last.count ELSE 0

(* The inductive invariant of the collector: the last sample is no older   *)
(* than its stamp says, the counter has not fallen behind it unless it was *)
(* reset, and what is counted leaves room for what is pending.             *)
CollectorInv ==
  /\ CollectorTypeOK
  /\ collect.now <= clock /\ last.time <= collect.now
  /\ counter <= history.traffic
  /\ history.counted + Pending <= history.traffic
  /\ IF last.sampled
     THEN /\ history.covered = last.time - history.start
          /\ last.time <= cpu.time
     ELSE /\ history.covered = 0 /\ history.counted = 0
          /\ last.time = 0 /\ last.count = 0
  /\ ~history.disturbed => last.count <= counter
  /\ collect.stage = "gossip" =>
       collect.now <= cpu.time /\ (last.sampled => last.time <= cpu.from)
  /\ Gapless
  /\ LoadIsRecent

(* A collector starts with nothing counted.                                *)
LEMMA CollectorInitially == CollectorInit => CollectorInv
<1> SUFFICES ASSUME CollectorInit PROVE CollectorInv
  OBVIOUS
<1>1. 0 \in 0..MaxClock /\ 0 \in 0..MaxTraffic
  BY CollectorAssumption
<1>2. CollectorTypeOK
  BY <1>1 DEF CollectorInit, CollectorTypeOK, Stages
<1> QED
  BY <1>2 DEF CollectorInit, CollectorInv, Pending, Gapless, LoadIsRecent

(* Messages, peers and time go on around the collector.                    *)
LEMMA AroundKeeps ==
  ASSUME CollectorInv, Around
  PROVE  CollectorInv'
<1> USE CollectorAssumption DEF CollectorInv, CollectorTypeOK, Pending, Gapless,
        LoadIsRecent
<1>1. CASE TimePasses
  BY <1>1 DEF TimePasses
<1>2. CASE MessageCounted
  <2>1. counter' \in 0..MaxTraffic /\ counter' = counter + 1
    BY <1>2 DEF MessageCounted
  <2>2. history' = [history EXCEPT !.traffic = @ + 1]
        /\ history.traffic + 1 \in 0..MaxTraffic
    BY <1>2 DEF MessageCounted
  <2>3. UNCHANGED <<clock, collect, last, cpu, rate>>
    BY <1>2 DEF MessageCounted
  <2>4. /\ history'.traffic = history.traffic + 1
        /\ history'.counted = history.counted /\ history'.covered = history.covered
        /\ history'.start = history.start /\ history'.base = history.base
        /\ history'.disturbed = history.disturbed
        /\ CollectorTypeOK'
    BY <2>1, <2>2, <2>3
  <2>5. Pending' <= Pending + 1
    BY <2>1, <2>3
  <2>6. /\ history'.counted + Pending' <= history'.traffic
        /\ counter' <= history'.traffic
    BY <2>1, <2>3, <2>4, <2>5
  <2>7. Gapless' /\ LoadIsRecent'
    BY <2>3, <2>4
  <2> HIDE DEF CollectorTypeOK, Gapless, LoadIsRecent
  <2>8. /\ collect'.now <= clock' /\ last'.time <= collect'.now
        /\ collect'.stage = "gossip" =>
             collect'.now <= cpu'.time /\ (last'.sampled => last'.time <= cpu'.from)
    BY <2>3 DEF CollectorInv
  <2>9. ~history'.disturbed => last'.count <= counter'
    BY <2>1, <2>3, <2>4 DEF CollectorTypeOK
  <2>10. IF last'.sampled
         THEN history'.covered = last'.time - history'.start /\ last'.time <= cpu'.time
         ELSE /\ history'.covered = 0 /\ history'.counted = 0
              /\ last'.time = 0 /\ last'.count = 0
    BY <2>3, <2>4 DEF CollectorInv
  <2> HIDE DEF Pending
  <2> QED
    BY <2>4, <2>6, <2>7, <2>8, <2>9, <2>10 DEF CollectorInv
<1>3. CASE CounterReset
  <2>1. counter' = 0 /\ 0 \in 0..MaxTraffic
    BY <1>3 DEF CounterReset
  <2>2. history' = [history EXCEPT !.disturbed = TRUE]
    BY <1>3 DEF CounterReset
  <2>3. UNCHANGED <<clock, collect, last, cpu, rate>>
    BY <1>3 DEF CounterReset
  <2>4. CollectorTypeOK' /\ history'.disturbed
    BY <2>1, <2>2, <2>3 DEF CollectorTypeOK
  <2>5. counter' <= history'.traffic /\ history'.counted + Pending' <= history'.traffic
    BY <2>1, <2>2, <2>3
  <2>6. Gapless'
    BY <2>4
  <2>7. LoadIsRecent'
    BY <2>2, <2>3
  <2>8. /\ history'.covered = history.covered /\ history'.counted = history.counted
        /\ history'.start = history.start
    BY <2>2
  <2> HIDE DEF CollectorTypeOK, Gapless, LoadIsRecent, Pending
  <2> QED
    BY <2>3, <2>4, <2>5, <2>6, <2>7, <2>8 DEF CollectorInv
<1> QED
  BY <1>1, <1>2, <1>3 DEF Around

(* A sample of the gossip counters ends what was pending for it.           *)
LEMMA GossipSampleKeeps ==
  ASSUME CollectorInv, GossipSample
  PROVE  CollectorInv'
<1> DEFINE time  == Elapsed(collect.now)
           count == IF time > 0 THEN Delta(counter, last.count) ELSE 0
<1> USE CollectorAssumption DEF CollectorInv, CollectorTypeOK
<1>1. time \in 0..MaxClock /\ count \in 0..MaxTraffic
  BY DEF Elapsed, Delta
<1>2. history.counted + count <= history.traffic
  BY <1>1 DEF Delta, Pending
<1>3. last.sampled => history.covered + time = collect.now - history.start
  BY DEF Elapsed
<1>4. ~last.sampled => time = 0 /\ count = 0
  BY DEF Elapsed
<1>5. /\ rate' = [count |-> count, time |-> time]
      /\ last' = [sampled |-> TRUE, time |-> collect.now, count |-> counter]
      /\ collect' = [collect EXCEPT !.stage = "collected"]
      /\ UNCHANGED <<clock, counter, cpu>>
  BY DEF GossipSample, Stage
<1>6. history' = [history EXCEPT
            !.counted = history.counted + count, !.covered = history.covered + time,
            !.start = IF last.sampled THEN history.start ELSE collect.now,
            !.base = IF last.sampled THEN history.base ELSE counter,
            !.disturbed = history.disturbed \/ (last.sampled /\ time = 0)]
  BY DEF GossipSample
<1>7. last.sampled /\ ~history.disturbed /\ time # 0 => count = counter - last.count
  BY <1>1 DEF Delta
<1>8. last.sampled => collect.now - time = last.time
  BY DEF Elapsed
<1> HIDE DEF time, count
<1>9. CollectorTypeOK'
  <2>1. history.counted + count \in 0..MaxTraffic
    BY <1>1, <1>2
  <2>2. history.covered + time \in 0..MaxClock
    BY <1>1, <1>3, <1>4
  <2> QED
    BY <1>1, <1>5, <1>6, <2>1, <2>2 DEF Stages
<1>10. Gapless'
  BY <1>1, <1>3, <1>4, <1>5, <1>6, <1>7 DEF Gapless
<1>11. LoadIsRecent'
  <2>1. collect.stage = "gossip"
    BY DEF GossipSample
  <2>2. CASE last.sampled
    BY <1>1, <1>5, <1>6, <1>8, <2>1, <2>2 DEF LoadIsRecent
  <2>3. CASE ~last.sampled
    BY <1>1, <1>5, <1>6, <2>3 DEF LoadIsRecent
  <2> QED
    BY <2>2, <2>3
<1>12. Pending' = 0
  BY <1>5 DEF Pending
<1>13. collect'.now = collect.now /\ collect'.stage = "collected"
  BY <1>5
<1>14. collect.now <= cpu.time
  BY DEF GossipSample
<1>15. history'.counted = history.counted + count /\ history'.traffic = history.traffic
       /\ history'.covered = history.covered + time
       /\ history'.start = IF last.sampled THEN history.start ELSE collect.now
  BY <1>6
<1>16. history'.covered = last'.time - history'.start
  BY <1>1, <1>3, <1>4, <1>5, <1>15
<1>17. history'.counted + Pending' <= history'.traffic
  BY <1>1, <1>2, <1>12, <1>15
<1>18. /\ last'.sampled /\ last'.time = collect.now /\ last'.count = counter
       /\ counter' = counter /\ clock' = clock /\ cpu' = cpu
  BY <1>5
<1>19. counter \in Int /\ collect.now \in Int /\ collect.now <= clock
       /\ counter <= history.traffic
  OBVIOUS
<1> HIDE DEF CollectorInv, CollectorTypeOK
<1> QED
  BY <1>9, <1>10, <1>11, <1>13, <1>14, <1>15, <1>16, <1>17, <1>18, <1>19
     DEF CollectorInv

(* A collection ends what was pending for it.                              *)
LEMMA CollectKeeps ==
  ASSUME CollectorInv, CollectStep
  PROVE  CollectorInv'
<1> USE CollectorAssumption
<1>1. CASE CollectBegin
  BY <1>1 DEF CollectBegin, CollectorInv, CollectorTypeOK, Pending, Gapless,
              LoadIsRecent, Stages
<1>2. CASE SystemSample
  BY <1>2 DEF SystemSample, Stage, CollectorInv, CollectorTypeOK, Pending,
              Gapless, LoadIsRecent, Stages
<1>3. CASE SystemFails
  BY <1>3 DEF SystemFails, Stage, CollectorInv, CollectorTypeOK, Pending,
              Gapless, LoadIsRecent, Stages
<1>4. CASE GossipSample
  BY <1>4, GossipSampleKeeps
<1>5. CASE GossipFails
  BY <1>5 DEF GossipFails, Stage, CollectorInv, CollectorTypeOK, Pending,
              Gapless, LoadIsRecent, Stages
<1> QED
  BY <1>1, <1>2, <1>3, <1>4, <1>5 DEF CollectStep

(* The step that ends a refresh only lets the next Collect begin.          *)
LEMMA StoreKeeps ==
  ASSUME CollectorInv, StoreMetrics
  PROVE  CollectorInv'
BY DEF StoreMetrics, Stage, CollectorInv, CollectorTypeOK, Pending, Gapless,
       LoadIsRecent, Stages

-----------------------------------------------------------------------------
(* Trust: arithmetic *)

(* An average stays within any bounds of both samples, follows the newer   *)
(* one, and moves by no more than that one's weight.                       *)
LEMMA BlendBetween ==
  ASSUME NEW x \in Int, NEW y \in Int, NEW bound \in Int
  PROVE  /\ Blend(x, y) \in Int
         /\ bound <= x /\ bound <= y => bound <= Blend(x, y)
         /\ x <= bound /\ y <= bound => Blend(x, y) <= bound
<1> DEFINE b == EmaDen - EmaNum
           n == EmaNum * y + b * x
<1>1. EmaNum \in Nat /\ b \in Nat /\ EmaDen \in Nat \ {0} /\ n \in Int
  BY TrustAssumption
<1>2. EmaNum * bound + b * bound = EmaDen * bound
  BY <1>1
<1>3. ASSUME bound <= x, bound <= y PROVE EmaDen * bound <= n
  <2>1. EmaNum * bound <= EmaNum * y /\ b * bound <= b * x
    BY <1>1, <1>3, Product
  <2> QED
    BY <1>1, <1>2, <2>1
<1>4. ASSUME x <= bound, y <= bound PROVE n <= EmaDen * bound
  <2>1. EmaNum * y <= EmaNum * bound /\ b * x <= b * bound
    BY <1>1, <1>4, Product
  <2> QED
    BY <1>1, <1>2, <2>1
<1> HIDE DEF n
<1>5. /\ n \div EmaDen \in Int
      /\ EmaDen * bound <= n => bound <= n \div EmaDen
      /\ n <= EmaDen * bound => n \div EmaDen <= bound
  BY <1>1, Quotient
<1> QED
  BY <1>3, <1>4, <1>5 DEF Blend, n

(* Better evidence gives a better blend.                                   *)
LEMMA BlendMonotone ==
  ASSUME NEW x \in Int, NEW y \in Int, NEW z \in Int, y <= z
  PROVE  Blend(x, y) <= Blend(x, z)
<1> DEFINE b == EmaDen - EmaNum
           n == EmaNum * y + b * x
           m == EmaNum * z + b * x
<1>1. EmaNum \in Nat /\ b \in Nat /\ EmaDen \in Nat \ {0} /\ n \in Int /\ m \in Int
  BY TrustAssumption
<1>2. n <= m
  BY <1>1, Product
<1> HIDE DEF n, m
<1>3. n \div EmaDen \in Int /\ EmaDen * (n \div EmaDen) <= n
  BY <1>1, Quotient
<1>4. EmaDen * (n \div EmaDen) <= m
  BY <1>1, <1>2, <1>3
<1>5. n \div EmaDen <= m \div EmaDen
  BY <1>1, <1>3, <1>4, Quotient
<1> QED
  BY <1>5 DEF Blend, n, m

(* One observation moves a blend by no more than its share.                *)
LEMMA BlendGradual ==
  ASSUME NEW x \in Parts, NEW y \in Parts
  PROVE  /\ EmaDen * (Blend(x, y) - x) <= EmaNum * Unit + EmaDen
         /\ EmaDen * (x - Blend(x, y)) <= EmaNum * Unit + EmaDen
<1> DEFINE n == EmaNum * y + (EmaDen - EmaNum) * x
           q == n \div EmaDen
<1>1. EmaNum \in Nat /\ EmaDen \in Nat \ {0} /\ n \in Int /\ Unit \in Nat
      /\ x \in Int /\ y \in Int
  BY TrustAssumption DEF Parts
<1>2. n = EmaDen * x + EmaNum * (y - x)
  BY <1>1
<1>3. EmaNum * (y - x) <= EmaNum * Unit /\ EmaNum * (x - y) <= EmaNum * Unit
  BY <1>1, Product DEF Parts
<1>4. EmaNum * (y - x) = -(EmaNum * (x - y))
  BY <1>1
<1> HIDE DEF n
<1>5. q \in Int /\ EmaDen * q <= n /\ n < EmaDen * q + EmaDen
  BY <1>1, Quotient
<1> HIDE DEF q
<1>6. EmaDen * (q - x) = EmaDen * q - EmaDen * x
      /\ EmaDen * (x - q) = EmaDen * x - EmaDen * q
  BY <1>1, <1>5
<1>7. EmaDen * (q - x) <= EmaNum * Unit + EmaDen
      /\ EmaDen * (x - q) <= EmaNum * Unit + EmaDen
  BY <1>1, <1>2, <1>3, <1>4, <1>5, <1>6
<1> QED
  BY <1>7 DEF Blend, n, q

-----------------------------------------------------------------------------
(* Trust: averages and scores *)

Entries == [Aspects -> Parts]

(* Weights are not negative.                                               *)
LEMMA WeightsNat == \A a \in Aspects : Weight[a] \in Nat
BY TrustAssumption

(* What is better in every aspect has the better score.                    *)
LEMMA ScoreMonotone ==
  ASSUME NEW e \in Entries, NEW f \in Entries, \A a \in Aspects : e[a] <= f[a]
  PROVE  Score(e) \in Int /\ Score(f) \in Int /\ Score(e) <= Score(f)
<1>1. \A a \in Aspects : e[a] \in Int /\ f[a] \in Int
  BY DEF Entries, Parts
<1>2. \A a \in Aspects : Weight[a] * e[a] <= Weight[a] * f[a]
  <2> TAKE a \in Aspects
  <2> QED
    BY <1>1, WeightsNat, Product
<1>3. \A a \in Aspects : Weight[a] * e[a] \in Int /\ Weight[a] * f[a] \in Int
  BY <1>1, WeightsNat
<1> QED
  BY <1>2, <1>3 DEF Score, Aspects

(* A score moves by no more than its aspects do.                           *)
LEMMA ScoreGradual ==
  ASSUME NEW e \in Entries, NEW f \in Entries, NEW m \in Int,
         \A a \in Aspects : EmaDen * (f[a] - e[a]) <= m
  PROVE  EmaDen * (Score(f) - Score(e)) <= TotalWeight * m
<1>1. \A a \in Aspects : e[a] \in Int /\ f[a] \in Int
  BY DEF Entries, Parts
<1>2. EmaDen \in Nat
  BY TrustAssumption
<1>3. \A a \in Aspects : Weight[a] * (EmaDen * (f[a] - e[a])) <= Weight[a] * m
  <2> TAKE a \in Aspects
  <2>1. EmaDen * (f[a] - e[a]) \in Int
    BY <1>1, <1>2
  <2> QED
    BY <2>1, WeightsNat, Product
<1>4. \A a \in Aspects :
        EmaDen * (Weight[a] * f[a] - Weight[a] * e[a])
          = Weight[a] * (EmaDen * (f[a] - e[a]))
  BY <1>1, <1>2, WeightsNat
<1> DEFINE P(a) == Weight[a] * f[a] - Weight[a] * e[a]
           R(a) == Weight[a] * m
<1>5. \A a \in Aspects : P(a) \in Int /\ R(a) \in Int /\ EmaDen * P(a) <= R(a)
  BY <1>1, <1>2, <1>3, <1>4, WeightsNat
<1>6. Score(f) - Score(e) =
        P("reliability") + P("forwarding") + P("stability") + P("peerScore")
        + P("linkQuality") + P("misbehavior")
  <2>1. \A a \in Aspects : Weight[a] * e[a] \in Int /\ Weight[a] * f[a] \in Int
    BY <1>1, WeightsNat
  <2> QED
    BY <2>1 DEF Score, Aspects
<1>7. TotalWeight * m =
        R("reliability") + R("forwarding") + R("stability") + R("peerScore")
        + R("linkQuality") + R("misbehavior")
  BY WeightsNat DEF TotalWeight, Aspects
<1> HIDE DEF P, R
<1>8. EmaDen * (P("reliability") + P("forwarding") + P("stability") + P("peerScore")
                + P("linkQuality") + P("misbehavior")) =
        EmaDen * P("reliability") + EmaDen * P("forwarding") + EmaDen * P("stability")
        + EmaDen * P("peerScore") + EmaDen * P("linkQuality")
        + EmaDen * P("misbehavior")
  BY <1>2, <1>5 DEF Aspects
<1>9. \A a \in Aspects : EmaDen * P(a) \in Int
  BY <1>2, <1>5
<1> QED
  BY <1>5, <1>6, <1>7, <1>8, <1>9 DEF Aspects

(* Evidence is between 0 and 1.                                            *)
LEMMA EvidenceInParts ==
  ASSUME NEW o \in ObservationSpace, NEW a \in Given(o)
  PROVE  a \in Aspects /\ Evidence(o)[a] \in Parts
<1>1. Unit \in Nat /\ Unit > 0 /\ Unit % 20 = 0
  BY TrustAssumption
<1>2. Unit \div 4 \in Int /\ 4 * (Unit \div 4) <= Unit /\ 0 <= Unit \div 4
      /\ Unit \div 10 \in Int /\ 10 * (Unit \div 10) <= Unit /\ 0 <= Unit \div 10
  BY <1>1
<1>3. /\ o.link \in Parts /\ o.score \in Parts \cup {Absent}
  BY DEF ObservationSpace
<1>4. a \in Aspects /\ (a = "peerScore" => o.score \in Parts)
  BY <1>3 DEF Given
<1> QED
  BY <1>1, <1>2, <1>3, <1>4 DEF Evidence, Aspects, Parts

(* Good conduct gives no evidence below the neutral one, bad none above.   *)
LEMMA KindShowsInEvidence ==
  ASSUME NEW o \in ObservationSpace, NEW a \in Given(o)
  PROVE  /\ Kind(o) = "good" => Neutral <= Evidence(o)[a]
         /\ Kind(o) = "bad" => Evidence(o)[a] <= Neutral
<1>1. Unit \in Nat /\ Unit > 0 /\ Unit % 20 = 0
  BY TrustAssumption
<1>2. PICK n \in Nat : Unit = 20 * n
  <2>1. Unit = 20 * (Unit \div 20) /\ Unit \div 20 \in Nat
    BY <1>1
  <2> QED
    BY <2>1
<1>3. /\ Unit \div 4 = 5 * n /\ Unit \div 10 = 2 * n
      /\ Neutral = 10 * n /\ Neutral \in Nat
  BY <1>2 DEF Neutral
<1>4. o.link \in Nat /\ (a = "peerScore" => o.score \in Nat /\ o.score # Absent)
  BY TrustAssumption DEF ObservationSpace, Given, Parts
<1>5. a \in Aspects
  BY DEF Given
<1>6. CASE Kind(o) = "good"
  <2>1. Good(o)
    BY <1>6 DEF Kind
  <2>2. Neutral <= Evidence(o)[a]
    BY <1>2, <1>3, <1>4, <1>5, <2>1 DEF Evidence, Good, Aspects
  <2> QED
    BY <1>6, <2>2
<1>7. CASE Kind(o) = "bad"
  <2>1. Bad(o)
    BY <1>7 DEF Kind
  <2>2. Evidence(o)[a] <= Neutral
    BY <1>2, <1>3, <1>4, <1>5, <2>1 DEF Evidence, Bad, Aspects
  <2> QED
    BY <1>7, <2>2
<1> QED
  BY <1>6, <1>7

(* So is a blend.                                                          *)
LEMMA BlendInParts ==
  ASSUME NEW x \in Parts, NEW y \in Parts
  PROVE  Blend(x, y) \in Parts
<1>1. x \in Int /\ y \in Int /\ Unit \in Int /\ 0 <= x /\ 0 <= y /\ x <= Unit /\ y <= Unit
  BY TrustAssumption DEF Parts
<1>2. Blend(x, y) \in Int /\ 0 <= Blend(x, y)
  BY <1>1, BlendBetween
<1>3. Blend(x, y) <= Unit
  BY <1>1, BlendBetween
<1> QED
  BY <1>1, <1>2, <1>3 DEF Parts

(* An observation blends what it gives evidence of, and nothing else.      *)
LEMMA UpdatedIsEntry ==
  ASSUME NEW e \in Entries, NEW o \in ObservationSpace
  PROVE  /\ Updated(e, o) \in Entries
         /\ \A a \in Given(o) : Updated(e, o)[a] = Blend(e[a], Evidence(o)[a])
         /\ \A a \in Aspects \ Given(o) : Updated(e, o)[a] = e[a]
<1>1. ASSUME NEW a \in Given(o)
      PROVE  a \in Aspects /\ Blend(e[a], Evidence(o)[a]) \in Parts
  <2>1. a \in Aspects /\ Evidence(o)[a] \in Parts
    BY EvidenceInParts
  <2>2. e[a] \in Parts
    BY <2>1 DEF Entries
  <2> QED
    BY <2>1, <2>2, BlendInParts
<1>2. \A a \in Aspects \ Given(o) : e[a] \in Parts
  BY DEF Entries
<1> QED
  BY <1>1, <1>2 DEF Updated, Entries

(* A newcomer is neutral.                                                  *)
LEMMA NeutralInParts == Neutral \in Parts /\ Newcomer \in Entries
BY TrustAssumption DEF Neutral, Parts, Newcomer, Entries

-----------------------------------------------------------------------------
(* Trust: the invariant *)

(* conduct follows the known peers, and a peer of which only good (or only *)
(* bad) was observed has no average below (above) the neutral one.         *)
TrustInv ==
  /\ trust \in [Known -> Entries]
  /\ Known \subseteq Peers
  /\ conduct \in [Peers -> Conducts]
  /\ observed \in 0..MaxObservations
  /\ \A p \in Peers : conduct[p] = "unknown" <=> p \notin Known
  /\ \A p \in Peers : conduct[p] = "good" =>
       \A a \in Aspects : Neutral <= trust[p][a]
  /\ \A p \in Peers : conduct[p] = "bad" =>
       \A a \in Aspects : trust[p][a] <= Neutral

(* A manager starts with no peers.                                         *)
LEMMA TrustInitially == TrustInit => TrustInv
<1> SUFFICES ASSUME TrustInit PROVE TrustInv
  OBVIOUS
<1>1. Known = {} /\ trust \in [{} -> Entries] /\ 0 \in 0..MaxObservations
  BY TrustAssumption DEF TrustInit, Known
<1> QED
  BY <1>1 DEF TrustInit, TrustInv, Conducts

(* Every peer has an entry: its own or that of a newcomer.                 *)
LEMMA EntryInEntries ==
  ASSUME TrustInv, NEW p \in Peers
  PROVE  Entry(p) \in Entries
BY NeutralInParts DEF TrustInv, Entry

(* A peer that is removed is a newcomer again.                             *)
LEMMA RemoveKeeps ==
  ASSUME TrustInv, NEW p \in Peers, Remove(p)
  PROVE  TrustInv'
BY DEF TrustInv, Remove, Known, Conducts

(* A peer that is observed has what its observations made of a newcomer.   *)
LEMMA ObserveKeeps ==
  ASSUME TrustInv, NEW p \in Peers, ObservePeer(p)
  PROVE  TrustInv'
<1>1. PICK o \in Observations :
        /\ trust' = [q \in Known \cup {p} |->
                       IF q = p THEN Updated(Entry(p), o) ELSE trust[q]]
        /\ conduct' = [conduct EXCEPT ![p] =
                         IF conduct[p] \in {"unknown", Kind(o)} THEN Kind(o)
                         ELSE "mixed"]
  BY DEF ObservePeer
<1>2. o \in ObservationSpace
  BY TrustAssumption
<1>3. Entry(p) \in Entries
  BY EntryInEntries
<1> DEFINE u == Updated(Entry(p), o)
<1>4. u \in Entries
  BY <1>2, <1>3, UpdatedIsEntry
<1>5. /\ \A a \in Given(o) : u[a] = Blend(Entry(p)[a], Evidence(o)[a])
      /\ \A a \in Aspects \ Given(o) : u[a] = Entry(p)[a]
      /\ \A a \in Given(o) : Evidence(o)[a] \in Int
  <2>1. \A a \in Given(o) : Evidence(o)[a] \in Parts
    BY <1>2, EvidenceInParts
  <2>2. \A a \in Given(o) : Evidence(o)[a] \in Int
    BY <2>1 DEF Parts
  <2> QED
    BY <1>2, <1>3, <2>2, UpdatedIsEntry
<1>6. \A a \in Aspects : Entry(p)[a] \in Int
  BY <1>3 DEF Entries, Parts
<1>7. Neutral \in Int
  BY TrustAssumption DEF Neutral
<1>8. Kind(o) \in {"good", "bad", "mixed"}
  BY DEF Kind
<1> HIDE DEF u
<1>9. ASSUME Kind(o) = "good", conduct[p] \in {"unknown", "good"},
             NEW a \in Aspects
      PROVE  Neutral <= u[a]
  <2>1. Neutral <= Entry(p)[a]
    BY <1>7, <1>9 DEF TrustInv, Entry, Newcomer
  <2>2. a \in Given(o) => Neutral <= Evidence(o)[a]
    BY <1>2, <1>9, KindShowsInEvidence
  <2>3. a \in Given(o) => Neutral <= Blend(Entry(p)[a], Evidence(o)[a])
    BY <1>5, <1>6, <1>7, <2>1, <2>2, BlendBetween
  <2> QED
    BY <1>5, <2>1, <2>3
<1>10. ASSUME Kind(o) = "bad", conduct[p] \in {"unknown", "bad"},
              NEW a \in Aspects
       PROVE  u[a] <= Neutral
  <2>1. Entry(p)[a] <= Neutral
    BY <1>7, <1>10 DEF TrustInv, Entry, Newcomer
  <2>2. a \in Given(o) => Evidence(o)[a] <= Neutral
    BY <1>2, <1>10, KindShowsInEvidence
  <2>3. a \in Given(o) => Blend(Entry(p)[a], Evidence(o)[a]) <= Neutral
    BY <1>5, <1>6, <1>7, <2>1, <2>2, BlendBetween
  <2> QED
    BY <1>5, <2>1, <2>3
<1>11. /\ Known' = Known \cup {p}
       /\ trust' \in [Known' -> Entries]
       /\ trust'[p] = u
       /\ \A q \in Known \ {p} : trust'[q] = trust[q]
  BY <1>1, <1>4 DEF TrustInv, Known, u
<1>12. /\ conduct'[p] \in {"good", "bad", "mixed"}
       /\ conduct' \in [Peers -> Conducts]
       /\ \A q \in Peers \ {p} : conduct'[q] = conduct[q]
  BY <1>1, <1>8 DEF TrustInv, Conducts
<1>13. /\ conduct'[p] = "good" =>
            Kind(o) = "good" /\ conduct[p] \in {"unknown", "good"}
       /\ conduct'[p] = "bad" =>
            Kind(o) = "bad" /\ conduct[p] \in {"unknown", "bad"}
  BY <1>1, <1>8 DEF TrustInv
<1>14. observed' \in 0..MaxObservations
  BY TrustAssumption DEF ObservePeer, TrustInv
<1>15. ASSUME NEW q \in Peers
       PROVE  /\ conduct'[q] = "unknown" <=> q \notin Known'
              /\ conduct'[q] = "good" => \A a \in Aspects : Neutral <= trust'[q][a]
              /\ conduct'[q] = "bad" => \A a \in Aspects : trust'[q][a] <= Neutral
  <2>1. CASE q = p
    BY <1>9, <1>10, <1>11, <1>12, <1>13, <2>1
  <2>2. CASE q # p
    <3>1. (q \in Known' <=> q \in Known) /\ conduct'[q] = conduct[q]
      BY <1>11, <1>12, <2>2
    <3>2. CASE q \in Known
      BY <1>11, <2>2, <3>1, <3>2 DEF TrustInv
    <3>3. CASE q \notin Known
      BY <3>1, <3>3 DEF TrustInv
    <3> QED
      BY <3>2, <3>3
  <2> QED
    BY <2>1, <2>2
<1> QED
  BY <1>11, <1>12, <1>14, <1>15 DEF TrustInv

(* What the ranking compares is the score of the entry, and it follows the *)
(* averages.                                                               *)
LEMMA ConductOrders ==
  ASSUME TrustInv, NEW p \in Peers, NEW q \in Peers, Behaved(p, q)
  PROVE  /\ TrustForRanking(p) \in Int /\ TrustForRanking(q) \in Int
         /\ TrustForRanking(q) <= TrustForRanking(p)
<1>1. Entry(p) \in Entries /\ Entry(q) \in Entries
  BY EntryInEntries
<1>2. \A r \in Peers : \A a \in Aspects :
        /\ conduct[r] = "good" => Neutral <= Entry(r)[a]
        /\ conduct[r] = "bad" => Entry(r)[a] <= Neutral
        /\ conduct[r] = "unknown" => Entry(r)[a] = Neutral
  BY DEF TrustInv, Entry, Newcomer
<1>3. \A a \in Aspects : Entry(q)[a] <= Entry(p)[a]
  <2> TAKE a \in Aspects
  <2>1. Entry(p)[a] \in Int /\ Entry(q)[a] \in Int /\ Neutral \in Int
    BY <1>1, NeutralInParts DEF Entries, Parts
  <2> QED
    BY <1>2, <2>1 DEF Behaved
<1>4. TrustForRanking(p) = Score(Entry(p)) /\ TrustForRanking(q) = Score(Entry(q))
  BY DEF TrustForRanking, Entry
<1> QED
  BY <1>1, <1>3, <1>4, ScoreMonotone

(* Who behaved better has the better score.                                *)
LEMMA TrustInvShowsConduct == TrustInv => ConductShows
<1> SUFFICES ASSUME TrustInv, NEW p \in Peers, NEW q \in Peers, NEW g \in {0, Unit},
                    Behaved(p, q)
             PROVE  ~RanksBefore(q, g, p, g)
  BY DEF ConductShows
<1>1. /\ TrustForRanking(p) \in Int /\ TrustForRanking(q) \in Int
      /\ TrustForRanking(q) <= TrustForRanking(p)
  BY ConductOrders
<1>2. TrustWeight \in Nat /\ GossipWeight \in Nat /\ TotalWeight \in Int /\ g \in Int
  BY TrustAssumption, WeightsNat DEF TotalWeight, Aspects
<1>3. TrustWeight * TrustForRanking(q) <= TrustWeight * TrustForRanking(p)
  BY <1>1, <1>2, Product
<1>4. GossipWeight * TotalWeight * g \in Int
  BY <1>2
<1>5. /\ TrustWeight * TrustForRanking(q) \in Int
      /\ TrustWeight * TrustForRanking(p) \in Int
  BY <1>1, <1>2
<1> DEFINE c == GossipWeight * TotalWeight * g
           x == TrustWeight * TrustForRanking(q)
           y == TrustWeight * TrustForRanking(p)
<1>6. Quality(q, g) = c + x /\ Quality(p, g) = c + y
  BY DEF Quality
<1> HIDE DEF c, x, y
<1>7. c \in Int /\ x \in Int /\ y \in Int /\ x <= y
  BY <1>3, <1>4, <1>5 DEF c, x, y
<1> QED
  BY <1>6, <1>7 DEF RanksBefore

(* More evidence for every aspect leaves more trust.                       *)
LEMMA TrustInvBetterConduct == TrustInv => BetterConductNeverHurts
<1> SUFFICES ASSUME TrustInv, NEW p \in Peers,
                    NEW o \in Observations, NEW w \in Observations, NoWorse(o, w)
             PROVE  Score(Updated(Entry(p), w)) <= Score(Updated(Entry(p), o))
  BY DEF BetterConductNeverHurts, NoWorsePairs
<1> DEFINE e == Entry(p)
<1>1. o \in ObservationSpace /\ w \in ObservationSpace /\ e \in Entries
  BY TrustAssumption, EntryInEntries
<1>2. Given(o) = Given(w) /\ Given(o) \subseteq Aspects
  BY DEF NoWorse, Given
<1>3. ASSUME NEW a \in Given(o) PROVE Evidence(w)[a] <= Evidence(o)[a]
  <2>1. Unit \in Nat /\ Unit \div 4 \in Nat /\ Unit \div 10 \in Nat
        /\ 4 * (Unit \div 4) <= Unit
    BY TrustAssumption
  <2>2. a = "peerScore" => o.score # Absent
    BY <1>3 DEF Given
  <2>3. /\ o.link \in Int /\ w.link \in Int /\ w.link <= o.link
        /\ o.score # Absent => w.score <= o.score
        /\ o.delivered \in BOOLEAN /\ w.delivered \in BOOLEAN
        /\ o.received \in BOOLEAN /\ w.received \in BOOLEAN
        /\ o.forwarded \in BOOLEAN /\ w.forwarded \in BOOLEAN
        /\ o.connected \in BOOLEAN /\ w.connected \in BOOLEAN
        /\ o.invalid \in BOOLEAN /\ w.invalid \in BOOLEAN
        /\ o.duplicate \in BOOLEAN /\ w.duplicate \in BOOLEAN
    BY <1>1 DEF NoWorse, ObservationSpace, Parts
  <2> DEFINE quarter == Unit \div 4
             tenth == Unit \div 10
  <2>4. quarter \in Nat /\ tenth \in Nat /\ 4 * quarter <= Unit
    BY <2>1
  <2> HIDE DEF quarter, tenth
  <2>5. CASE a = "reliability"
    BY <2>1, <2>3, <2>4, <2>5 DEF Evidence, NoWorse, quarter
  <2>6. CASE a = "misbehavior"
    BY <2>1, <2>3, <2>4, <2>6 DEF Evidence, NoWorse, quarter, tenth
  <2>7. CASE a \in {"forwarding", "stability"}
    BY <2>1, <2>3, <2>7 DEF Evidence, NoWorse
  <2>8. CASE a \in {"peerScore", "linkQuality"}
    BY <2>2, <2>3, <2>8 DEF Evidence
  <2> QED
    BY <1>2, <2>5, <2>6, <2>7, <2>8 DEF Aspects
<1>4. /\ Updated(e, o) \in Entries /\ Updated(e, w) \in Entries
      /\ \A a \in Given(o) : Updated(e, o)[a] = Blend(e[a], Evidence(o)[a])
      /\ \A a \in Given(o) : Updated(e, w)[a] = Blend(e[a], Evidence(w)[a])
      /\ \A a \in Aspects \ Given(o) : Updated(e, o)[a] = e[a] /\ Updated(e, w)[a] = e[a]
  BY <1>1, <1>2, UpdatedIsEntry
<1>5. \A a \in Aspects : e[a] \in Int
  BY <1>1 DEF Entries, Parts
<1>6. \A a \in Given(o) : Evidence(o)[a] \in Int /\ Evidence(w)[a] \in Int
  <2> TAKE a \in Given(o)
  <2>1. Evidence(o)[a] \in Parts /\ Evidence(w)[a] \in Parts
    BY <1>1, <1>2, EvidenceInParts
  <2> QED
    BY <2>1 DEF Parts
<1>7. ASSUME NEW a \in Aspects PROVE Updated(e, w)[a] <= Updated(e, o)[a]
  <2>1. CASE a \in Given(o)
    <3>1. Blend(e[a], Evidence(w)[a]) <= Blend(e[a], Evidence(o)[a])
      BY <1>3, <1>5, <1>6, <2>1, BlendMonotone
    <3> QED
      BY <1>4, <2>1, <3>1
  <2>2. CASE a \notin Given(o)
    BY <1>4, <1>5, <2>2
  <2> QED
    BY <2>1, <2>2
<1> QED
  BY <1>4, <1>7, ScoreMonotone

(* The bound of one step, whatever the aspect.                             *)
Most == EmaNum * Unit + EmaDen

(* One observation moves an aspect by no more than its share.              *)
LEMMA UpdatedGradual ==
  ASSUME NEW e \in Entries, NEW o \in ObservationSpace, NEW a \in Aspects
  PROVE  /\ EmaDen * (Updated(e, o)[a] - e[a]) <= Most
         /\ EmaDen * (e[a] - Updated(e, o)[a]) <= Most
<1>1. e[a] \in Parts
  BY DEF Entries
<1>2. CASE a \in Given(o)
  <2>1. Evidence(o)[a] \in Parts
    BY <1>2, EvidenceInParts
  <2>2. Updated(e, o)[a] = Blend(e[a], Evidence(o)[a])
    BY <1>2, UpdatedIsEntry
  <2> QED
    BY <1>1, <2>1, <2>2, BlendGradual DEF Most
<1>3. CASE a \notin Given(o)
  <2>1. Updated(e, o)[a] = e[a] /\ e[a] \in Int
    BY <1>1, <1>3, UpdatedIsEntry DEF Parts
  <2>2. 0 <= EmaNum * Unit + EmaDen /\ EmaDen \in Nat
    BY TrustAssumption
  <2> QED
    BY <2>1, <2>2 DEF Most
<1> QED
  BY <1>2, <1>3

(* One step moves a score by no more than its share.                       *)
LEMMA StepGradual ==
  ASSUME TrustInv, NEW r \in Peers, ObservePeer(r) \/ Remove(r),
         NEW p \in Peers, p \in Known, p \in DOMAIN trust'
  PROVE  /\ EmaDen * (Score(trust'[p]) - Score(trust[p])) <= TotalWeight * Most
         /\ EmaDen * (Score(trust[p]) - Score(trust'[p])) <= TotalWeight * Most
<1>1. trust[p] \in Entries
  BY DEF TrustInv
<1>2. Most \in Int /\ 0 <= Most /\ EmaDen \in Nat
  BY TrustAssumption DEF Most
<1>3. /\ trust'[p] \in Entries
      /\ \A a \in Aspects : /\ EmaDen * (trust'[p][a] - trust[p][a]) <= Most
                            /\ EmaDen * (trust[p][a] - trust'[p][a]) <= Most
  <2>1. CASE trust'[p] = trust[p]
    <3>1. \A a \in Aspects : trust[p][a] \in Int
      BY <1>1 DEF Entries, Parts
    <3> QED
      BY <1>1, <1>2, <2>1, <3>1
  <2>2. CASE ObservePeer(r) /\ p = r
    <3>1. PICK o \in Observations :
            trust' = [q \in Known \cup {p} |->
                        IF q = p THEN Updated(Entry(p), o) ELSE trust[q]]
      BY <2>2 DEF ObservePeer
    <3>2. trust'[p] = Updated(trust[p], o) /\ o \in ObservationSpace
      BY <3>1, TrustAssumption DEF Entry
    <3> QED
      BY <1>1, <3>2, UpdatedGradual, UpdatedIsEntry
  <2>3. CASE ObservePeer(r) /\ p # r
    BY <2>1, <2>3 DEF ObservePeer
  <2>4. CASE Remove(r)
    BY <2>1, <2>4 DEF Remove, Known
  <2> QED
    BY <2>2, <2>3, <2>4
<1> QED
  BY <1>1, <1>2, <1>3, ScoreGradual

-----------------------------------------------------------------------------
(* The trust features *)

(* What FeaturesAgree asks of the features of one moment.                  *)
Agree(f) ==
  f.count > 0 =>
    /\ f.trusted = f.count <=> f.min >= TrustedThreshold
    /\ f.count * f.min <= f.sum
    /\ f.sum >= f.trusted * TrustedThreshold + (f.count - f.trusted) * f.min
    /\ f.trusted < f.count =>
         f.sum < f.trusted * TotalWeight * Unit
                   + (f.count - f.trusted) * TrustedThreshold

(* Whatever numbers from 0 to top are summed up.                           *)
LEMMA MeanLiesBetween ==
  ASSUME NEW K, IsFiniteSet(K), NEW s, NEW top \in Nat, \A p \in K : s[p] \in 0..top,
         NEW low \in Nat, \A p \in K : low <= s[p], NEW least \in K, s[least] = low,
         NEW threshold \in Nat,
         NEW T, T = {p \in K : s[p] >= threshold}
  PROVE  /\ Cardinality(K) \in Nat /\ Cardinality(T) \in Nat
         /\ Cardinality(T) = Cardinality(K) <=> low >= threshold
         /\ Cardinality(K) * low <= SumFunctionOnSet(s, K)
         /\ SumFunctionOnSet(s, K)
              >= Cardinality(T) * threshold + (Cardinality(K) - Cardinality(T)) * low
         /\ Cardinality(T) < Cardinality(K) =>
              SumFunctionOnSet(s, K)
                < Cardinality(T) * top + (Cardinality(K) - Cardinality(T)) * threshold
<1> DEFINE rest == Cardinality(K) - Cardinality(T)
<1>1. K \cap T = T /\ IsFiniteSet(T) /\ Cardinality(T) \in Nat /\ Cardinality(K) \in Nat
  <2>1. T \in SUBSET K
    OBVIOUS
  <2>2. IsFiniteSet(T)
    BY <2>1, FS_Subset
  <2> QED
    BY <2>1, <2>2, FS_CardinalityType
<1>2. Cardinality(K \ T) = rest
  <2>1. Cardinality(K \ T) = Cardinality(K) - Cardinality(K \cap T)
    BY FS_Difference
  <2> QED
    BY <1>1, <2>1, Zenon
<1>3. Cardinality(T) = Cardinality(K) <=> low >= threshold
  <2>1. ASSUME Cardinality(T) = Cardinality(K) PROVE low >= threshold
    <3>1. T = K
      BY <2>1, FS_Subset
    <3> QED
      BY <3>1
  <2>2. ASSUME low >= threshold PROVE Cardinality(T) = Cardinality(K)
    <3>1. T = K
      BY <2>2
    <3> QED
      BY <3>1
  <2> QED
    BY <2>1, <2>2
<1>4. Cardinality(K) * low <= SumFunctionOnSet(s, K)
  <2> DEFINE e == [p \in K |-> low]
  <2>1. \A p \in K : e[p] = IF p \in K THEN low ELSE 0
    OBVIOUS
  <2>2. \A p \in K : e[p] \in Int /\ s[p] \in Int /\ e[p] <= s[p]
    OBVIOUS
  <2> HIDE DEF e
  <2>3. SumFunctionOnSet(e, K) <= SumFunctionOnSet(s, K)
    BY <2>2, SumMonotone
  <2>4. SumFunctionOnSet(e, K) = Cardinality(K \cap K) * low + Cardinality(K \ K) * 0
    <3>1. IsFiniteSet(K) /\ low \in Int /\ top \in Int /\ threshold \in Int /\ 0 \in Int
      OBVIOUS
    <3>2. SumFunctionOnSet(e, K) = TwoValues(K, K, low, 0)
      BY <2>1, <3>1, SumOfTwo
    <3> QED
      BY <3>2 DEF TwoValues
  <2>5. K \cap K = K /\ K \ K = {} /\ Cardinality({}) = 0
    BY FS_EmptySet
  <2>6. SumFunctionOnSet(e, K) = Cardinality(K) * low + 0 * 0
    BY <2>4, <2>5
  <2>7. Cardinality(K) * low \in Int
    BY <1>1
  <2> QED
    BY <2>3, <2>6, <2>7
<1>5. SumFunctionOnSet(s, K) >= Cardinality(T) * threshold + rest * low
  <2> DEFINE e == [p \in K |-> IF p \in T THEN threshold ELSE low]
  <2>1. \A p \in K : e[p] = IF p \in T THEN threshold ELSE low
    OBVIOUS
  <2>2. \A p \in K : e[p] \in Int /\ s[p] \in Int /\ e[p] <= s[p]
    OBVIOUS
  <2> HIDE DEF e
  <2>3. SumFunctionOnSet(e, K) <= SumFunctionOnSet(s, K)
    BY <2>2, SumMonotone
  <2>4. SumFunctionOnSet(e, K) = Cardinality(K \cap T) * threshold + Cardinality(K \ T) * low
    <3>1. IsFiniteSet(K) /\ low \in Int /\ top \in Int /\ threshold \in Int /\ 0 \in Int
      OBVIOUS
    <3>2. SumFunctionOnSet(e, K) = TwoValues(K, T, threshold, low)
      BY <2>1, <3>1, SumOfTwo
    <3> QED
      BY <3>2 DEF TwoValues
  <2>5. SumFunctionOnSet(s, K) \in Int
    BY <2>2, SumInt
  <2> HIDE DEF rest
  <2>6. SumFunctionOnSet(e, K) = Cardinality(T) * threshold + rest * low
    BY <1>1, <1>2, <2>4
  <2>7. SumFunctionOnSet(e, K) \in Int
    BY <2>2, SumInt
  <2> QED
    BY <2>3, <2>5, <2>6, <2>7
<1>6. ASSUME Cardinality(T) < Cardinality(K)
      PROVE  SumFunctionOnSet(s, K) < Cardinality(T) * top + rest * threshold
  <2> DEFINE e == [p \in K |-> IF p \in T THEN top ELSE threshold]
  <2>1. \A p \in K : e[p] = IF p \in T THEN top ELSE threshold
    OBVIOUS
  <2>2. \A p \in K : e[p] \in Int /\ s[p] \in Int /\ s[p] <= e[p]
    OBVIOUS
  <2>3. PICK q \in K : q \notin T
    <3>1. T # K
      BY <1>1, <1>6
    <3> QED
      BY <1>1, <3>1
  <2>4. s[q] < e[q]
    BY <2>3
  <2> HIDE DEF e
  <2>5. SumFunctionOnSet(s, K) < SumFunctionOnSet(e, K)
    BY <2>2, <2>4, SumStrict
  <2>6. SumFunctionOnSet(e, K) = Cardinality(K \cap T) * top + Cardinality(K \ T) * threshold
    <3>1. IsFiniteSet(K) /\ low \in Int /\ top \in Int /\ threshold \in Int /\ 0 \in Int
      OBVIOUS
    <3>2. SumFunctionOnSet(e, K) = TwoValues(K, T, top, threshold)
      BY <2>1, <3>1, SumOfTwo
    <3> QED
      BY <3>2 DEF TwoValues
  <2> HIDE DEF rest
  <2>7. SumFunctionOnSet(e, K) = Cardinality(T) * top + rest * threshold
    BY <1>1, <1>2, <2>6
  <2> QED
    BY <2>5, <2>7
<1> QED
  BY <1>1, <1>3, <1>4, <1>5, <1>6

(* A score is between 0 and the sum of the weights.                        *)
LEMMA ScoreInBounds ==
  ASSUME NEW e \in Entries
  PROVE  Score(e) \in 0..TotalWeight * Unit /\ TotalWeight * Unit \in Nat
<1> DEFINE none == [a \in Aspects |-> 0]
           all == [a \in Aspects |-> Unit]
<1>1. none \in Entries /\ all \in Entries
  BY TrustAssumption DEF Entries, Parts
<1>2. \A a \in Aspects : none[a] <= e[a] /\ e[a] <= all[a]
  BY DEF Entries, Parts
<1>3. Score(none) = 0
  <2>1. \A a \in Aspects : none[a] = 0
    OBVIOUS
  <2>2. \A a \in Aspects : Weight[a] * 0 = 0
    BY WeightsNat
  <2> HIDE DEF none
  <2>3. \A a \in Aspects : Weight[a] * none[a] = 0
    BY <2>1, <2>2
  <2> QED
    BY <2>3 DEF Score, Aspects
<1>4. Score(all) = TotalWeight * Unit
  <2>1. \A u, v, w, x, y, z, n \in Nat :
          u * n + v * n + w * n + x * n + y * n + z * n = (u + v + w + x + y + z) * n
    OBVIOUS
  <2>2. \A a \in Aspects : all[a] = Unit
    OBVIOUS
  <2> HIDE DEF all
  <2> QED
    BY <2>1, <2>2, WeightsNat, TrustAssumption DEF Score, TotalWeight, Aspects
<1> HIDE DEF none, all
<1>5. Score(none) <= Score(e) /\ Score(e) <= Score(all) /\ Score(e) \in Int /\ Score(all) \in Int
  BY <1>1, <1>2, ScoreMonotone
<1> QED
  BY <1>3, <1>4, <1>5

(* The features of the known peers agree with each other.                  *)
LEMMA AggregateAgrees ==
  ASSUME TrustInv, IsFiniteSet(Known) PROVE Agree(Aggregate)
<1>1. CASE Known = {}
  BY <1>1 DEF Aggregate, Agree
<1>2. CASE Known # {}
  <2> DEFINE s == [p \in Known |-> ScoreOf(p)]
             top == TotalWeight * Unit
             scores == {ScoreOf(p) : p \in Known}
             low == Min(scores)
             T == {p \in Known : ScoreOf(p) >= TrustedThreshold}
  <2>1. top \in Nat /\ \A p \in Known : ScoreOf(p) \in 0..top
    <3>1. \A p \in Known : Entry(p) \in Entries
      BY EntryInEntries DEF TrustInv
    <3> QED
      BY <1>2, <3>1, ScoreInBounds DEF ScoreOf
  <2>2. low \in scores /\ \A n \in scores : low <= n
    <3>1. scores \subseteq Nat /\ scores # {}
      BY <1>2, <2>1
    <3> HIDE DEF scores
    <3>2. \E n \in scores : \A m \in scores : n <= m
      BY <3>1, LeastExists
    <3> QED
      BY <3>2 DEF Min
  <2>3. PICK least \in Known : ScoreOf(least) = low
    BY <2>2
  <2>4. low \in Nat /\ \A p \in Known : low <= ScoreOf(p)
    BY <2>1, <2>2, <2>3
  <2>5. \A p \in Known : s[p] = ScoreOf(p)
    OBVIOUS
  <2>6. T = {p \in Known : s[p] >= TrustedThreshold}
    BY <2>5
  <2> DEFINE n == Cardinality(Known)
             t == Cardinality(T)
             sum == SumFunctionOnSet(s, Known)
  <2>7. Aggregate = [count |-> n, sum |-> sum, min |-> low, trusted |-> t]
    BY <1>2 DEF Aggregate, SumFunction
  <2> HIDE DEF s, top, low, T, scores
  <2>8. /\ n \in Nat /\ t \in Nat
        /\ t = n <=> low >= TrustedThreshold
        /\ n * low <= sum
        /\ sum >= t * TrustedThreshold + (n - t) * low
        /\ t < n => sum < t * top + (n - t) * TrustedThreshold
    BY <2>1, <2>3, <2>4, <2>5, <2>6, MeanLiesBetween, ThresholdAssumption
  <2>9. t * top = t * TotalWeight * Unit
    <3>1. TotalWeight \in Nat /\ Unit \in Nat
      BY WeightsNat, TrustAssumption DEF TotalWeight, Aspects
    <3>2. \A x, y, z \in Nat : x * (y * z) = x * y * z
      OBVIOUS
    <3> HIDE DEF t
    <3> QED
      BY <2>8, <3>1, <3>2 DEF top
  <2> HIDE DEF n, t, sum
  <2> QED
    BY <2>7, <2>8, <2>9 DEF Agree
<1> QED
  BY <1>1, <1>2

-----------------------------------------------------------------------------
(* The refresh *)

(* Observations make finitely many peers known, and both the features of   *)
(* the refresh in progress and the stored ones are of one moment.          *)
FeaturesInv ==
  /\ IsFiniteSet(Known)
  /\ Agree(features)
  /\ Agree(store.features)

SensingInv == CollectorInv /\ TrustInv /\ FeaturesInv

(* No features are in agreement with any.                                  *)
LEMMA NoFeaturesAgree == Agree(NoFeatures)
BY DEF Agree, NoFeatures

(* One peer at a time becomes known.                                       *)
LEMMA KnownStaysFinite ==
  ASSUME IsFiniteSet(Known), TrustNext PROVE IsFiniteSet(Known')
<1>1. PICK p \in Peers : ObservePeer(p) \/ Remove(p)
  BY DEF TrustNext
<1>2. Known' = Known \cup {p} \/ Known' = Known \ {p}
  BY <1>1 DEF ObservePeer, Remove, Known
<1>3. IsFiniteSet(Known \cup {p}) /\ IsFiniteSet(Known \ {p})
  BY FS_AddElement, FS_RemoveElement
<1> QED
  BY <1>2, <1>3

(* Every step of either half keeps the invariant of both.                  *)
LEMMA StepKeeps ==
  ASSUME SensingInv, [Next]_vars
  PROVE  SensingInv'
<1> USE DEF SensingInv
<1>1. CASE (Around \/ CollectStep) /\ UNCHANGED <<trustVars, features, store>>
  <2>1. CollectorInv'
    BY <1>1, AroundKeeps, CollectKeeps
  <2>2. TrustInv' /\ FeaturesInv'
    BY <1>1 DEF trustVars, TrustInv, FeaturesInv, Known
  <2> QED
    BY <2>1, <2>2
<1>2. CASE TrustNext /\ UNCHANGED <<collector, features, store>>
  <2>1. CollectorInv'
    BY <1>2 DEF collector, CollectorInv, CollectorTypeOK, Pending, Gapless,
                LoadIsRecent
  <2>2. TrustInv'
    BY <1>2, ObserveKeeps, RemoveKeeps DEF TrustNext
  <2>3. FeaturesInv'
    BY <1>2, KnownStaysFinite DEF FeaturesInv
  <2> QED
    BY <2>1, <2>2, <2>3
<1>3. CASE ReadTrust
  <2>1. CollectorInv'
    BY <1>3 DEF ReadTrust, collector, CollectorInv, CollectorTypeOK, Pending,
                Gapless, LoadIsRecent
  <2>2. TrustInv' /\ Known' = Known
    BY <1>3 DEF ReadTrust, trustVars, TrustInv, Known
  <2>3. FeaturesInv'
    BY <1>3, <2>2, AggregateAgrees DEF ReadTrust, FeaturesInv
  <2> QED
    BY <2>1, <2>2, <2>3
<1>4. CASE StoreMetrics
  <2>1. TrustInv' /\ Known' = Known
    BY <1>4 DEF StoreMetrics, trustVars, TrustInv, Known
  <2>2. FeaturesInv'
    BY <1>4, <2>1, NoFeaturesAgree DEF StoreMetrics, FeaturesInv
  <2> QED
    BY <1>4, <2>1, <2>2, StoreKeeps
<1>5. CASE UNCHANGED vars
  <2>1. CollectorInv'
    BY <1>5 DEF vars, collector, CollectorInv, CollectorTypeOK, Pending,
                Gapless, LoadIsRecent
  <2>2. TrustInv' /\ FeaturesInv'
    BY <1>5 DEF vars, trustVars, TrustInv, FeaturesInv, Known
  <2> QED
    BY <2>1, <2>2
<1> QED
  BY <1>1, <1>2, <1>3, <1>4, <1>5 DEF Next

(* The invariants hold of every refresh, in any interleaving with traffic  *)
(* and observations.                                                       *)
THEOREM InductiveInvariant == Spec => []SensingInv
<1>1. Init => SensingInv
  <2> SUFFICES ASSUME Init PROVE SensingInv
    OBVIOUS
  <2>1. CollectorInv /\ TrustInv
    BY CollectorInitially, TrustInitially DEF Init
  <2>2. Known = {}
    BY DEF Init, TrustInit, Known
  <2>3. FeaturesInv
    BY <2>2, NoFeaturesAgree, FS_EmptySet DEF Init, FeaturesInv
  <2> QED
    BY <2>1, <2>3 DEF SensingInv
<1>2. SensingInv /\ [Next]_vars => SensingInv'
  BY StepKeeps
<1> QED
  BY <1>1, <1>2, PTL DEF Spec

(* The collector is type correct: no rate is negative, none counts more    *)
(* than there is to count (collector.go:81-145).                           *)
THEOREM CollectorTypeCorrect == Spec => []CollectorTypeOK
<1>1. SensingInv => CollectorTypeOK
  BY DEF SensingInv, CollectorInv
<1> QED
  BY <1>1, InductiveInvariant, PTL

(* Every average stays within [0, 1], of known peers only (trust.go:80).   *)
THEOREM TrustTypeCorrect == Spec => []TrustTypeOK
<1>1. SensingInv => TrustTypeOK
  BY DEF SensingInv, TrustInv, TrustTypeOK, Entries
<1> QED
  BY <1>1, InductiveInvariant, PTL

(* The rates never claim a message that was not counted, resets or not.    *)
THEOREM RatesNeverOvercount == Spec => []NeverOvercounts
<1>1. SensingInv => NeverOvercounts
  BY DEF SensingInv, CollectorInv, CollectorTypeOK, Pending, NeverOvercounts
<1> QED
  BY <1>1, InductiveInvariant, PTL

(* For any traffic, failures and number of samples the rates count no      *)
(* message twice, and undisturbed they tile the time and the messages      *)
(* between the first sample and the last.                                  *)
THEOREM RatesAlwaysTile == Spec => []RatesTile
<1>1. SensingInv => Gapless
  BY DEF SensingInv, CollectorInv
<1>2. SensingInv => NeverOvercounts
  BY DEF SensingInv, CollectorInv, CollectorTypeOK, Pending, NeverOvercounts
<1>3. SensingInv => RatesTile
  BY <1>1, <1>2 DEF RatesTile
<1> QED
  BY <1>3, InductiveInvariant, PTL

(* The processor load is from the interval of the rates it is returned     *)
(* with, whatever attempts failed before.                                  *)
THEOREM LoadAlwaysRecent == Spec => []LoadIsRecent
<1>1. SensingInv => LoadIsRecent
  BY DEF SensingInv, CollectorInv
<1> QED
  BY <1>1, InductiveInvariant, PTL

(* For any weights, any number of peers and observations, good conduct     *)
(* ranks no lower and bad conduct no higher than none.                     *)
THEOREM ConductAlwaysShows == Spec => []ConductShows
<1>1. SensingInv => ConductShows
  BY TrustInvShowsConduct DEF SensingInv
<1> QED
  BY <1>1, InductiveInvariant, PTL

(* In every reachable state a better observation leaves no less trust.     *)
THEOREM BetterConductNeverHurt == Spec => []BetterConductNeverHurts
<1>1. SensingInv => BetterConductNeverHurts
  BY TrustInvBetterConduct DEF SensingInv
<1> QED
  BY <1>1, InductiveInvariant, PTL

(* No observation moves a score by more than the newest sample weighs.     *)
THEOREM TrustIsGradual == Spec => GradualTrust
<1> DEFINE Gradual ==
      \A p \in Peers :
       p \in Known /\ p \in DOMAIN trust' =>
         LET before == Score(trust[p])
             after  == Score(trust'[p])
             most   == TotalWeight * (EmaNum * Unit + EmaDen)
         IN  EmaDen * (after - before) <= most /\ EmaDen * (before - after) <= most
<1>1. SensingInv /\ [Next]_vars => [Gradual]_trustVars
  <2> SUFFICES ASSUME SensingInv, [Next]_vars PROVE [Gradual]_trustVars
    OBVIOUS
  <2>1. CASE UNCHANGED trustVars
    BY <2>1
  <2>2. CASE TrustNext
    BY <2>2, StepGradual DEF TrustNext, SensingInv, Most
  <2>3. TrustNext \/ UNCHANGED trustVars
    BY DEF Next, ReadTrust, StoreMetrics, vars, trustVars
  <2> QED
    BY <2>1, <2>2, <2>3
<1> QED
  BY <1>1, InductiveInvariant, PTL DEF Spec, GradualTrust
(* The stored trust features describe one moment, whatever is observed     *)
(* while they are computed: minimum, mean and ratio of any finite number   *)
(* of peers bound each other (trust_features.go:18-42).                    *)
THEOREM FeaturesAlwaysAgree == Spec => []FeaturesAgree
<1>1. SensingInv => FeaturesAgree
  BY DEF SensingInv, FeaturesInv, Agree, FeaturesAgree
<1> QED
  BY <1>1, InductiveInvariant, PTL

=============================================================================
