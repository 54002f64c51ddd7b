------------------------------ MODULE PeerTrust -----------------------------
(***************************************************************************)
(* PeerTrustManager (trust.go): per peer six exponential averages of what  *)
(* the node observes of it, a score that weighs them, and the ranking      *)
(* RankPeers makes of the scores (peer_selection.go).                      *)
(*                                                                         *)
(* Evidence is counted in Unit parts of 1.0 and a blend is rounded down to *)
(* them, where the code has floats.  A score is not divided by the sum of  *)
(* the weights.  What loss and latency make of the link quality is given.  *)
(* Every operation is one critical section of PeerTrustManager.mu.         *)
(***************************************************************************)
EXTENDS Integers

CONSTANTS
  Peers,
  Observations,             \* what may be observed of a peer
  Absent,                   \* the peer score 0.0, taken for "not given"
  Unit,                     \* 1.0
  EmaNum, EmaDen,           \* TrustEMAAlpha = EmaNum / EmaDen
  Weight,                   \* TrustWeights as normalize leaves them
  GossipWeight, TrustWeight,   \* PeerScoreWeight and TrustScoreWeight
  MaxObservations           \* bound: observations explored

Aspects == {"reliability", "forwarding", "stability", "peerScore",
            "linkQuality", "misbehavior"}
Parts  == 0..Unit
Neutral == Unit \div 2

ObservationSpace ==
  [delivered : BOOLEAN, received : BOOLEAN, forwarded : BOOLEAN,
   connected : BOOLEAN, duplicate : BOOLEAN, invalid : BOOLEAN,
   link : Parts, score : Parts \cup {Absent}]

ASSUME TrustAssumption ==
  /\ Unit \in Nat /\ Unit > 0 /\ Unit % 20 = 0
  /\ EmaNum \in Nat /\ EmaDen \in Nat /\ 0 < EmaNum /\ EmaNum <= EmaDen
  /\ Weight \in [Aspects -> Nat]
  /\ Observations \subseteq ObservationSpace /\ Absent \notin Parts
  /\ GossipWeight \in Nat /\ TrustWeight \in Nat
  /\ MaxObservations \in Nat

VARIABLES
  trust,      \* PeerTrustManager.peers: the averages of the known peers
  conduct,    \* how each peer has behaved since it is known
  observed    \* number of observations so far

trustVars == <<trust, conduct, observed>>

Conducts == {"unknown", "good", "bad", "mixed"}

TrustTypeOK ==
  /\ \E known \in SUBSET Peers : trust \in [known -> [Aspects -> Parts]]
  /\ conduct \in [Peers -> Conducts]
  /\ observed \in 0..MaxObservations

TrustInit ==
  /\ trust = [p \in {} |-> 0]
  /\ conduct = [p \in Peers |-> "unknown"]
  /\ observed = 0

-----------------------------------------------------------------------------
(* The evidence an observation gives: more is better for every aspect,     *)
(* misbehavior included.                                                   *)

Evidence(o) ==
  [reliability |-> IF o.delivered THEN Unit
                   ELSE IF o.received THEN (Unit \div 4) * 3 ELSE 0,
   forwarding  |-> IF o.forwarded THEN Unit ELSE 0,
   stability   |-> IF o.connected THEN Unit ELSE 0,
   peerScore   |-> o.score,
   linkQuality |-> o.link,
   misbehavior |-> Unit - (IF o.invalid THEN (Unit \div 4) * 3 ELSE 0)
                        - (IF o.duplicate THEN Unit \div 10 ELSE 0)]

(* The closure "update".                                                   *)
Blend(previous, value) ==
  (EmaNum * value + (EmaDen - EmaNum) * previous) \div EmaDen

(* The aspects an observation says something about: a peer score that is   *)
(* exactly zero counts as not given.                                       *)
Given(o) == IF o.score = Absent THEN Aspects \ {"peerScore"} ELSE Aspects

(* One observation: each average moves towards its evidence.               *)
Updated(entry, o) ==
  [a \in Aspects |-> IF a \in Given(o) THEN Blend(entry[a], Evidence(o)[a])
                     ELSE entry[a]]

Score(entry) ==
    Weight["reliability"] * entry["reliability"]
  + Weight["forwarding"]  * entry["forwarding"]
  + Weight["stability"]   * entry["stability"]
  + Weight["peerScore"]   * entry["peerScore"]
  + Weight["linkQuality"] * entry["linkQuality"]
  + Weight["misbehavior"] * entry["misbehavior"]

Newcomer == [a \in Aspects |-> Neutral]

Known == DOMAIN trust
Entry(p) == IF p \in Known THEN trust[p] ELSE Newcomer

(* Score: the neutral one for a peer that was never observed.              *)
ScoreOf(p) == Score(Entry(p))

-----------------------------------------------------------------------------
(* What the observer would call good and bad conduct, in terms of what it  *)
(* saw and not of the evidence it is turned into.                          *)
Good(o) ==
  /\ o.delivered \/ o.received
  /\ o.forwarded /\ o.connected /\ ~o.invalid
  /\ o.link >= Neutral
  /\ o.score # Absent => o.score >= Neutral

Bad(o) ==
  /\ ~o.delivered /\ ~o.received /\ ~o.forwarded /\ ~o.connected /\ o.invalid
  /\ o.link <= Neutral
  /\ o.score # Absent => o.score <= Neutral

Kind(o) == IF Good(o) THEN "good" ELSE IF Bad(o) THEN "bad" ELSE "mixed"

(* Observe.                                                                *)
ObservePeer(p) ==
  /\ observed < MaxObservations
  /\ observed' = observed + 1
  /\ \E o \in Observations :
       /\ trust' = [q \in Known \cup {p} |->
                      IF q = p THEN Updated(Entry(p), o) ELSE trust[q]]
       /\ conduct' = [conduct EXCEPT ![p] =
                        IF conduct[p] \in {"unknown", Kind(o)} THEN Kind(o)
                        ELSE "mixed"]

(* Remove: the peer is unknown again.                                      *)
Remove(p) ==
  /\ p \in Known
  /\ trust' = [q \in Known \ {p} |-> trust[q]]
  /\ conduct' = [conduct EXCEPT ![p] = "unknown"]
  /\ UNCHANGED observed

TrustNext == \E p \in Peers : ObservePeer(p) \/ Remove(p)

-----------------------------------------------------------------------------
\* Mutant: an unknown peer is trusted without reserve.
TrustForRankingFull(p) ==
  Score(IF p \in Known THEN trust[p] ELSE [a \in Aspects |-> Unit])

(* RankPeers takes one half for a peer without a score.                    *)
TrustForRanking(p) == Score(IF p \in Known THEN trust[p] ELSE Newcomer)

TotalWeight ==
  Weight["reliability"] + Weight["forwarding"] + Weight["stability"]
  + Weight["peerScore"] + Weight["linkQuality"] + Weight["misbehavior"]

(* CombinedPeerQuality, for a gossip score in Unit parts.                  *)
Quality(p, gossip) ==
  GossipWeight * TotalWeight * gossip + TrustWeight * TrustForRanking(p)

(* RankPeers puts p before q whatever their order in its input.            *)
RanksBefore(p, gossipP, q, gossipQ) == Quality(p, gossipP) > Quality(q, gossipQ)

-----------------------------------------------------------------------------
(* Of p better things were observed than of q.                             *)
Behaved(p, q) ==
  \/ conduct[p] = "good" /\ conduct[q] \in {"unknown", "bad"}
  \/ conduct[p] = "unknown" /\ conduct[q] = "bad"

(* Conduct shows in the ranking: a peer of which only good was ever        *)
(* observed is never ranked behind an unknown one, nor an unknown one      *)
(* behind a peer of which only bad was observed, after any number of       *)
(* observations (peer_selection.go:16-29, trust.go:86-100).                *)
ConductShows ==
  \A p, q \in Peers : \A g \in {0, Unit} :
    Behaved(p, q) => ~RanksBefore(q, g, p, g)

(* o is no worse than w in every respect, and gives a peer score if w does. *)
NoWorse(o, w) ==
  /\ w.delivered => o.delivered
  /\ w.received => o.received \/ o.delivered
  /\ w.forwarded => o.forwarded
  /\ w.connected => o.connected
  /\ o.duplicate => w.duplicate
  /\ o.invalid => w.invalid
  /\ w.link <= o.link
  /\ o.score = Absent <=> w.score = Absent
  /\ o.score # Absent => w.score <= o.score

NoWorsePairs ==
  {pair \in Observations \X Observations : NoWorse(pair[1], pair[2])}

(* Better conduct never hurts: in whatever state a peer is, of two         *)
(* observations that differ only in that one is better, the better one     *)
(* leaves it with no less trust (trust.go:101-128).                        *)
BetterConductNeverHurts ==
  \A p \in Peers : \A pair \in NoWorsePairs :
    Score(Updated(Entry(p), pair[2])) <= Score(Updated(Entry(p), pair[1]))

(* Trust is gained and lost gradually: one observation moves the score of  *)
(* a peer by no more than the weight of the newest sample (and the         *)
(* rounding of the model), whatever it says                                *)
(* ("bounded, incrementally updated trust state", trust.go:64).            *)
GradualTrust ==
  [][\A p \in Peers :
       p \in Known /\ p \in DOMAIN trust' =>
         LET before == Score(trust[p])
             after  == Score(trust'[p])
             most   == TotalWeight * (EmaNum * Unit + EmaDen)
         IN  EmaDen * (after - before) <= most /\ EmaDen * (before - after) <= most
    ]_trustVars
=============================================================================
