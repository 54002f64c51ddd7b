------------------------------- MODULE Sensing ------------------------------
(***************************************************************************)
(* Optimizer.RefreshMetrics (optimizer.go): Collect, then four features of *)
(* the trust in the known peers, then the store the predictors read from,  *)
(* while other goroutines report observations of peers.  The caller is the *)
(* metrics loop, one tick at a time (Heartbeat!TickExclusion).             *)
(***************************************************************************)
EXTENDS MetricsCollector, PeerTrust, FiniteSetsExt

CONSTANTS
  TrustedThreshold,   \* TrustedPeerThreshold, in units of a score
  MaxEvents           \* bound: clock readings, messages and observations together

ASSUME ThresholdAssumption == TrustedThreshold \in Nat /\ MaxEvents \in Nat

VARIABLES
  features,    \* the trust features the refresh in progress has computed
  store        \* SnapshotStore.metrics: timestamp and trust features

vars == <<collector, trustVars, features, store>>

NoFeatures == [count |-> 0, sum |-> 0, min |-> 0, trusted |-> 0]

Init ==
  /\ CollectorInit
  /\ TrustInit
  /\ features = NoFeatures
  /\ store = [time |-> 0, features |-> NoFeatures]

(* AggregateTrustFeatures: mean (as a sum), minimum and ratio (as a count  *)
(* of peers) over the known peers; the variance is left out.  Without      *)
(* peers the mean and the minimum are the neutral score.                   *)
Aggregate ==
  IF Known = {}
  THEN [count |-> 0, sum |-> Score(Newcomer), min |-> Score(Newcomer), trusted |-> 0]
  ELSE [count   |-> Cardinality(Known),
        sum     |-> SumFunction([p \in Known |-> ScoreOf(p)]),
        min     |-> Min({ScoreOf(p) : p \in Known}),
        trusted |-> Cardinality({p \in Known : ScoreOf(p) >= TrustedThreshold})]

(* The second half of RefreshMetrics: AllScores copies the scores under    *)
(* the lock, and the features are computed from the copy ...               *)
ReadTrust ==
  /\ collect.stage = "collected"
  /\ features = NoFeatures
  /\ features' = Aggregate
  /\ UNCHANGED <<collector, trustVars, store>>

\* Mutant: the ratio is taken from the live scores when the metrics are stored.
StoreMetricsTorn ==
  /\ collect.stage = "collected"
  /\ features # NoFeatures
  /\ store' = [time |-> last.time,
               features |-> [features EXCEPT !.trusted = Aggregate.trusted]]
  /\ features' = NoFeatures
  /\ Stage("idle")
  /\ UNCHANGED <<clock, counter, last, cpu, rate, history, trustVars>>

(* ... and stored together with the metrics.                               *)
StoreMetrics ==
  /\ collect.stage = "collected"
  /\ features # NoFeatures
  /\ store' = [time |-> last.time, features |-> features]
  /\ features' = NoFeatures
  /\ Stage("idle")
  /\ UNCHANGED <<clock, counter, last, cpu, rate, history, trustVars>>

Next ==
  /\ \/ (Around \/ CollectStep) /\ UNCHANGED <<trustVars, features, store>>
     \/ TrustNext /\ UNCHANGED <<collector, features, store>>
     \/ ReadTrust
     \/ StoreMetrics
  /\ clock' + history'.traffic + observed' <= MaxEvents

Spec == Init /\ [][Next]_vars

-----------------------------------------------------------------------------
(* The stored trust features describe one moment, however many             *)
(* observations arrive during the refresh: all peers are trusted exactly   *)
(* if the least trusted one is, none exactly if ..., and the mean lies     *)
(* where minimum and ratio say (trust_features.go:18-42).                  *)
FeaturesAgree ==
  LET f == store.features
  IN  f.count > 0 =>
        /\ f.trusted = f.count <=> f.min >= TrustedThreshold
        /\ f.count * f.min <= f.sum
        /\ f.sum >= f.trusted * TrustedThreshold + (f.count - f.trusted) * f.min
        /\ f.trusted < f.count =>
             f.sum < f.trusted * TotalWeight * Unit
                       + (f.count - f.trusted) * TrustedThreshold
=============================================================================
