---------------------------- MODULE FederatedRound --------------------------
(***************************************************************************)
(* The in-process federated coordinator (coordinator.go) with the windows  *)
(* of training samples it feeds (dataset.go), the trainers it drives       *)
(* (trainer.go, learning.go) and the weights of the aggregation            *)
(* (aggregation.go).                                                       *)
(*                                                                         *)
(* RunRound holds the coordinator's mutex throughout; a step of it is one  *)
(* participant's turn.  A model is known by the round whose global model   *)
(* it started from and by whether it has been trained since; a sample by   *)
(* its number.                                                             *)
(***************************************************************************)
EXTENDS Naturals, Sequences

CONSTANTS
  Participants,
  Incompatible,    \* those whose trainer cannot import the global model
  BadResource,     \* ResourceWeight is NaN or outside of [0, 1]
  Garbled,         \* their models carry connectivity metadata that is NaN
  Resource,        \* ResourceWeight of the others, in tenths
  Trust,           \* TrustScore, in tenths, or Unknown without TrustKnown
  Connectivity,    \* ConnectivityScore of their models, in tenths
  Unknown,
  Own,             \* the weights a trainer is created with
  Limit,           \* DatasetWindow.limit
  Cap,             \* the sample count above which trust weighting is flat
  MaxSamples, MaxRounds     \* bounds: samples, committed rounds

ASSUME SetsAssumption ==
  Incompatible \cup BadResource \cup Garbled \subseteq Participants
ASSUME WeightsAssumption ==
  /\ Unknown \notin Nat
  /\ Resource \in [Participants -> 0..10]
  /\ Trust \in [Participants -> 0..10 \cup {Unknown}]
  /\ Connectivity \in [Participants -> 0..10]
ASSUME BoundsAssumption ==
  /\ {Limit, Cap} \subseteq Nat \ {0}
  /\ {MaxSamples, MaxRounds} \subseteq Nat
  /\ Own \notin Nat

VARIABLES
  peers,      \* the registered participants
  network,    \* the model each trainer holds
  window,     \* the DatasetWindow of each participant
  latest,     \* the last sample each participant was given, 0 for none
  round,      \* FederatedCoordinator.round; it identifies the global model
  call,       \* the RunRound in progress
  outcome,    \* what the last RunRound returned
  samples     \* number of samples so far

vars == <<peers, network, window, latest, round, call, outcome, samples>>

Methods == {"fedavg", "energy", "trust"}
Models  == [from : 0..MaxRounds \cup {Own}, trained : BOOLEAN]

\* left: whose turn is still to come; update: the contributions so far, each
\* with the model it was trained from and the samples it was trained on.
NoCall == [at |-> "idle", method |-> "fedavg", left |-> {}, update |-> <<>>]
Idle == call.at = "idle"

CallOK ==
  /\ call = [at |-> call.at, method |-> call.method, left |-> call.left,
             update |-> call.update]
  /\ call.at \in {"idle", "collecting"} /\ call.method \in Methods
  /\ call.left \subseteq peers
  /\ DOMAIN call.update \subseteq peers \ call.left
  /\ call.update \in [DOMAIN call.update ->
        [from : 0..MaxRounds \cup {Own}, seen : Seq(1..MaxSamples)]]

TypeOK ==
  /\ peers \subseteq Participants
  /\ network \in [Participants -> Models]
  /\ window \in [Participants -> Seq(1..MaxSamples)]
  /\ \A p \in Participants : Len(window[p]) <= Limit
  /\ latest \in [Participants -> 0..MaxSamples]
  /\ round \in 0..MaxRounds
  /\ CallOK
  /\ outcome \in {"none", "committed", "failed"}
  /\ samples \in 0..MaxSamples

Init ==
  /\ peers = {}
  /\ network = [p \in Participants |-> [from |-> Own, trained |-> FALSE]]
  /\ window = [p \in Participants |-> <<>>]
  /\ latest = [p \in Participants |-> 0]
  /\ round = 0
  /\ call = NoCall
  /\ outcome = "none"
  /\ samples = 0

-----------------------------------------------------------------------------
(* Samples *)

(* DatasetWindow.Append: the newest samples stay.                          *)
Remember(w, s) ==
  LET all == Append(w, s)
  IN  IF Len(all) > Limit THEN SubSeq(all, Len(all) - Limit + 1, Len(all))
      ELSE all

(* AppendTrainingSample gives a new observation to all registered          *)
(* participants, AppendParticipantTrainingSample to one of them; a name    *)
(* nobody has registered changes nothing.                                  *)
Observe(ps) ==
  /\ Idle
  /\ samples < MaxSamples
  /\ samples' = samples + 1
  /\ window' = [p \in Participants |->
                  IF p \in ps THEN Remember(window[p], samples + 1) ELSE window[p]]
  /\ latest' = [p \in Participants |-> IF p \in ps THEN samples + 1 ELSE latest[p]]
  /\ UNCHANGED <<peers, network, round, call, outcome>>

Least(a, b) == IF a < b THEN a ELSE b

(* What is left in a new window of n new samples.                          *)
Seeded(n) ==
  LET kept == Least(n, Limit)
  IN  [i \in 1..kept |-> samples + n - kept + i]

(* Register.  A participant with the name of a registered one replaces it, *)
(* with a trainer and a window of its own; the window has been filled by   *)
(* the caller, is seeded from the participant's Dataset, or is empty.      *)
Register(p) ==
  /\ Idle
  /\ peers' = peers \cup {p}
  /\ network' = [network EXCEPT ![p] = [from |-> Own, trained |-> FALSE]]
  /\ \E n \in 0..MaxSamples - samples :
       /\ window' = [window EXCEPT ![p] = Seeded(n)]
       /\ latest' = [latest EXCEPT ![p] = IF n = 0 THEN 0 ELSE samples + n]
       /\ samples' = samples + n
  /\ UNCHANGED <<round, call, outcome>>

-----------------------------------------------------------------------------
(* The weights of a contribution of n samples.  Those of the aggregator,   *)
(* and those the coordinator computes again for EffectiveWeights, are      *)
(* written down in two places of the code and are so here; both are scaled *)
(* to whole numbers.                                                       *)

(* The zero value of ResourceWeight means that nothing is known.           *)
Availability(p) == IF Resource[p] = 0 THEN 10 ELSE Resource[p]

(* The trust score handed to the aggregator: neutral if none is known.     *)
KnownTrust(p) == IF Trust[p] = Unknown THEN 5 ELSE Trust[p]

(* trustWeight, in tenths: always 1.                                       *)
TrustWeight == 10

\* Mutant: the sample count is not capped.
MergeWeightUncapped(method, p, n) ==
  CASE method = "fedavg" -> n
    [] method = "energy" -> n * Availability(p) * Connectivity[p]
    [] method = "trust"  ->
         n * (100 + 9 * (50 + TrustWeight * (KnownTrust(p) - 5))) * Connectivity[p]

(* FedAvg, EnergyWeightedFedAvg, TrustWeightedFedAvg.                      *)
MergeWeight(method, p, n) ==
  CASE method = "fedavg" -> n
    [] method = "energy" -> n * Availability(p) * Connectivity[p]
    [] method = "trust"  ->
         Least(n, Cap) * (100 + 9 * (50 + TrustWeight * (KnownTrust(p) - 5)))
           * Connectivity[p]

(* The loop over the contributions at the end of RunRound.                 *)
ReportedWeight(method, p, n) ==
  CASE method = "fedavg" -> n
    [] method = "energy" -> n * Availability(p) * Connectivity[p]
    [] method = "trust"  ->
         Least(n, Cap) * (100 + 90 * (IF Trust[p] # Unknown THEN KnownTrust(p) ELSE 5))
           * Connectivity[p]

-----------------------------------------------------------------------------
(* RunRound *)

Begin(method) ==
  /\ Idle
  /\ round < MaxRounds
  /\ call' = [at |-> "collecting", method |-> method, left |-> peers,
              update |-> <<>>]
  /\ UNCHANGED <<peers, network, window, latest, round, outcome, samples>>

(* A participant whose resource weight is invalid, or whose trainer cannot *)
(* import the global model, is passed over.                                *)
PassOver(p) ==
  /\ p \in call.left
  /\ p \in BadResource \cup Incompatible
  /\ call' = [call EXCEPT !.left = @ \ {p}]
  /\ UNCHANGED <<peers, network, window, latest, round, outcome, samples>>

(* The trainer has imported the global model; then training fails, at once *)
(* on an empty window and else with or without having changed the weights, *)
(* or the model it exports is refused.                                     *)
Reject(p) ==
  /\ p \in call.left \ (BadResource \cup Incompatible)
  /\ \E trained \in {t \in BOOLEAN : t => window[p] # <<>>} :
       network' = [network EXCEPT ![p] = [from |-> round, trained |-> trained]]
  /\ call' = [call EXCEPT !.left = @ \ {p}]
  /\ UNCHANGED <<peers, window, latest, round, outcome, samples>>

Contribution(p, model) ==
  [call EXCEPT !.left = @ \ {p},
               !.update = [q \in DOMAIN @ \cup {p} |->
                             IF q = p THEN [from |-> model.from, seen |-> window[p]]
                             ELSE @[q]]]

\* Mutant: the trainer goes on with the weights it has.
ContributeLocal(p) ==
  /\ p \in call.left \ (BadResource \cup Incompatible)
  /\ window[p] # <<>>
  /\ LET model == [network[p] EXCEPT !.trained = TRUE]
     IN  /\ network' = [network EXCEPT ![p] = model]
         /\ call' = Contribution(p, model)
  /\ UNCHANGED <<peers, window, latest, round, outcome, samples>>

(* Import, train on the whole window, export, accept.                      *)
Contribute(p) ==
  /\ p \in call.left \ (BadResource \cup Incompatible)
  /\ window[p] # <<>>
  /\ LET model == [from |-> round, trained |-> TRUE]
     IN  /\ network' = [network EXCEPT ![p] = model]
         /\ call' = Contribution(p, model)
  /\ UNCHANGED <<peers, window, latest, round, outcome, samples>>

Contributors == DOMAIN call.update
Collected == call.at = "collecting" /\ call.left = {}

(* No contribution, an error of the aggregator, or a merged model that     *)
(* fails its validation: the global model stays, and so do the weights the *)
(* trainers hold by now.                                                   *)
Fail ==
  /\ Collected
  /\ call' = NoCall
  /\ outcome' = "failed"
  /\ UNCHANGED <<peers, network, window, latest, round, samples>>

(* What the aggregator needs: a contribution, sound metadata on all of     *)
(* them, and a total weight above zero.                                    *)
Mergeable ==
  /\ Contributors \cap Garbled = {}
  /\ \E p \in Contributors :
       MergeWeight(call.method, p, Len(call.update[p].seen)) > 0

\* Mutant: only the contributors are given the new global model.
CommitToContributors ==
  /\ Collected
  /\ Mergeable
  /\ round' = round + 1
  /\ network' = [p \in Participants |->
                   IF p \in Contributors
                   THEN [from |-> round + 1, trained |-> FALSE] ELSE network[p]]
  /\ call' = NoCall
  /\ outcome' = "committed"
  /\ UNCHANGED <<peers, window, latest, samples>>

(* The merged model becomes the global one and every trainer is asked to   *)
(* import it; an error of one that cannot is ignored.                      *)
Commit ==
  /\ Collected
  /\ Mergeable
  /\ round' = round + 1
  /\ network' = [p \in Participants |->
                   IF p \in peers \ Incompatible
                   THEN [from |-> round + 1, trained |-> FALSE] ELSE network[p]]
  /\ call' = NoCall
  /\ outcome' = "committed"
  /\ UNCHANGED <<peers, window, latest, samples>>

-----------------------------------------------------------------------------
Turn(p) == PassOver(p) \/ Reject(p) \/ Contribute(p)

Next ==
  \/ \E p \in Participants : Register(p) \/ Turn(p)
  \/ Observe(peers)
  \/ \E p \in peers : Observe({p})
  \/ \E method \in Methods : Begin(method)
  \/ Fail \/ Commit

Spec == Init /\ [][Next]_vars

-----------------------------------------------------------------------------
(* Every contribution a round merges was trained from the global model of  *)
(* that very round and on all that its participant's window holds, the     *)
(* newest sample included (coordinator.go:160-169): neither the weights a  *)
(* failed round has left in a trainer nor a sample that arrives meanwhile  *)
(* gets in.                                                                *)
UpdatesAreFresh ==
  \A p \in Contributors :
    LET u == call.update[p]
    IN  /\ u.from = round
        /\ u.seen = window[p] /\ u.seen # <<>> /\ u.seen[Len(u.seen)] = latest[p]

(* No registered participant is left behind on the global model of an      *)
(* earlier round, though it may have been rejected in every round since    *)
(* (coordinator.go:221-223): its trainer holds its own first weights, or   *)
(* something based on the current global model.                            *)
NobodyStale == \A p \in peers : network[p].from \in {Own, round}

(* Between rounds a trainer holds locally trained weights only after a     *)
(* round that failed: nodes "install the aggregated global model"          *)
(* (README.md:213).                                                        *)
LeftoversMeanFailure ==
  Idle /\ (\E p \in peers : network[p].trained) => outcome = "failed"

(* The influence RunRound reports for a contributor is the one that the    *)
(* aggregation has given to it (coordinator.go:227-248, aggregation.go).   *)
WeightsAgree ==
  Collected => \A p \in Contributors :
    LET n == Len(call.update[p].seen)
    IN  MergeWeight(call.method, p, n) = ReportedWeight(call.method, p, n)
=============================================================================
