------------------------ MODULE FederatedRoundProofs ------------------------
(***************************************************************************)
(* Proofs about FederatedRound, for any participants, weights, windows and *)
(* number of rounds: what a round merges is fresh, nobody keeps a model    *)
(* based on an old round, and the reported weights are the merged ones.    *)
(***************************************************************************)
EXTENDS FederatedRound, SequenceTheorems, TLAPS

(* The last sample of a window is the last one its participant was given.  *)
NewestLast ==
  \A p \in Participants :
    window[p] # <<>> => window[p][Len(window[p])] = latest[p]

(* A trainer that cannot import a global model keeps its first weights.    *)
Strangers ==
  \A p \in Incompatible : network[p] = [from |-> Own, trained |-> FALSE]

NothingCollected == Idle => call = NoCall

(* A round is only begun below the bound, so that it may be counted.       *)
RoundsLeft == ~Idle => round < MaxRounds

(* The inductive invariant.                                                *)
IInv ==
  /\ TypeOK
  /\ UpdatesAreFresh
  /\ NobodyStale
  /\ LeftoversMeanFailure
  /\ NewestLast
  /\ Strangers
  /\ NothingCollected
  /\ RoundsLeft

-----------------------------------------------------------------------------
(* What a window holds after one more sample.                              *)
LEMMA RememberFacts ==
  ASSUME NEW w \in Seq(1..MaxSamples), Len(w) <= Limit, NEW s \in 1..MaxSamples
  PROVE  /\ Remember(w, s) \in Seq(1..MaxSamples)
         /\ Len(Remember(w, s)) <= Limit
         /\ Remember(w, s) # <<>>
         /\ Remember(w, s)[Len(Remember(w, s))] = s
<1> DEFINE all == Append(w, s)
<1>1. /\ all \in Seq(1..MaxSamples) /\ Len(all) = Len(w) + 1
      /\ all[Len(w) + 1] = s /\ Len(w) \in Nat
  BY AppendProperties, LenProperties
<1>2. Limit \in Nat /\ Limit >= 1
  BY BoundsAssumption
<1>3. CASE Len(all) > Limit
  <2> DEFINE kept == SubSeq(all, Len(all) - Limit + 1, Len(all))
  <2>1. Remember(w, s) = kept
    BY <1>3 DEF Remember
  <2>2. Len(all) = Limit + 1 /\ Len(all) - Limit + 1 = 2
    BY <1>1, <1>2, <1>3
  <2>3. kept = SubSeq(all, 2, Limit + 1)
    BY <2>2
  <2>4. ASSUME NEW i \in 2..Limit + 1
        PROVE  all[i] \in 1..MaxSamples
    <3>1. all \in Seq(1..MaxSamples) /\ i \in 1..Len(all)
      BY <1>1, <1>2, <2>2
    <3> HIDE DEF all
    <3> QED
      BY <3>1, ElementOfSeq
  <2>5. /\ kept \in Seq(1..MaxSamples) /\ Len(kept) = Limit
        /\ kept[Limit] = all[Limit + 1]
    BY <1>1, <1>2, <2>2, <2>3, <2>4, SubSeqProperties
  <2> HIDE DEF kept
  <2>6. kept[Limit] = s
    BY <2>5, <2>2, <1>1
  <2>7. kept # <<>>
    BY <2>5, <1>2
  <2> QED
    BY <2>1, <2>5, <2>6, <2>7, <1>2
<1>4. CASE ~(Len(all) > Limit)
  <2>1. Remember(w, s) = all
    BY <1>4 DEF Remember
  <2>2. all # <<>>
    BY <1>1
  <2> HIDE DEF all
  <2> QED
    BY <1>1, <1>2, <1>4, <2>1, <2>2
<1> QED
  BY <1>3, <1>4

(* The fields of a call that is not under way.                             *)
LEMMA NoCallFacts ==
  /\ NoCall.at = "idle" /\ NoCall.left = {} /\ NoCall.method = "fedavg"
  /\ NoCall.update = <<>> /\ DOMAIN NoCall.update = {}
  /\ NoCall = [at |-> NoCall.at, method |-> NoCall.method, left |-> NoCall.left,
               update |-> NoCall.update]
BY DEF NoCall

(* Nothing is collected between rounds, so the call is well formed and     *)
(* fresh whatever the other variables are.                                 *)
LEMMA NoCallIsFresh ==
  ASSUME call = NoCall
  PROVE  CallOK /\ UpdatesAreFresh
BY NoCallFacts DEF CallOK, UpdatesAreFresh, Contributors, Methods

(* The invariant holds before the first peer registers.                    *)
LEMMA InitIInv == Init => IInv
<1> SUFFICES ASSUME Init PROVE IInv
  OBVIOUS
<1>1. CallOK /\ UpdatesAreFresh
  BY NoCallIsFresh DEF Init
<1>2. TypeOK
  BY <1>1, BoundsAssumption DEF Init, TypeOK, Models
<1>3. NobodyStale /\ LeftoversMeanFailure
  BY DEF Init, NobodyStale, LeftoversMeanFailure
<1>4. NewestLast /\ Strangers /\ NothingCollected /\ RoundsLeft
  BY SetsAssumption, NoCallFacts
  DEF Init, NewestLast, Strangers, NothingCollected, RoundsLeft, Idle
<1> QED
  BY <1>1, <1>2, <1>3, <1>4 DEF IInv

-----------------------------------------------------------------------------
(* Samples and participants: nothing is collected, and the windows change. *)
LEMMA ObserveKeepsIInv ==
  ASSUME IInv, NEW ps \in SUBSET peers, Observe(ps)
  PROVE  IInv'
<1> USE DEF IInv
<1>1. call = NoCall /\ call' = NoCall
  BY DEF Observe, NothingCollected
<1>2. CallOK' /\ UpdatesAreFresh'
  BY <1>1, NoCallFacts DEF CallOK, UpdatesAreFresh, Contributors, Methods
<1>3. samples + 1 \in 1..MaxSamples
  BY BoundsAssumption DEF Observe, TypeOK
<1>4. ASSUME NEW p \in Participants
      PROVE  /\ window'[p] \in Seq(1..MaxSamples) /\ Len(window'[p]) <= Limit
             /\ window'[p] # <<>> => window'[p][Len(window'[p])] = latest'[p]
  <2>1. CASE p \in ps
    <3>1. window'[p] = Remember(window[p], samples + 1) /\ latest'[p] = samples + 1
      BY <2>1 DEF Observe
    <3> QED
      BY <1>3, <3>1, RememberFacts DEF TypeOK
  <2>2. CASE p \notin ps
    <3>1. window'[p] = window[p] /\ latest'[p] = latest[p]
      BY <2>2 DEF Observe
    <3> QED
      BY <3>1 DEF TypeOK, NewestLast
  <2> QED
    BY <2>1, <2>2
<1>5. /\ window' \in [Participants -> Seq(1..MaxSamples)]
      /\ latest' \in [Participants -> 0..MaxSamples]
  <2>1. /\ window' = [p \in Participants |-> window'[p]]
        /\ latest' = [p \in Participants |->
                        IF p \in ps THEN samples + 1 ELSE latest[p]]
    BY DEF Observe
  <2>2. window' \in [Participants -> Seq(1..MaxSamples)]
    BY <1>4, <2>1
  <2>3. latest' \in [Participants -> 0..MaxSamples]
    BY <1>3, <2>1 DEF TypeOK
  <2> QED
    BY <2>2, <2>3
<1>6. TypeOK'
  BY <1>2, <1>3, <1>4, <1>5 DEF TypeOK, Observe
<1>7. NobodyStale' /\ LeftoversMeanFailure' /\ Strangers' /\ NothingCollected'
  BY <1>1 DEF Observe, NobodyStale, LeftoversMeanFailure, Strangers, NothingCollected
<1>8. NewestLast' /\ RoundsLeft'
  BY <1>1, <1>4, NoCallFacts DEF NewestLast, RoundsLeft, Idle
<1> QED
  BY <1>2, <1>6, <1>7, <1>8

(* What a new window holds.                                                *)
LEMMA SeededFacts ==
  ASSUME TypeOK, NEW n \in 0..MaxSamples - samples
  PROVE  /\ Seeded(n) \in Seq(1..MaxSamples) /\ Len(Seeded(n)) <= Limit
         /\ IF n = 0 THEN Seeded(n) = <<>>
            ELSE Seeded(n)[Len(Seeded(n))] = samples + n
<1> DEFINE kept == Least(n, Limit)
<1>1. /\ Limit \in Nat /\ Limit >= 1 /\ MaxSamples \in Nat
      /\ samples \in Nat /\ samples <= MaxSamples
  BY BoundsAssumption DEF TypeOK
<1>2. n \in Nat /\ samples + n <= MaxSamples
  BY <1>1
<1>3. kept \in Nat /\ kept <= n /\ kept <= Limit /\ (kept = 0 <=> n = 0)
  BY <1>1, <1>2 DEF Least
<1>4. Seeded(n) = [i \in 1..kept |-> samples + n - kept + i]
  BY DEF Seeded
<1> HIDE DEF kept
<1>5. ASSUME NEW i \in 1..kept
      PROVE  samples + n - kept + i \in 1..MaxSamples
  BY <1>1, <1>2, <1>3
<1>6. Seeded(n) \in Seq(1..MaxSamples) /\ Len(Seeded(n)) = kept
  BY <1>3, <1>4, <1>5
<1>7. CASE n = 0
  BY <1>1, <1>3, <1>6, <1>7, EmptySeq
<1>8. CASE n # 0
  <2>1. kept \in 1..kept
    BY <1>3, <1>8
  <2>2. Seeded(n)[kept] = samples + n
    BY <1>1, <1>2, <1>3, <1>4, <2>1
  <2> QED
    BY <1>3, <1>6, <1>8, <2>2
<1> QED
  BY <1>7, <1>8

(* A peer that registers brings its own window and trainer.                *)
LEMMA RegisterKeepsIInv ==
  ASSUME IInv, NEW p \in Participants, Register(p)
  PROVE  IInv'
<1> USE DEF IInv
<1>1. call = NoCall /\ call' = NoCall /\ Idle
  BY DEF Register, NothingCollected
<1>2. CallOK' /\ UpdatesAreFresh'
  BY <1>1, NoCallFacts DEF CallOK, UpdatesAreFresh, Contributors, Methods
<1>3. PICK n \in 0..MaxSamples - samples :
        /\ window' = [window EXCEPT ![p] = Seeded(n)]
        /\ latest' = [latest EXCEPT ![p] = IF n = 0 THEN 0 ELSE samples + n]
        /\ samples' = samples + n
  BY DEF Register
<1>4. samples + n \in 0..MaxSamples
  BY BoundsAssumption DEF TypeOK
<1>5. TypeOK'
  <2>1. Seeded(n) \in Seq(1..MaxSamples) /\ Len(Seeded(n)) <= Limit
    BY SeededFacts
  <2>2. /\ window' \in [Participants -> Seq(1..MaxSamples)]
        /\ \A q \in Participants : Len(window'[q]) <= Limit
    BY <1>3, <2>1 DEF TypeOK
  <2>3. latest' \in [Participants -> 0..MaxSamples]
    <3> DEFINE newest == IF n = 0 THEN 0 ELSE samples + n
    <3>1. newest \in 0..MaxSamples
      BY <1>4, BoundsAssumption
    <3>2. latest' = [latest EXCEPT ![p] = newest]
      BY <1>3
    <3> HIDE DEF newest
    <3> QED
      BY <3>1, <3>2 DEF TypeOK
  <2>4. network' \in [Participants -> Models]
    BY BoundsAssumption DEF TypeOK, Register, Models
  <2> QED
    BY <1>2, <1>3, <1>4, <2>2, <2>3, <2>4 DEF TypeOK, Register
<1>6. NewestLast'
  <2> SUFFICES ASSUME NEW q \in Participants, window'[q] # <<>>
               PROVE  window'[q][Len(window'[q])] = latest'[q]
    BY DEF NewestLast
  <2>1. CASE q = p
    <3>1. window'[q] = Seeded(n) /\ latest'[q] = IF n = 0 THEN 0 ELSE samples + n
      BY <1>3, <2>1 DEF TypeOK
    <3> QED
      BY <3>1, SeededFacts
  <2>2. CASE q # p
    <3>1. window'[q] = window[q] /\ latest'[q] = latest[q]
      BY <1>3, <2>2 DEF TypeOK
    <3> QED
      BY <3>1 DEF NewestLast
  <2> QED
    BY <2>1, <2>2
<1>7. NobodyStale' /\ Strangers'
  <2>1. /\ peers' = peers \cup {p} /\ round' = round
        /\ network' = [network EXCEPT ![p] = [from |-> Own, trained |-> FALSE]]
    BY DEF Register
  <2>2. NobodyStale'
    BY <2>1 DEF NobodyStale, TypeOK
  <2>3. Strangers'
    BY <2>1, SetsAssumption DEF Strangers, TypeOK
  <2> QED
    BY <2>2, <2>3
<1>8. LeftoversMeanFailure' /\ NothingCollected' /\ RoundsLeft'
  BY <1>1
  DEF Register, LeftoversMeanFailure, NothingCollected, RoundsLeft, TypeOK, Idle
<1> QED
  BY <1>2, <1>5, <1>6, <1>7, <1>8

-----------------------------------------------------------------------------
(* The steps of a round that collect: the weights of the trainers change,  *)
(* the windows and the global model do not.                                *)
LEMMA BeginKeepsIInv ==
  ASSUME IInv, NEW method \in Methods, Begin(method)
  PROVE  IInv'
<1> USE DEF IInv
<1>1. /\ call'.at = "collecting" /\ call'.left = peers
      /\ call'.method = method /\ call'.update = <<>>
      /\ call' = [at |-> call'.at, method |-> call'.method, left |-> call'.left,
                  update |-> call'.update]
  BY DEF Begin
<1>2. call'.update \in [DOMAIN call'.update ->
         [from : 0..MaxRounds \cup {Own}, seen : Seq(1..MaxSamples)]]
      /\ DOMAIN call'.update = {}
  BY <1>1, NoCallFacts
<1>3. CallOK' /\ UpdatesAreFresh'
  BY <1>1, <1>2 DEF CallOK, UpdatesAreFresh, Contributors, Begin
<1>4. TypeOK'
  BY <1>3 DEF TypeOK, Begin
<1>5. NobodyStale' /\ LeftoversMeanFailure' /\ NewestLast'
  BY <1>1 DEF Begin, NobodyStale, LeftoversMeanFailure, NewestLast, Idle
<1>6. Strangers' /\ NothingCollected' /\ RoundsLeft'
  BY <1>1 DEF Begin, Strangers, NothingCollected, RoundsLeft, Idle
<1> QED
  BY <1>3, <1>4, <1>5, <1>6

(* A participant that has had its turn without contributing.               *)
LEMMA SkipKeepsCall ==
  ASSUME CallOK, UpdatesAreFresh, NEW p \in call.left,
         call' = [call EXCEPT !.left = @ \ {p}],
         UNCHANGED <<peers, window, latest, round>>
  PROVE  CallOK' /\ UpdatesAreFresh' /\ call'.at = call.at
<1>1. /\ call'.at = call.at /\ call'.method = call.method
      /\ call'.left = call.left \ {p} /\ call'.update = call.update
      /\ call' = [at |-> call'.at, method |-> call'.method, left |-> call'.left,
                  update |-> call'.update]
  BY DEF CallOK
<1>2. CallOK'
  BY <1>1 DEF CallOK
<1>3. UpdatesAreFresh'
  BY <1>1 DEF UpdatesAreFresh, Contributors
<1> QED
  BY <1>1, <1>2, <1>3

(* Between the beginning and the end of a round the coordinator is busy.   *)
LEMMA TurnIsBusy ==
  ASSUME IInv, NEW p \in call.left
  PROVE  ~Idle /\ p \in peers /\ p \in Participants
BY NoCallFacts DEF IInv, NothingCollected, TypeOK, CallOK

(* A peer that is passed over is not in the round.                         *)
LEMMA PassOverKeepsIInv ==
  ASSUME IInv, NEW p \in Participants, PassOver(p)
  PROVE  IInv'
<1> USE DEF IInv
<1>1. p \in call.left /\ call' = [call EXCEPT !.left = @ \ {p}]
  BY DEF PassOver
<1>2. CallOK' /\ UpdatesAreFresh' /\ call'.at = call.at
  BY <1>1, SkipKeepsCall DEF PassOver, TypeOK
<1>3. ~Idle'
  BY <1>1, <1>2, TurnIsBusy DEF Idle
<1>4. TypeOK'
  BY <1>2 DEF TypeOK, PassOver
<1>5. NobodyStale' /\ LeftoversMeanFailure' /\ NewestLast'
  BY <1>3 DEF PassOver, NobodyStale, LeftoversMeanFailure, NewestLast
<1>6. Strangers' /\ NothingCollected' /\ RoundsLeft'
  BY <1>1, <1>3, TurnIsBusy DEF PassOver, Strangers, NothingCollected, RoundsLeft
<1> QED
  BY <1>2, <1>4, <1>5, <1>6

(* The trainer of a rejected peer has the global model, changed or not,    *)
(* and the round goes on without it.                                       *)
LEMMA RejectKeepsIInv ==
  ASSUME IInv, NEW p \in Participants, Reject(p)
  PROVE  IInv'
<1> USE DEF IInv
<1>1. /\ p \in call.left /\ p \notin Incompatible
      /\ call' = [call EXCEPT !.left = @ \ {p}]
  BY DEF Reject
<1>2. PICK trained \in BOOLEAN :
        network' = [network EXCEPT ![p] = [from |-> round, trained |-> trained]]
  BY DEF Reject
<1>3. CallOK' /\ UpdatesAreFresh' /\ call'.at = call.at
  BY <1>1, SkipKeepsCall DEF Reject, TypeOK
<1>4. ~Idle'
  BY <1>1, <1>3, TurnIsBusy DEF Idle
<1>5. network' \in [Participants -> Models]
  BY <1>2 DEF TypeOK, Models
<1>6. TypeOK'
  BY <1>3, <1>5 DEF TypeOK, Reject
<1>7. NobodyStale' /\ Strangers'
  <2>1. \A q \in Participants :
          network'[q] = IF q = p THEN [from |-> round, trained |-> trained]
                        ELSE network[q]
    BY <1>2 DEF TypeOK
  <2>2. peers' = peers /\ round' = round /\ peers \subseteq Participants
    BY <1>1 DEF TypeOK, Reject
  <2>3. NobodyStale'
    BY <2>1, <2>2 DEF NobodyStale
  <2>4. Strangers'
    BY <1>1, <2>1, SetsAssumption DEF Strangers
  <2> QED
    BY <2>3, <2>4
<1>8. LeftoversMeanFailure' /\ NewestLast' /\ NothingCollected' /\ RoundsLeft'
  BY <1>1, <1>4, TurnIsBusy
  DEF Reject, LeftoversMeanFailure, NewestLast, NothingCollected, RoundsLeft
<1> QED
  BY <1>3, <1>6, <1>7, <1>8

(* A peer that contributes is in the round with what its window holds.     *)
LEMMA ContributeKeepsIInv ==
  ASSUME IInv, NEW p \in Participants, Contribute(p)
  PROVE  IInv'
<1> USE DEF IInv
<1> DEFINE u == [from |-> round, seen |-> window[p]]
<1>1. /\ p \in call.left /\ p \notin Incompatible /\ window[p] # <<>>
      /\ network' = [network EXCEPT ![p] = [from |-> round, trained |-> TRUE]]
      /\ UNCHANGED <<peers, window, latest, round, outcome, samples>>
  BY DEF Contribute
<1>2. /\ call'.at = call.at /\ call'.method = call.method
      /\ call'.left = call.left \ {p}
      /\ call'.update = [q \in DOMAIN call.update \cup {p} |->
                           IF q = p THEN u ELSE call.update[q]]
      /\ call' = [at |-> call'.at, method |-> call'.method, left |-> call'.left,
                  update |-> call'.update]
  BY DEF Contribute, Contribution, TypeOK, CallOK
<1>3. ~Idle' /\ p \in peers
  BY <1>1, <1>2, TurnIsBusy DEF Idle
<1>4. u \in [from : 0..MaxRounds \cup {Own}, seen : Seq(1..MaxSamples)]
  BY DEF TypeOK
<1>5. CallOK'
  <2>1. /\ DOMAIN call'.update = DOMAIN call.update \cup {p}
        /\ call'.update \in [DOMAIN call'.update ->
             [from : 0..MaxRounds \cup {Own}, seen : Seq(1..MaxSamples)]]
    BY <1>2, <1>4 DEF TypeOK, CallOK
  <2> HIDE DEF u
  <2> QED
    BY <1>1, <1>2, <1>3, <2>1 DEF TypeOK, CallOK
<1>6. UpdatesAreFresh'
  <2> SUFFICES ASSUME NEW q \in DOMAIN call'.update
               PROVE  /\ call'.update[q].from = round
                      /\ call'.update[q].seen = window[q] /\ window[q] # <<>>
                      /\ window[q][Len(window[q])] = latest[q]
    BY <1>1 DEF UpdatesAreFresh, Contributors
  <2>1. CASE q = p
    BY <2>1, <1>1, <1>2 DEF NewestLast
  <2>2. CASE q # p
    <3>1. q \in DOMAIN call.update /\ call'.update[q] = call.update[q]
      BY <2>2, <1>2
    <3> QED
      BY <3>1 DEF UpdatesAreFresh, Contributors
  <2> QED
    BY <2>1, <2>2
<1>7. network' \in [Participants -> Models]
  BY <1>1 DEF TypeOK, Models
<1>8. TypeOK'
  BY <1>1, <1>5, <1>7 DEF TypeOK
<1>9. NobodyStale' /\ Strangers'
  <2>1. \A q \in Participants :
          network'[q] = IF q = p THEN [from |-> round, trained |-> TRUE]
                        ELSE network[q]
    BY <1>1 DEF TypeOK
  <2>2. peers' = peers /\ round' = round /\ peers \subseteq Participants
    BY <1>1 DEF TypeOK
  <2>3. NobodyStale'
    BY <2>1, <2>2 DEF NobodyStale
  <2>4. Strangers'
    BY <1>1, <2>1, SetsAssumption DEF Strangers
  <2> QED
    BY <2>3, <2>4
<1>10. LeftoversMeanFailure' /\ NewestLast' /\ NothingCollected' /\ RoundsLeft'
  BY <1>1, <1>3, TurnIsBusy
  DEF LeftoversMeanFailure, NewestLast, NothingCollected, RoundsLeft
<1> QED
  BY <1>6, <1>8, <1>9, <1>10

-----------------------------------------------------------------------------
(* The end of a round: the collected updates are dropped.                  *)
LEMMA FailKeepsIInv ==
  ASSUME IInv, Fail
  PROVE  IInv'
<1> USE DEF IInv
<1>1. call' = NoCall /\ outcome' = "failed"
      /\ UNCHANGED <<peers, network, window, latest, round, samples>>
  BY DEF Fail
<1>2. CallOK' /\ UpdatesAreFresh'
  BY <1>1, NoCallFacts DEF CallOK, UpdatesAreFresh, Contributors, Methods
<1>3. TypeOK'
  BY <1>1, <1>2 DEF TypeOK
<1>4. NobodyStale' /\ LeftoversMeanFailure' /\ NewestLast'
  BY <1>1 DEF NobodyStale, LeftoversMeanFailure, NewestLast
<1>5. Strangers' /\ NothingCollected' /\ RoundsLeft'
  BY <1>1, NoCallFacts DEF Strangers, NothingCollected, RoundsLeft, Idle
<1> QED
  BY <1>2, <1>3, <1>4, <1>5

(* A model that is committed is newer than every earlier one, and every    *)
(* trainer that can import it has it.                                      *)
LEMMA CommitKeepsIInv ==
  ASSUME IInv, Commit
  PROVE  IInv'
<1> USE DEF IInv
<1>1. /\ call' = NoCall /\ outcome' = "committed" /\ round' = round + 1
      /\ UNCHANGED <<peers, window, latest, samples>>
      /\ network' = [p \in Participants |->
                       IF p \in peers \ Incompatible
                       THEN [from |-> round + 1, trained |-> FALSE]
                       ELSE network[p]]
  BY DEF Commit
<1>2. CallOK' /\ UpdatesAreFresh'
  BY <1>1, NoCallFacts DEF CallOK, UpdatesAreFresh, Contributors, Methods
<1>3. round' \in 0..MaxRounds
  <2>1. round < MaxRounds
    BY DEF Commit, Collected, RoundsLeft, Idle
  <2> QED
    BY <1>1, <2>1, BoundsAssumption DEF TypeOK
<1>4. network' \in [Participants -> Models]
  BY <1>1, <1>3 DEF TypeOK, Models
<1>5. TypeOK'
  BY <1>1, <1>2, <1>3, <1>4 DEF TypeOK
<1>6. ASSUME NEW p \in peers
      PROVE  network'[p].from \in {Own, round'} /\ ~network'[p].trained
  <2>1. CASE p \in Incompatible
    BY <1>1, <2>1, SetsAssumption DEF Strangers
  <2>2. CASE p \notin Incompatible
    BY <1>1, <2>2 DEF TypeOK
  <2> QED
    BY <2>1, <2>2
<1>7. NobodyStale' /\ LeftoversMeanFailure'
  BY <1>1, <1>6 DEF NobodyStale, LeftoversMeanFailure
<1>8. NewestLast' /\ Strangers' /\ NothingCollected' /\ RoundsLeft'
  BY <1>1, SetsAssumption, NoCallFacts
  DEF NewestLast, Strangers, NothingCollected, RoundsLeft, Idle
<1> QED
  BY <1>2, <1>5, <1>7, <1>8

-----------------------------------------------------------------------------
(* Every step keeps the invariant.                                         *)
LEMMA NextKeepsIInv == IInv /\ [Next]_vars => IInv'
<1> SUFFICES ASSUME IInv, [Next]_vars PROVE IInv'
  OBVIOUS
<1>1. ASSUME NEW p \in Participants, Register(p) PROVE IInv'
  BY <1>1, RegisterKeepsIInv
<1>2. ASSUME NEW p \in Participants, Turn(p) PROVE IInv'
  BY <1>2, PassOverKeepsIInv, RejectKeepsIInv, ContributeKeepsIInv DEF Turn
<1>3. CASE Observe(peers)
  BY <1>3, ObserveKeepsIInv
<1>4. ASSUME NEW p \in peers, Observe({p}) PROVE IInv'
  <2>1. {p} \in SUBSET peers
    OBVIOUS
  <2> QED
    BY <1>4, <2>1, ObserveKeepsIInv
<1>5. ASSUME NEW method \in Methods, Begin(method) PROVE IInv'
  BY <1>5, BeginKeepsIInv
<1>6. CASE Fail
  BY <1>6, FailKeepsIInv
<1>7. CASE Commit
  BY <1>7, CommitKeepsIInv
<1>8. CASE UNCHANGED vars
  BY <1>8
  DEF vars, IInv, TypeOK, CallOK, UpdatesAreFresh, Contributors, NobodyStale,
      LeftoversMeanFailure, NewestLast, Strangers, NothingCollected, RoundsLeft, Idle
<1> QED
  BY <1>1, <1>2, <1>3, <1>4, <1>5, <1>6, <1>7, <1>8 DEF Next

(* The inductive invariant of the coordinator holds in every reachable     *)
(* state: what its windows, its trainers and a call under way can be.      *)
THEOREM Invariance == Spec => []IInv
BY InitIInv, NextKeepsIInv, PTL DEF Spec

(* The variables of the coordinator keep their types: above all, no window *)
(* outgrows its limit.                                                     *)
THEOREM TypeCorrect == Spec => []TypeOK
<1>1. IInv => TypeOK
  BY DEF IInv
<1> QED
  BY <1>1, Invariance, PTL

(* A round merges nothing but models trained from its own global model on  *)
(* the whole of an up-to-date window.                                      *)
THEOREM MergesFreshUpdates == Spec => []UpdatesAreFresh
<1>1. IInv => UpdatesAreFresh
  BY DEF IInv
<1> QED
  BY <1>1, Invariance, PTL

(* Nobody keeps a model based on an old round, however often rejected.     *)
THEOREM NobodyLeftBehind == Spec => []NobodyStale
<1>1. IInv => NobodyStale
  BY DEF IInv
<1> QED
  BY <1>1, Invariance, PTL

(* Only a failed round leaves locally trained weights in a trainer.        *)
THEOREM SuccessLeavesNothing == Spec => []LeftoversMeanFailure
<1>1. IInv => LeftoversMeanFailure
  BY DEF IInv
<1> QED
  BY <1>1, Invariance, PTL

-----------------------------------------------------------------------------
(* The two formulas of a trust weight have the same value.                 *)
LEMMA SameTrustFactor ==
  ASSUME NEW p \in Participants
  PROVE  100 + 9 * (50 + TrustWeight * (KnownTrust(p) - 5)) =
         100 + 90 * (IF Trust[p] # Unknown THEN KnownTrust(p) ELSE 5)
<1>1. CASE Trust[p] = Unknown
  BY <1>1 DEF KnownTrust, TrustWeight
<1>2. CASE Trust[p] # Unknown
  <2>1. KnownTrust(p) = Trust[p] /\ Trust[p] \in 0..10
    BY <1>2, WeightsAssumption DEF KnownTrust
  <2> QED
    BY <1>2, <2>1 DEF TrustWeight
<1> QED
  BY <1>1, <1>2

(* The reported influence is the one the aggregation has given, for every  *)
(* method, trust, connectivity and number of samples.                      *)
THEOREM ReportsMergedWeights == Spec => []WeightsAgree
<1>1. ASSUME NEW p \in Participants, NEW n, NEW method \in Methods
      PROVE  MergeWeight(method, p, n) = ReportedWeight(method, p, n)
  <2>1. CASE method = "trust"
    BY <2>1, SameTrustFactor DEF MergeWeight, ReportedWeight
  <2>2. CASE method # "trust"
    BY <2>2 DEF Methods, MergeWeight, ReportedWeight
  <2> QED
    BY <2>1, <2>2
<1>2. TypeOK => WeightsAgree
  BY <1>1 DEF TypeOK, CallOK, WeightsAgree, Contributors
<1> QED
  BY <1>2, TypeCorrect, PTL
=============================================================================
