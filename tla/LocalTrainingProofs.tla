------------------------ MODULE LocalTrainingProofs -------------------------
(***************************************************************************)
(* Proofs about LocalTraining and the two modules it composes, for any     *)
(* deployed parameters, scores and numbers of candidates, trainers, epochs *)
(* and imports: what the scan for the best candidate has found, that the   *)
(* target made of it can be learned, that trainings which share a network  *)
(* lose no update and show nobody a half-written model, and that each step *)
(* of a training brings it nearer to its end.                              *)
(***************************************************************************)
EXTENDS LocalTraining, SumTheorems, SequenceTheorems

-----------------------------------------------------------------------------
(* The shared network *)

Models == [Arrays -> Lineages]

Calls == [at : {"start", "forward", "backward", "export", "returned", "failed"},
          epoch : Nat, next : Nat \ {0}, output : Lineages, began : 0..MaxImports,
          model : Models, version : Nat]

TrainingTypes ==
  /\ TrainingTypeOK
  /\ train \in [Trainers -> Calls]
  /\ read \in [Readers -> [model : Models, version : Nat]]

(* Where a call of Train can be.                                           *)
CallsInOrder ==
  \A t \in Trainers :
    LET c == train[t]
    IN  /\ c.at = "start" => c.epoch = 0 /\ c.next = 1
        /\ c.at \in {"forward", "backward"} => c.epoch < Epochs[t]
        /\ c.at \in {"export", "returned"} => c.epoch = Epochs[t] /\ c.next = 1
        /\ holder = t => c.at = "backward"

(* The arrays the writer has yet to write, each of them once.              *)
Pending == {toWrite[i] : i \in DOMAIN toWrite}

WritesOnce ==
  /\ toWrite \in Seq(Arrays)
  /\ \A i, j \in DOMAIN toWrite : toWrite[i] = toWrite[j] => i = j

(* What the writer makes of arrays with lineage base.                      *)
Rewritten(base) == IF holder = "import" THEN Imported(imports) ELSE Updated(base, holder)

(* The network was one model with lineage base when the writer came, and   *)
(* what has been written since is the model it will be when it leaves.     *)
Settled(base) ==
  /\ base \in Lineages
  /\ \A a \in Arrays :
       net[a] = IF Free \/ a \in Pending THEN base ELSE Rewritten(base)

(* That model is accounted for: by its version and by the progress of the  *)
(* trainings.                                                              *)
Accounted(base) ==
  /\ version = base.from + AllUpdates(base)
  /\ base.from <= imports
  /\ holder = "import" => base.from < imports
  /\ \A t \in Trainers :
       /\ train[t].began <= base.from
       /\ base.updates[t] <= Progress(t)
       /\ train[t].began = base.from => base.updates[t] = Progress(t)

(* What a training has returned.                                           *)
ReturnsAreWhole ==
  \A t \in Trainers :
    train[t].at = "returned" =>
      /\ OneModel(train[t])
      /\ LET lineage == Lineage(train[t].model)
         IN  train[t].began = lineage.from =>
               lineage.updates[t] = Epochs[t] * Len(dataset)

(* The inductive invariant of the network.  Between two writers it says of *)
(* the arrays themselves what UpdatesAreKept and OneModel say; while one   *)
(* of them is at work, of the model it started from.                       *)
TrainingInv ==
  /\ TrainingTypes
  /\ CallsInOrder
  /\ WritesOnce
  /\ \E base \in Lineages : Settled(base) /\ Accounted(base)
  /\ \A r \in Readers : OneModel(read[r])
  /\ ReturnsAreWhole

-----------------------------------------------------------------------------
(* Both orders of writing name each of the four arrays once.               *)
LEMMA ArraysAreFour ==
  /\ Arrays = {"hiddenOutput", "outputBiases", "inputHidden", "hiddenBiases"}
  /\ \A order \in {BackwardOrder, ImportOrder} :
       /\ order \in Seq(Arrays) /\ order # <<>>
       /\ {order[i] : i \in DOMAIN order} = Arrays
       /\ \A i, j \in DOMAIN order : order[i] = order[j] => i = j
<1>1. Arrays = {"hiddenOutput", "outputBiases", "inputHidden", "hiddenBiases"}
  BY DEF Arrays, BackwardOrder
<1>2. DOMAIN BackwardOrder = 1..4 /\ DOMAIN ImportOrder = 1..4
  BY DEF BackwardOrder, ImportOrder
<1>3. BackwardOrder \in Seq(Arrays) /\ ImportOrder \in Seq(Arrays)
  BY <1>1 DEF BackwardOrder, ImportOrder
<1>4. {ImportOrder[i] : i \in DOMAIN ImportOrder} = Arrays
  BY <1>1 DEF ImportOrder
<1>5. {BackwardOrder[i] : i \in DOMAIN BackwardOrder} = Arrays
  BY DEF Arrays
<1>6. \A order \in {BackwardOrder, ImportOrder} :
        \A i, j \in DOMAIN order : order[i] = order[j] => i = j
  BY <1>2 DEF BackwardOrder, ImportOrder
<1>7. BackwardOrder # <<>> /\ ImportOrder # <<>>
  BY DEF BackwardOrder, ImportOrder
<1>8. \A order \in {BackwardOrder, ImportOrder} :
        order \in Seq(Arrays) /\ order # <<>> /\ {order[i] : i \in DOMAIN order} = Arrays
  BY <1>3, <1>4, <1>5, <1>7
<1> QED
  BY <1>1, <1>6, <1>8, Zenon

(* A new import has seen no updates; an update counts for one.             *)
LEMMA ImportedLineage ==
  ASSUME NEW k \in 0..MaxImports
  PROVE  Imported(k) \in Lineages /\ Imported(k).from = k /\ AllUpdates(Imported(k)) = 0
         /\ \A t \in Trainers : Imported(k).updates[t] = 0
<1> DEFINE none == [t \in Trainers |-> 0]
<1>1. Imported(k) \in Lineages /\ Imported(k).from = k /\ Imported(k).updates = none
  BY DEF Imported, Lineages
<1>4. SumFunctionOnSet(none, Trainers) = 0
  <2>1. \A t \in Trainers : none[t] = 0
    OBVIOUS
  <2> HIDE DEF none
  <2> QED
    BY <2>1, TrainingAssumption, SumZero
<1>5. SumFunction(none) = SumFunctionOnSet(none, Trainers)
  BY DEF SumFunction
<1> HIDE DEF none
<1> QED
  BY <1>1, <1>4, <1>5 DEF AllUpdates, none

(* An update adds one to what its training has made of a model.            *)
LEMMA UpdatedLineage ==
  ASSUME NEW base \in Lineages, NEW t \in Trainers
  PROVE  /\ Updated(base, t) \in Lineages
         /\ Updated(base, t).from = base.from
         /\ \A u \in Trainers :
              Updated(base, t).updates[u] = base.updates[u] + (IF u = t THEN 1 ELSE 0)
         /\ AllUpdates(Updated(base, t)) = AllUpdates(base) + 1
         /\ AllUpdates(base) \in Int
<1> DEFINE old == base.updates
           new == Updated(base, t).updates
<1>1. old \in [Trainers -> Nat] /\ base.from \in 0..MaxImports
  BY DEF Lineages
<1>2. new = [old EXCEPT ![t] = @ + 1] /\ Updated(base, t) = [from |-> base.from, updates |-> new]
  BY DEF Updated, Lineages
<1>3. new \in [Trainers -> Nat] /\ \A u \in Trainers : new[u] = old[u] + (IF u = t THEN 1 ELSE 0)
  BY <1>1, <1>2
<1>4. Updated(base, t) \in Lineages /\ Updated(base, t).from = base.from
  BY <1>1, <1>2, <1>3 DEF Lineages
<1> HIDE DEF old, new
<1>5. SumFunctionOnSet(new, Trainers) = SumFunctionOnSet(old, Trainers) + 1
  <2>1. \A u \in Trainers : old[u] \in Int
    BY <1>1
  <2>2. new[t] = old[t] + 1 /\ \A u \in Trainers \ {t} : new[u] = old[u]
    BY <1>1, <1>3
  <2> QED
    BY <2>1, <2>2, TrainingAssumption, SumChange
<1>6. SumFunctionOnSet(old, Trainers) \in Int
  <2>1. \A u \in Trainers : old[u] \in Int
    BY <1>1
  <2> QED
    BY <2>1, TrainingAssumption, SumInt
<1>7. DOMAIN new = Trainers /\ DOMAIN old = Trainers
  BY <1>1, <1>3
<1> QED
  BY <1>3, <1>4, <1>5, <1>6, <1>7 DEF AllUpdates, SumFunction, old, new

(* Taking the first of distinct elements leaves the others.                *)
LEMMA TailOfDistinct ==
  ASSUME NEW S, NEW s \in Seq(S), s # <<>>,
         \A i, j \in DOMAIN s : s[i] = s[j] => i = j
  PROVE  /\ Head(s) \in S /\ Head(s) \in {s[i] : i \in DOMAIN s}
         /\ Tail(s) \in Seq(S)
         /\ {Tail(s)[i] : i \in DOMAIN Tail(s)} = {s[i] : i \in DOMAIN s} \ {Head(s)}
         /\ \A i, j \in DOMAIN Tail(s) : Tail(s)[i] = Tail(s)[j] => i = j
<1>1. Len(s) \in Nat \ {0} /\ DOMAIN s = 1..Len(s) /\ \A i \in 1..Len(s) : s[i] \in S
  BY EmptySeq, LenProperties, ElementOfSeq
<1>2. Head(s) = s[1]
  BY <1>1
<1>3. /\ Tail(s) \in Seq(S) /\ DOMAIN Tail(s) = 1..Len(s) - 1
      /\ \A i \in 1..Len(s) - 1 : Tail(s)[i] = s[i + 1]
  BY <1>1
<1>4. Head(s) \in S /\ Head(s) \in {s[i] : i \in DOMAIN s}
  BY <1>1, <1>2
<1>5. {Tail(s)[i] : i \in DOMAIN Tail(s)} = {s[i] : i \in DOMAIN s} \ {Head(s)}
  <2>1. ASSUME NEW i \in DOMAIN Tail(s) PROVE Tail(s)[i] \in {s[j] : j \in DOMAIN s} \ {Head(s)}
    BY <1>1, <1>2, <1>3
  <2>2. ASSUME NEW j \in DOMAIN s, s[j] # Head(s)
        PROVE  s[j] \in {Tail(s)[i] : i \in DOMAIN Tail(s)}
    <3>1. j - 1 \in DOMAIN Tail(s) /\ Tail(s)[j - 1] = s[j]
      BY <1>1, <1>2, <1>3, <2>2
    <3> QED
      BY <3>1
  <2> QED
    BY <2>1, <2>2
<1>6. \A i, j \in DOMAIN Tail(s) : Tail(s)[i] = Tail(s)[j] => i = j
  BY <1>1, <1>3
<1> QED
  BY <1>3, <1>4, <1>5, <1>6

(* The progress of a training is a number.                                 *)
LEMMA ProgressIsNat ==
  ASSUME TrainingTypes, NEW t \in Trainers
  PROVE  Progress(t) \in Nat /\ Len(dataset) \in Nat
<1>1. Len(dataset) \in Nat
  BY LenProperties DEF TrainingTypes, TrainingTypeOK
<1>2. train[t].epoch \in Nat /\ train[t].next \in Nat \ {0}
  BY DEF TrainingTypes, Calls
<1>3. train[t].epoch * Len(dataset) \in Nat
  BY <1>1, <1>2
<1>4. \A m \in Nat, n \in Nat \ {0} : m + n - 1 \in Nat
  OBVIOUS
<1> QED
  BY <1>1, <1>2, <1>3, <1>4, Zenon DEF Progress

(* NewTinyNetwork, before anybody trains it.                               *)
LEMMA TrainingStarts ==
  ASSUME TrainingInit, dataset = <<>> PROVE TrainingInv
<1> DEFINE base == Imported(0)
<1>1. base \in Lineages /\ base.from = 0 /\ AllUpdates(base) = 0
      /\ \A t \in Trainers : base.updates[t] = 0
  BY ImportedLineage, TrainingAssumption
<1>2. net = [a \in Arrays |-> base] /\ net \in Models
  BY <1>1 DEF TrainingInit, Models
<1>3. \A t \in Trainers : train[t] = NotTraining
  BY DEF TrainingInit
<1>4. NotTraining \in Calls
  BY <1>1, TrainingAssumption DEF NotTraining, Calls, Models
<1>5. train \in [Trainers -> Calls]
  BY <1>4 DEF TrainingInit
<1>6. read \in [Readers -> [model : Models, version : Nat]]
  BY <1>2 DEF TrainingInit
<1>7. TrainingTypes
  <2>1. dataset \in Seq(Samples)
    BY EmptySeq
  <2>2. \A t \in Trainers :
          /\ train[t].at \in {"start", "forward", "backward", "export", "returned", "failed"}
          /\ train[t].epoch \in 0..Epochs[t] /\ train[t].next \in Nat \ {0}
          /\ train[t].at \in {"forward", "backward"} => train[t].next \in DOMAIN dataset
          /\ train[t].output \in Lineages
    BY <1>1, <1>3, TrainingAssumption DEF NotTraining
  <2>3. net \in [Arrays -> Lineages]
    BY <1>2 DEF Models
  <2>4. /\ version \in Nat /\ holder \in Trainers \cup {"import", Nobody}
        /\ Free => toWrite = <<>>
        /\ imports \in 0..MaxImports
    BY TrainingAssumption DEF TrainingInit
  <2>5. TrainingTypeOK
    BY <2>1, <2>2, <2>3, <2>4 DEF TrainingTypeOK
  <2> QED
    BY <1>5, <1>6, <2>5 DEF TrainingTypes
<1>8. CallsInOrder
  BY <1>3, TrainingAssumption DEF CallsInOrder, NotTraining, TrainingInit
<1>9. WritesOnce
  BY EmptySeq DEF WritesOnce, TrainingInit
<1>10. Settled(base) /\ Accounted(base)
  <2>1. Settled(base)
    BY <1>1, <1>2 DEF Settled, TrainingInit, Free
  <2>2. \A t \in Trainers : train[t].began = 0 /\ Progress(t) = 0
    BY <1>3 DEF NotTraining, Progress
  <2>3. Accounted(base)
    BY <1>1, <2>2, TrainingAssumption DEF Accounted, TrainingInit
  <2> QED
    BY <2>1, <2>3
<1>11. \A r \in Readers : OneModel(read[r])
  <2>1. Whole(net) /\ Lineage(net) = base
    BY <1>2, ArraysAreFour DEF Whole, Lineage
  <2>2. \A r \in Readers : read[r].model = net /\ read[r].version = 0
    BY DEF TrainingInit
  <2> HIDE DEF base
  <2> QED
    BY <1>1, <2>1, <2>2 DEF OneModel
<1>12. ReturnsAreWhole
  BY <1>3 DEF ReturnsAreWhole, NotTraining
<1> QED
  BY <1>1, <1>7, <1>8, <1>9, <1>10, <1>11, <1>12 DEF TrainingInv

-----------------------------------------------------------------------------
(* A training that is alone in moving, to c, and leaves the network alone. *)
LEMMA CallMoves ==
  ASSUME TrainingInv, NEW t \in Trainers, NEW c \in Calls, holder # t,
         train' = [train EXCEPT ![t] = c],
         UNCHANGED <<dataset, net, version, holder, toWrite, read, imports>>,
         c.epoch = train[t].epoch, c.next = train[t].next,
         c.at = "start" => train[t].at = "start",
         c.at \in {"forward", "backward"} =>
           c.next \in DOMAIN dataset /\ c.epoch < Epochs[t],
         c.at \in {"export", "returned"} => c.epoch = Epochs[t] /\ c.next = 1,
         \/ c.began = train[t].began
         \/ Free /\ Progress(t) = 0 /\ c.began = Lineage(net).from,
         c.at = "returned" =>
           /\ OneModel(c)
           /\ c.began = Lineage(c.model).from =>
                Lineage(c.model).updates[t] = Epochs[t] * Len(dataset)
  PROVE  TrainingInv'
<1> USE DEF TrainingInv
<1>1. train' \in [Trainers -> Calls] /\ train'[t] = c
      /\ \A u \in Trainers \ {t} : train'[u] = train[u]
  BY DEF TrainingTypes
<1>2. \A u \in Trainers : Progress(u)' = Progress(u)
  BY <1>1 DEF Progress
<1>3. TrainingTypes'
  <2>1. \A u \in Trainers :
          /\ train'[u].at \in {"start", "forward", "backward", "export", "returned", "failed"}
          /\ train'[u].epoch \in 0..Epochs[u] /\ train'[u].next \in Nat \ {0}
          /\ train'[u].at \in {"forward", "backward"} => train'[u].next \in DOMAIN dataset
          /\ train'[u].output \in Lineages
    <3> SUFFICES ASSUME NEW u \in Trainers
                 PROVE /\ train'[u].at \in {"start", "forward", "backward", "export", "returned", "failed"}
                       /\ train'[u].epoch \in 0..Epochs[u] /\ train'[u].next \in Nat \ {0}
                       /\ train'[u].at \in {"forward", "backward"} => train'[u].next \in DOMAIN dataset
                       /\ train'[u].output \in Lineages
      OBVIOUS
    <3>1. CASE u = t
      <4>1. c.epoch \in 0..Epochs[t]
        BY DEF TrainingTypes, TrainingTypeOK
      <4> QED
        BY <1>1, <3>1, <4>1 DEF Calls
    <3>2. CASE u # t
      BY <1>1, <3>2 DEF TrainingTypes, TrainingTypeOK
    <3> QED
      BY <3>1, <3>2
  <2> QED
    BY <1>1, <2>1 DEF TrainingTypes, TrainingTypeOK, Free, Models
<1>4. CallsInOrder'
  <2>1. \A u \in Trainers \ {t} :
          /\ train'[u].at = "start" => train'[u].epoch = 0 /\ train'[u].next = 1
          /\ train'[u].at \in {"forward", "backward"} => train'[u].epoch < Epochs[u]
          /\ train'[u].at \in {"export", "returned"} => train'[u].epoch = Epochs[u] /\ train'[u].next = 1
          /\ holder = u => train'[u].at = "backward"
    BY <1>1 DEF CallsInOrder
  <2>2. /\ c.at = "start" => c.epoch = 0 /\ c.next = 1
        /\ c.at \in {"forward", "backward"} => c.epoch < Epochs[t]
        /\ c.at \in {"export", "returned"} => c.epoch = Epochs[t] /\ c.next = 1
    BY DEF CallsInOrder
  <2> QED
    BY <1>1, <2>1, <2>2 DEF CallsInOrder
<1>5. WritesOnce'
  BY DEF WritesOnce
<1>6. PICK base \in Lineages : Settled(base) /\ Accounted(base)
  OBVIOUS
<1>7. Settled(base)'
  BY <1>6 DEF Settled, Free, Pending, Rewritten
<1>8. Accounted(base)'
  <2>1. base.from \in Nat /\ base.updates[t] \in Nat /\ Progress(t) \in Nat
    BY ProgressIsNat DEF Lineages
  <2>2. Free => Lineage(net) = base
    BY <1>6, ArraysAreFour DEF Settled, Lineage
  <2>3. c.began <= base.from /\ (c.began = base.from => base.updates[t] = Progress(t))
    <3>1. CASE c.began = train[t].began
      BY <1>6, <3>1 DEF Accounted
    <3>2. CASE Free /\ Progress(t) = 0 /\ c.began = Lineage(net).from
      BY <1>6, <2>1, <2>2, <3>2 DEF Accounted
    <3> QED
      BY <3>1, <3>2
  <2>4. \A u \in Trainers :
          /\ train'[u].began <= base.from
          /\ base.updates[u] <= Progress(u)'
          /\ train'[u].began = base.from => base.updates[u] = Progress(u)'
    <3> SUFFICES ASSUME NEW u \in Trainers
                 PROVE  /\ train'[u].began <= base.from
                        /\ base.updates[u] <= Progress(u)'
                        /\ train'[u].began = base.from => base.updates[u] = Progress(u)'
      OBVIOUS
    <3>1. CASE u = t
      BY <1>1, <1>2, <1>6, <2>3, <3>1 DEF Accounted
    <3>2. CASE u # t
      BY <1>1, <1>2, <1>6, <3>2 DEF Accounted
    <3> QED
      BY <3>1, <3>2
  <2> QED
    BY <1>6, <2>4 DEF Accounted
<1>9. (\A r \in Readers : OneModel(read[r]))'
  OBVIOUS
<1>10. ReturnsAreWhole'
  BY <1>1 DEF ReturnsAreWhole
<1> QED
  BY <1>3, <1>4, <1>5, <1>7, <1>8, <1>9, <1>10

(* While nobody writes, the network is one model.                          *)
LEMMA FreeIsWhole ==
  ASSUME TrainingInv, Free
  PROVE  /\ Whole(net) /\ Lineage(net) \in Lineages
         /\ version = Lineage(net).from + AllUpdates(Lineage(net))
         /\ \A t \in Trainers :
              /\ Lineage(net).updates[t] <= Progress(t)
              /\ train[t].began = Lineage(net).from => Lineage(net).updates[t] = Progress(t)
<1>1. PICK base \in Lineages : Settled(base) /\ Accounted(base)
  BY DEF TrainingInv
<1>2. \A a \in Arrays : net[a] = base
  BY <1>1 DEF Settled
<1>3. Whole(net) /\ Lineage(net) = base
  BY <1>2, ArraysAreFour DEF Whole, Lineage
<1> QED
  BY <1>1, <1>3 DEF Accounted

(* A training begins with no update made.                                  *)
LEMMA BeginTrainingKeeps ==
  ASSUME TrainingInv, NEW t \in Trainers, BeginTraining(t) PROVE TrainingInv'
<1> DEFINE c == [train[t] EXCEPT !.at = IF dataset = <<>> THEN "failed" ELSE "forward"]
<1>1. train[t] \in Calls /\ train[t].at = "start" /\ holder # t
  BY DEF TrainingInv, TrainingTypes, CallsInOrder, BeginTraining
<1>2. train' = [train EXCEPT ![t] = c]
  BY DEF BeginTraining
<1>3. c \in Calls /\ c.epoch = 0 /\ c.next = 1 /\ c.began = train[t].began
      /\ c.epoch = train[t].epoch /\ c.next = train[t].next
      /\ c.at = IF dataset = <<>> THEN "failed" ELSE "forward"
  BY <1>1 DEF Calls, TrainingInv, CallsInOrder
<1>4. dataset # <<>> => 1 \in DOMAIN dataset
  BY LenProperties, EmptySeq DEF TrainingInv, TrainingTypes, TrainingTypeOK
<1>5. 0 < Epochs[t]
  BY TrainingAssumption
<1> HIDE DEF c
<1> QED
  BY <1>1, <1>2, <1>3, <1>4, <1>5, CallMoves DEF BeginTraining

(* A forward pass sees the model it will be credited to.                   *)
LEMMA ForwardKeeps ==
  ASSUME TrainingInv, NEW t \in Trainers, Forward(t) PROVE TrainingInv'
<1>1. train[t] \in Calls /\ train[t].at = "forward" /\ holder # t /\ Free
  BY TrainingAssumption DEF TrainingInv, TrainingTypes, Forward, Free
<1>2. train[t].next \in DOMAIN dataset /\ train[t].epoch < Epochs[t]
  BY <1>1 DEF TrainingInv, TrainingTypes, TrainingTypeOK, CallsInOrder
<1>3. CASE CurrentSample(t) \in {"badWeight", "badFeatures"}
  <2> DEFINE c == [train[t] EXCEPT !.at = "failed"]
  <2>1. train' = [train EXCEPT ![t] = c]
    BY <1>3 DEF Forward
  <2>2. c \in Calls /\ c.at = "failed" /\ c.began = train[t].began
        /\ c.epoch = train[t].epoch /\ c.next = train[t].next
    BY <1>1 DEF Calls
  <2> HIDE DEF c
  <2> QED
    BY <1>1, <2>1, <2>2, CallMoves DEF Forward
<1>4. CASE ~(CurrentSample(t) \in {"badWeight", "badFeatures"})
  <2> DEFINE c == [train[t] EXCEPT !.at = "backward", !.output = Lineage(net),
                     !.began = IF FirstSample(t) THEN Lineage(net).from
                                ELSE train[t].began]
  <2>1. train' = [train EXCEPT ![t] = c]
    BY <1>4 DEF Forward
  <2>2. Lineage(net) \in Lineages /\ Lineage(net).from \in 0..MaxImports
    BY <1>1, FreeIsWhole DEF Lineages
  <2>3. c \in Calls /\ c.at = "backward" /\ c.epoch = train[t].epoch /\ c.next = train[t].next
        /\ c.began = IF FirstSample(t) THEN Lineage(net).from ELSE train[t].began
    BY <1>1, <2>2 DEF Calls
  <2>4. FirstSample(t) => Progress(t) = 0
    <3>1. Len(dataset) \in Nat
      BY ProgressIsNat DEF TrainingInv
    <3> QED
      BY <3>1 DEF FirstSample, Progress
  <2> HIDE DEF c
  <2> QED
    BY <1>1, <1>2, <2>1, <2>3, <2>4, CallMoves DEF Forward
<1> QED
  BY <1>3, <1>4

(* A training that is cancelled keeps what it has made.                    *)
LEMMA CancelledKeeps ==
  ASSUME TrainingInv, NEW t \in Trainers, Cancelled(t) PROVE TrainingInv'
<1> DEFINE c == [train[t] EXCEPT !.at = "failed"]
<1>1. train[t] \in Calls /\ holder # t
  BY DEF TrainingInv, TrainingTypes, CallsInOrder, Cancelled
<1>2. train' = [train EXCEPT ![t] = c]
  BY DEF Cancelled
<1>3. c \in Calls /\ c.at = "failed" /\ c.began = train[t].began
      /\ c.epoch = train[t].epoch /\ c.next = train[t].next
  BY <1>1 DEF Calls
<1> HIDE DEF c
<1> QED
  BY <1>1, <1>2, <1>3, CallMoves DEF Cancelled

(* A training returns after its last epoch: it has made every update.      *)
LEMMA ReturnKeeps ==
  ASSUME TrainingInv, NEW t \in Trainers, Return(t) PROVE TrainingInv'
<1> DEFINE c == [train[t] EXCEPT !.at = "returned", !.model = net, !.version = version]
<1>1. train[t] \in Calls /\ train[t].at = "export" /\ holder # t /\ Free
  BY DEF TrainingInv, TrainingTypes, CallsInOrder, Return
<1>2. net \in Models /\ version \in Nat
  BY DEF TrainingInv, TrainingTypes, TrainingTypeOK, Models
<1>3. train' = [train EXCEPT ![t] = c]
  BY DEF Return
<1>4. c \in Calls /\ c.at = "returned" /\ c.began = train[t].began
      /\ c.epoch = train[t].epoch /\ c.next = train[t].next
      /\ c.model = net /\ c.version = version
  BY <1>1, <1>2 DEF Calls
<1>5. train[t].epoch = Epochs[t] /\ train[t].next = 1
  BY <1>1 DEF TrainingInv, CallsInOrder
<1>6. Progress(t) = Epochs[t] * Len(dataset)
  <2>1. Len(dataset) \in Nat /\ Epochs[t] * Len(dataset) \in Nat
    BY ProgressIsNat, TrainingAssumption DEF TrainingInv
  <2>2. \A m \in Nat : m + 1 - 1 = m
    OBVIOUS
  <2> QED
    BY <1>5, <2>1, <2>2, Zenon DEF Progress
<1> HIDE DEF c
<1>7. /\ OneModel(c)
      /\ c.began = Lineage(c.model).from =>
           Lineage(c.model).updates[t] = Epochs[t] * Len(dataset)
  BY <1>1, <1>4, <1>6, FreeIsWhole DEF OneModel
<1>8. UNCHANGED <<dataset, net, version, holder, toWrite, read, imports>>
  BY DEF Return
<1>9. c.epoch = Epochs[t] /\ c.next = 1
  BY <1>4, <1>5
<1> HIDE DEF TrainingInv
<1> QED
  BY <1>1, <1>3, <1>4, <1>7, <1>8, <1>9, CallMoves

(* A reader changes nothing, and sees a whole model.                       *)
LEMMA ReadKeeps ==
  ASSUME TrainingInv, NEW r \in Readers, Read(r) PROVE TrainingInv'
<1> USE DEF TrainingInv
<1> DEFINE copy == [model |-> net, version |-> version]
<1>1. read' \in [Readers -> [model : Models, version : Nat]]
  BY DEF Read, TrainingTypes, TrainingTypeOK, Models
<1>2. TrainingTypes'
  BY <1>1 DEF Read, TrainingTypes, TrainingTypeOK, Free, Models
<1>3. CallsInOrder' /\ WritesOnce' /\ ReturnsAreWhole'
  BY DEF Read, CallsInOrder, WritesOnce, ReturnsAreWhole
<1>4. PICK base \in Lineages : Settled(base) /\ Accounted(base)
  OBVIOUS
<1>5. Settled(base)' /\ Accounted(base)'
  BY <1>4 DEF Read, Settled, Accounted, Free, Pending, Rewritten, Progress
<1>6. OneModel(copy)
  BY FreeIsWhole DEF Read, OneModel
<1>7. \A q \in Readers : read'[q] = read[q] \/ read'[q] = copy
  BY DEF Read, TrainingTypes
<1>8. (\A q \in Readers : OneModel(read[q]))'
  <2> HIDE DEF copy
  <2> QED
    BY <1>6, <1>7 DEF OneModel
<1> QED
  BY <1>2, <1>3, <1>5, <1>8

-----------------------------------------------------------------------------
(* A writer comes, with all the arrays before it.                          *)
LEMMA WriterLocks ==
  ASSUME TrainingInv, Free, holder' \in Trainers \cup {"import"},
         toWrite' \in {BackwardOrder, ImportOrder},
         \/ /\ holder' \in Trainers /\ train[holder'].at = "backward"
            /\ imports' = imports
         \/ /\ holder' = "import"
            /\ imports < MaxImports /\ imports' = imports + 1,
         UNCHANGED <<dataset, net, version, train, read>>
  PROVE  TrainingInv'
<1> USE DEF TrainingInv
<1>1. toWrite' \in Seq(Arrays) /\ Pending' = Arrays
      /\ \A i, j \in DOMAIN toWrite' : toWrite'[i] = toWrite'[j] => i = j
  BY ArraysAreFour DEF Pending
<1>2. ~Free' /\ holder' \in Trainers \cup {"import", Nobody} /\ imports' \in 0..MaxImports
  BY TrainingAssumption DEF Free, TrainingTypes, TrainingTypeOK
<1>3. TrainingTypes'
  BY <1>2 DEF TrainingTypes, TrainingTypeOK, Free, Models
<1>4. CallsInOrder'
  BY TrainingAssumption DEF CallsInOrder
<1>5. WritesOnce'
  BY <1>1 DEF WritesOnce
<1>6. PICK base \in Lineages : Settled(base) /\ Accounted(base)
  OBVIOUS
<1>7. Settled(base)'
  BY <1>1, <1>2, <1>6 DEF Settled
<1>8. Accounted(base)'
  <2>1. imports \in Nat /\ base.from \in Nat
    BY DEF TrainingTypes, TrainingTypeOK, Lineages
  <2>2. \A t \in Trainers : Progress(t)' = Progress(t)
    BY DEF Progress
  <2>3. base.from <= imports' /\ (holder' = "import" => base.from < imports')
    BY <1>6, <2>1, TrainingAssumption DEF Accounted
  <2> QED
    BY <1>6, <2>2, <2>3 DEF Accounted
<1>9. (\A r \in Readers : OneModel(read[r]))' /\ ReturnsAreWhole'
  BY DEF ReturnsAreWhole
<1> QED
  BY <1>3, <1>4, <1>5, <1>7, <1>8, <1>9

(* The holder of the lock writes the next array.                           *)
LEMMA WriterWrites ==
  ASSUME TrainingInv, ~Free, toWrite # <<>>,
         net' = [net EXCEPT ![Head(toWrite)] = Rewritten(net[Head(toWrite)])],
         toWrite' = Tail(toWrite),
         UNCHANGED <<dataset, version, holder, train, read, imports>>
  PROVE  TrainingInv'
<1> USE DEF TrainingInv
<1> DEFINE h == Head(toWrite)
<1>1. /\ h \in Arrays /\ h \in Pending
      /\ toWrite' \in Seq(Arrays) /\ Pending' = Pending \ {h}
      /\ \A i, j \in DOMAIN toWrite' : toWrite'[i] = toWrite'[j] => i = j
  <2>1. toWrite \in Seq(Arrays) /\ \A i, j \in DOMAIN toWrite : toWrite[i] = toWrite[j] => i = j
    BY DEF WritesOnce
  <2>2. /\ h \in Arrays /\ h \in {toWrite[i] : i \in DOMAIN toWrite}
        /\ Tail(toWrite) \in Seq(Arrays)
        /\ {Tail(toWrite)[i] : i \in DOMAIN Tail(toWrite)} = {toWrite[i] : i \in DOMAIN toWrite} \ {h}
        /\ \A i, j \in DOMAIN Tail(toWrite) : Tail(toWrite)[i] = Tail(toWrite)[j] => i = j
    BY <2>1, TailOfDistinct, Zenon
  <2>3. Pending' = {Tail(toWrite)[i] : i \in DOMAIN Tail(toWrite)}
    BY Zenon DEF Pending
  <2> QED
    BY <2>2, <2>3, Zenon DEF Pending
<1>2. PICK base \in Lineages : Settled(base) /\ Accounted(base)
  OBVIOUS
<1>3. net \in [Arrays -> Lineages] /\ holder \in Trainers \cup {"import", Nobody}
      /\ imports \in 0..MaxImports
  BY DEF TrainingTypes, TrainingTypeOK
<1>4. net[h] = base
  BY <1>1, <1>2 DEF Settled
<1>5. Rewritten(base) \in Lineages
  BY <1>3, ImportedLineage, UpdatedLineage DEF Rewritten, Free
<1> HIDE DEF h
<1>6. net' \in [Arrays -> Lineages] /\ net'[h] = Rewritten(base)
      /\ \A a \in Arrays \ {h} : net'[a] = net[a]
  BY <1>1, <1>3, <1>4, <1>5 DEF h
<1>7. TrainingTypes'
  BY <1>6 DEF TrainingTypes, TrainingTypeOK, Free, Models
<1>8. CallsInOrder' /\ ReturnsAreWhole' /\ (\A r \in Readers : OneModel(read[r]))'
  BY DEF CallsInOrder, ReturnsAreWhole
<1>9. WritesOnce'
  BY <1>1 DEF WritesOnce
<1>10. Rewritten(base)' = Rewritten(base)
  BY DEF Rewritten
<1>11. Settled(base)'
  <2>1. \A a \in Arrays :
          net'[a] = IF a \in Pending' THEN base ELSE Rewritten(base)
    BY <1>1, <1>2, <1>6 DEF Settled
  <2> HIDE DEF TrainingInv
  <2> QED
    BY <1>2, <1>10, <2>1 DEF Settled, Free
<1>12. Accounted(base)'
  BY <1>2 DEF Accounted, Progress
<1> QED
  BY <1>7, <1>8, <1>9, <1>11, <1>12

(* A training that takes the lock has yet to write all four arrays.        *)
LEMMA BackwardLocksKeeps ==
  ASSUME TrainingInv, NEW t \in Trainers, BackwardLocks(t) PROVE TrainingInv'
<1>1. CASE CurrentSample(t) = "badTargets"
  <2> DEFINE c == [train[t] EXCEPT !.at = "failed"]
  <2>1. train[t] \in Calls /\ holder # t
    BY TrainingAssumption DEF TrainingInv, TrainingTypes, BackwardLocks, Free
  <2>2. train' = [train EXCEPT ![t] = c]
        /\ UNCHANGED <<dataset, net, version, holder, toWrite, read, imports>>
    BY <1>1 DEF BackwardLocks
  <2>3. c \in Calls /\ c.at = "failed" /\ c.began = train[t].began
        /\ c.epoch = train[t].epoch /\ c.next = train[t].next
    BY <2>1 DEF Calls
  <2> HIDE DEF c
  <2> QED
    BY <2>1, <2>2, <2>3, CallMoves
<1>2. CASE CurrentSample(t) # "badTargets"
  <2>1. /\ Free /\ holder' = t /\ toWrite' = BackwardOrder
        /\ train[t].at = "backward" /\ imports' = imports
        /\ UNCHANGED <<dataset, net, version, train, read>>
    BY <1>2 DEF BackwardLocks
  <2> QED
    BY <2>1, WriterLocks
<1> QED
  BY <1>1, <1>2

(* An array that is written is one the model was missing.                  *)
LEMMA BackwardWritesKeeps ==
  ASSUME TrainingInv, NEW t \in Trainers, BackwardWrites(t) PROVE TrainingInv'
<1>1. ~Free /\ Rewritten(net[Head(toWrite)]) = Update(t, Head(toWrite))
  BY TrainingAssumption DEF Free, BackwardWrites, Rewritten, Update
<1> QED
  BY <1>1, WriterWrites DEF BackwardWrites

(* An import that takes the lock has yet to write all four arrays.         *)
LEMMA ImportLocksKeeps == ASSUME TrainingInv, ImportLocks PROVE TrainingInv'
BY WriterLocks DEF ImportLocks

(* An array that is imported is one the model was missing.                 *)
LEMMA ImportWritesKeeps == ASSUME TrainingInv, ImportWrites PROVE TrainingInv'
<1>1. ~Free /\ Rewritten(net[Head(toWrite)]) = Imported(imports)
  BY TrainingAssumption DEF Free, ImportWrites, Rewritten
<1> QED
  BY <1>1, WriterWrites DEF ImportWrites

(* An import that is refused changes nothing.                              *)
LEMMA ImportRefusedKeeps == ASSUME TrainingInv, ImportRefused PROVE TrainingInv'
<1> USE DEF TrainingInv, ImportRefused
<1>1. imports \in Nat /\ imports' \in 0..MaxImports
  BY TrainingAssumption DEF TrainingTypes, TrainingTypeOK
<1>2. TrainingTypes'
  BY <1>1 DEF TrainingTypes, TrainingTypeOK, Free, Models
<1>3. CallsInOrder' /\ WritesOnce' /\ ReturnsAreWhole'
  BY DEF CallsInOrder, WritesOnce, ReturnsAreWhole
<1>4. PICK base \in Lineages : Settled(base) /\ Accounted(base)
  OBVIOUS
<1>5. Settled(base)'
  BY <1>4, TrainingAssumption DEF Settled, Free, Pending
<1>6. Accounted(base)'
  <2>1. base.from \in Nat /\ holder # "import"
    BY TrainingAssumption DEF Lineages, Free
  <2> QED
    BY <1>1, <1>4, <2>1 DEF Accounted, Progress
<1>7. (\A r \in Readers : OneModel(read[r]))'
  OBVIOUS
<1> QED
  BY <1>2, <1>3, <1>5, <1>6, <1>7

(* An update has been written: the call goes on to the next sample, the    *)
(* next epoch or the end.                                                  *)
LEMMA UnlockMoves ==
  ASSUME TrainingInv, NEW t \in Trainers, BackwardUnlocks(t)
  PROVE  LET c == train'[t]
             L == Len(dataset)
         IN  /\ train[t].epoch \in Nat /\ train[t].epoch < Epochs[t]
             /\ Epochs[t] \in Nat /\ train[t].next \in 1..L /\ L \in Nat
             /\ \A u \in Trainers \ {t} : train'[u] = train[u]
             /\ c \in Calls /\ c.began = train[t].began /\ c.output = train[t].output
             /\ c.at \in {"forward", "export"} /\ c.epoch \in 0..Epochs[t]
             /\ c.at = "forward" => c.next \in 1..L /\ c.epoch < Epochs[t]
             /\ c.at = "export" => c.epoch = Epochs[t] /\ c.next = 1
             /\ Progress(t)' = Progress(t) + 1
             /\ \A u \in Trainers \ {t} : Progress(u)' = Progress(u)
<1> USE DEF TrainingInv
<1> DEFINE L == Len(dataset)
           c == train'[t]
<1>1. train[t] \in Calls /\ train[t].at = "backward" /\ holder = t /\ toWrite = <<>>
  BY DEF TrainingTypes, BackwardUnlocks
<1>2. train[t].epoch \in Nat /\ train[t].epoch < Epochs[t] /\ Epochs[t] \in Nat
      /\ train[t].next \in 1..L /\ L \in Nat
  BY <1>1, TrainingAssumption, LenProperties
  DEF TrainingTypes, TrainingTypeOK, CallsInOrder, Calls
<1>3. \A u \in Trainers \ {t} : train'[u] = train[u]
  BY DEF BackwardUnlocks, TrainingTypes
<1>4. /\ c \in Calls /\ c.began = train[t].began /\ c.output = train[t].output
      /\ c.at \in {"forward", "export"} /\ c.epoch \in 0..Epochs[t]
      /\ c.at = "forward" => c.next \in 1..L /\ c.epoch < Epochs[t]
      /\ c.at = "export" => c.epoch = Epochs[t] /\ c.next = 1
      /\ c.epoch * L + c.next - 1 = train[t].epoch * L + train[t].next - 1 + 1
  <2>1. CASE train[t].next < L
    <3>1. c = [train[t] EXCEPT !.at = "forward", !.next = train[t].next + 1]
      BY <2>1 DEF BackwardUnlocks, TrainingTypes
    <3>2. /\ c \in Calls /\ c.began = train[t].began /\ c.output = train[t].output
          /\ c.at = "forward" /\ c.epoch = train[t].epoch /\ c.next = train[t].next + 1
      <4>1. train[t].next + 1 \in Nat \ {0}
        BY <1>2
      <4> HIDE DEF c, L, TrainingInv
      <4> QED
        BY <1>1, <3>1, <4>1 DEF Calls
    <3>3. \A m \in Int, n \in Int : m + (n + 1) - 1 = m + n - 1 + 1
      OBVIOUS
    <3>4. c.epoch * L + c.next - 1 = train[t].epoch * L + train[t].next - 1 + 1
      <4>1. train[t].epoch * L \in Int /\ train[t].next \in Int
        BY <1>2
      <4> HIDE DEF c, L
      <4> QED
        BY <3>2, <3>3, <4>1, Zenon
    <3>5. c.next \in 1..L /\ c.epoch \in 0..Epochs[t] /\ c.epoch < Epochs[t]
      BY <1>2, <2>1, <3>2
    <3> HIDE DEF c, L
    <3> QED
      BY <3>2, <3>4, <3>5
  <2>2. CASE ~(train[t].next < L)
    <3> DEFINE at == IF train[t].epoch + 1 < Epochs[t] THEN "forward" ELSE "export"
    <3>1. c = [train[t] EXCEPT !.at = at, !.epoch = train[t].epoch + 1, !.next = 1]
      BY <2>2 DEF BackwardUnlocks, TrainingTypes
    <3>2. /\ c \in Calls /\ c.began = train[t].began /\ c.output = train[t].output
          /\ c.at = at /\ c.epoch = train[t].epoch + 1 /\ c.next = 1
      <4>1. train[t].epoch + 1 \in Nat /\ at \in {"forward", "export"}
        BY <1>2
      <4>2. \A r \in Calls, a \in {"forward", "export"}, e \in Nat, n \in Nat \ {0} :
              [r EXCEPT !.at = a, !.epoch = e, !.next = n] \in Calls
        BY DEF Calls
      <4> HIDE DEF c, L, at, TrainingInv
      <4>3. 1 \in Nat \ {0}
        OBVIOUS
      <4>4. c \in Calls
        BY <1>1, <3>1, <4>1, <4>2, <4>3, Zenon
      <4>5. /\ c.began = train[t].began /\ c.output = train[t].output
            /\ c.at = at /\ c.epoch = train[t].epoch + 1 /\ c.next = 1
        BY <1>1, <3>1 DEF Calls
      <4> QED
        BY <4>4, <4>5
    <3>3. c.epoch * L + c.next - 1 = train[t].epoch * L + train[t].next - 1 + 1
      <4>1. train[t].next = L
        BY <1>2, <2>2
      <4>2. (train[t].epoch + 1) * L = L + train[t].epoch * L
        BY <1>2, OneMore
      <4>3. train[t].epoch * L \in Int /\ L \in Int
        BY <1>2
      <4> HIDE DEF c, L
      <4> DEFINE before == train[t].epoch * L
                 after == c.epoch * L
      <4>4. after = L + before
        BY <3>2, <4>2
      <4>5. before \in Int /\ c.next = 1
        BY <3>2, <4>3
      <4> HIDE DEF before, after
      <4>6. after + c.next - 1 = before + train[t].next - 1 + 1
        BY <4>1, <4>3, <4>4, <4>5
      <4> QED
        BY <4>6 DEF before, after
    <3>4. /\ c.epoch \in 0..Epochs[t]
          /\ c.at = "forward" => c.next \in 1..L /\ c.epoch < Epochs[t]
          /\ c.at = "export" => c.epoch = Epochs[t] /\ c.next = 1
          /\ c.at \in {"forward", "export"}
      BY <1>2, <2>2, <3>2
    <3> HIDE DEF c, L
    <3> QED
      BY <3>2, <3>3, <3>4
  <2> QED
    BY <2>1, <2>2
<1>6. dataset' = dataset
  BY DEF BackwardUnlocks
<1>7. /\ Progress(t)' = Progress(t) + 1
      /\ \A u \in Trainers \ {t} : Progress(u)' = Progress(u)
  <2>1. Progress(t)' = Progress(t) + 1
    BY <1>4, <1>6 DEF Progress
  <2> QED
    BY <1>3, <1>6, <2>1 DEF Progress
<1> QED
  BY <1>2, <1>3, <1>4, <1>7

(* The update counts for the training that made it, in the network and in  *)
(* its progress.                                                           *)
LEMMA BackwardUnlocksKeeps ==
  ASSUME TrainingInv, NEW t \in Trainers, BackwardUnlocks(t) PROVE TrainingInv'
<1> USE DEF TrainingInv
<1> DEFINE L == Len(dataset)
           c == train'[t]
<1>1. train[t] \in Calls /\ train[t].at = "backward" /\ holder = t /\ toWrite = <<>>
  BY DEF TrainingTypes, BackwardUnlocks
<1>2. train[t].epoch \in Nat /\ train[t].epoch < Epochs[t] /\ Epochs[t] \in Nat
      /\ train[t].next \in 1..L /\ L \in Nat
  BY UnlockMoves, Zenon
<1>3. \A u \in Trainers \ {t} : train'[u] = train[u]
  BY UnlockMoves, Zenon
<1>4. /\ c \in Calls /\ c.began = train[t].began /\ c.output = train[t].output
      /\ c.at \in {"forward", "export"} /\ c.epoch \in 0..Epochs[t]
      /\ c.at = "forward" => c.next \in 1..L /\ c.epoch < Epochs[t]
      /\ c.at = "export" => c.epoch = Epochs[t] /\ c.next = 1
  BY UnlockMoves, Zenon
<1>5. DOMAIN dataset = 1..L
  BY LenProperties DEF TrainingTypes, TrainingTypeOK
<1>6. dataset' = dataset /\ net' = net /\ version' = version + 1 /\ holder' = Nobody
      /\ toWrite' = <<>> /\ read' = read /\ imports' = imports /\ Free'
  BY <1>1 DEF BackwardUnlocks, Free
<1>7. /\ Progress(t)' = Progress(t) + 1
      /\ \A u \in Trainers \ {t} : Progress(u)' = Progress(u)
  BY UnlockMoves, Zenon
<1>8. DOMAIN train' = Trainers
  BY DEF BackwardUnlocks, TrainingTypes
<1>9. PICK base \in Lineages : Settled(base) /\ Accounted(base)
  OBVIOUS
<1> DEFINE new == Updated(base, t)
<1>10. /\ new \in Lineages /\ new.from = base.from
       /\ \A u \in Trainers : new.updates[u] = base.updates[u] + (IF u = t THEN 1 ELSE 0)
       /\ AllUpdates(new) = AllUpdates(base) + 1 /\ AllUpdates(base) \in Int
  BY UpdatedLineage
<1>11. Rewritten(base) = new /\ ~Free /\ Pending = {}
  BY <1>1, TrainingAssumption DEF Rewritten, Free, Pending
<1>12. \A a \in Arrays : net[a] = new
  BY <1>9, <1>11 DEF Settled
<1> HIDE DEF c, L, new
<1>13. TrainingTypes'
  <2>1. train' \in [Trainers -> Calls]
    <3>1. \A u \in Trainers : train'[u] \in Calls
      BY <1>3, <1>4 DEF c, TrainingTypes
    <3>2. train' = [u \in Trainers |-> train'[u]]
      BY DEF BackwardUnlocks, TrainingTypes
    <3> QED
      BY <3>1, <3>2
  <2>2. version' \in Nat
    BY <1>6 DEF TrainingTypes, TrainingTypeOK
  <2>3. \A u \in Trainers :
          /\ train'[u].at \in {"start", "forward", "backward", "export", "returned", "failed"}
          /\ train'[u].epoch \in 0..Epochs[u] /\ train'[u].next \in Nat \ {0}
          /\ train'[u].at \in {"forward", "backward"} => train'[u].next \in DOMAIN dataset
          /\ train'[u].output \in Lineages
    <3> SUFFICES ASSUME NEW u \in Trainers
                 PROVE /\ train'[u].at \in {"start", "forward", "backward", "export", "returned", "failed"}
                       /\ train'[u].epoch \in 0..Epochs[u] /\ train'[u].next \in Nat \ {0}
                       /\ train'[u].at \in {"forward", "backward"} => train'[u].next \in DOMAIN dataset
                       /\ train'[u].output \in Lineages
      OBVIOUS
    <3>1. CASE u = t
      <4>1. c.next \in Nat \ {0} /\ c.output \in Lineages
        BY <1>4 DEF Calls
      <4> QED
        BY <1>4, <1>5, <3>1, <4>1 DEF c
    <3>2. CASE u # t
      BY <1>3, <3>2 DEF TrainingTypes, TrainingTypeOK
    <3> QED
      BY <3>1, <3>2
  <2>4. TrainingTypeOK'
    BY <1>6, <2>2, <2>3 DEF TrainingTypes, TrainingTypeOK, Free
  <2> QED
    BY <1>6, <2>1, <2>4 DEF TrainingTypes, Models
<1>14. CallsInOrder'
  <2>1. \A u \in Trainers \ {t} :
          /\ train'[u].at = "start" => train'[u].epoch = 0 /\ train'[u].next = 1
          /\ train'[u].at \in {"forward", "backward"} => train'[u].epoch < Epochs[u]
          /\ train'[u].at \in {"export", "returned"} => train'[u].epoch = Epochs[u] /\ train'[u].next = 1
    BY <1>3 DEF CallsInOrder
  <2>2. \A u \in Trainers : holder' # u
    BY <1>6, TrainingAssumption
  <2> QED
    BY <1>4, <2>1, <2>2 DEF CallsInOrder, c
<1>15. WritesOnce'
  BY <1>6, EmptySeq DEF WritesOnce
<1>16. Settled(new)'
  BY <1>6, <1>10, <1>12 DEF Settled
<1>17. Accounted(new)'
  <2>1. base.from \in Nat /\ new.from = base.from /\ version' = new.from + AllUpdates(new)
    BY <1>6, <1>9, <1>10 DEF Accounted, Lineages
  <2>2. \A u \in Trainers :
          /\ train'[u].began <= new.from
          /\ new.updates[u] <= Progress(u)'
          /\ train'[u].began = new.from => new.updates[u] = Progress(u)'
    <3> SUFFICES ASSUME NEW u \in Trainers
                 PROVE  /\ train'[u].began <= new.from
                        /\ new.updates[u] <= Progress(u)'
                        /\ train'[u].began = new.from => new.updates[u] = Progress(u)'
      OBVIOUS
    <3>1. base.updates[u] \in Nat /\ Progress(u) \in Nat
      BY ProgressIsNat DEF Lineages
    <3>2. CASE u = t
      BY <1>4, <1>7, <1>9, <1>10, <3>1, <3>2 DEF Accounted, c
    <3>3. CASE u # t
      BY <1>3, <1>7, <1>9, <1>10, <3>1, <3>3 DEF Accounted
    <3> QED
      BY <3>2, <3>3
  <2>3. new.from <= imports' /\ holder' # "import"
    BY <1>6, <1>9, <1>10, TrainingAssumption DEF Accounted
  <2> QED
    BY <2>1, <2>2, <2>3 DEF Accounted
<1>18. (\A r \in Readers : OneModel(read[r]))'
  BY <1>6
<1>19. ReturnsAreWhole'
  BY <1>3, <1>4, <1>6 DEF ReturnsAreWhole, c
<1> QED
  BY <1>10, <1>13, <1>14, <1>15, <1>16, <1>17, <1>18, <1>19

(* An import has been written: no training has begun with it yet.          *)
LEMMA ImportUnlocksKeeps == ASSUME TrainingInv, ImportUnlocks PROVE TrainingInv'
<1> USE DEF TrainingInv
<1>1. /\ holder = "import" /\ toWrite = <<>>
      /\ dataset' = dataset /\ net' = net /\ version' = imports /\ holder' = Nobody
      /\ toWrite' = <<>> /\ train' = train /\ read' = read /\ imports' = imports
      /\ Free' /\ ~Free /\ Pending = {}
  BY TrainingAssumption DEF ImportUnlocks, Free, Pending
<1>2. PICK base \in Lineages : Settled(base) /\ Accounted(base)
  OBVIOUS
<1>3. imports \in 0..MaxImports /\ imports \in Nat
  BY TrainingAssumption DEF TrainingTypes, TrainingTypeOK
<1> PICK new : new = Imported(imports)
  OBVIOUS
<1>4. new \in Lineages /\ new.from = imports /\ AllUpdates(new) = 0
      /\ \A t \in Trainers : new.updates[t] = 0
  BY <1>3, ImportedLineage
<1>5. \A a \in Arrays : net[a] = new
  BY <1>1, <1>2 DEF Settled, Rewritten
<1>6. TrainingTypes'
  BY <1>1, <1>3, TrainingAssumption DEF TrainingTypes, TrainingTypeOK, Models
<1>7. CallsInOrder'
  BY <1>1, TrainingAssumption DEF CallsInOrder
<1>8. WritesOnce'
  BY <1>1, EmptySeq DEF WritesOnce
<1>9. Settled(new)'
  BY <1>1, <1>4, <1>5 DEF Settled
<1>10. Accounted(new)'
  <2>1. \A t \in Trainers :
          train[t].began < imports /\ 0 <= Progress(t) /\ Progress(t)' = Progress(t)
    <3> SUFFICES ASSUME NEW t \in Trainers
                 PROVE  train[t].began < imports /\ 0 <= Progress(t)
                        /\ Progress(t)' = Progress(t)
      OBVIOUS
    <3>1. train[t].began <= base.from /\ base.from < imports
      BY <1>1, <1>2 DEF Accounted
    <3>2. train[t].began \in Nat /\ base.from \in Nat
      BY DEF TrainingTypes, Calls, Lineages
    <3>3. Progress(t) \in Nat
      BY ProgressIsNat
    <3> QED
      BY <1>1, <1>3, <3>1, <3>2, <3>3 DEF Progress
  <2>2. \A t \in Trainers : train[t].began \in Nat
    BY DEF TrainingTypes, Calls
  <2> HIDE DEF TrainingInv
  <2> QED
    BY <1>1, <1>3, <1>4, <2>1, <2>2, TrainingAssumption DEF Accounted
<1>11. (\A r \in Readers : OneModel(read[r]))' /\ ReturnsAreWhole'
  BY <1>1 DEF ReturnsAreWhole
<1> QED
  BY <1>4, <1>6, <1>7, <1>8, <1>9, <1>10, <1>11

(* The window grows before any training starts.                            *)
LEMMA WindowGrows ==
  ASSUME TrainingInv, Collecting, dataset' \in Seq(Samples),
         UNCHANGED <<net, version, holder, toWrite, train, read, imports>>
  PROVE  TrainingInv'
<1> USE DEF TrainingInv
<1>1. \A t \in Trainers : train[t].at = "start" /\ train[t].epoch = 0 /\ train[t].next = 1
  BY DEF Collecting, CallsInOrder
<1>2. \A t \in Trainers : Progress(t) = 0 /\ Progress(t)' = 0
  <2>1. Len(dataset) \in Nat /\ Len(dataset') \in Nat
    BY LenProperties DEF TrainingTypes, TrainingTypeOK
  <2> QED
    BY <1>1, <2>1 DEF Progress
<1>3. TrainingTypes'
  BY <1>1 DEF TrainingTypes, TrainingTypeOK, Free, Models
<1>4. CallsInOrder' /\ WritesOnce' /\ ReturnsAreWhole'
  BY <1>1 DEF CallsInOrder, WritesOnce, ReturnsAreWhole
<1>5. PICK base \in Lineages : Settled(base) /\ Accounted(base)
  OBVIOUS
<1>6. Settled(base)' /\ Accounted(base)'
  BY <1>2, <1>5 DEF Settled, Accounted, Free, Pending, Rewritten
<1>7. (\A r \in Readers : OneModel(read[r]))'
  OBVIOUS
<1> QED
  BY <1>3, <1>4, <1>6, <1>7

(* The selection of a target does not touch the network.                   *)
LEMMA TrainingRests == ASSUME TrainingInv, UNCHANGED training PROVE TrainingInv'
<1> USE DEF TrainingInv, training
<1>1. TrainingTypes' /\ CallsInOrder' /\ WritesOnce' /\ ReturnsAreWhole'
  BY DEF TrainingTypes, TrainingTypeOK, Free, Models, CallsInOrder, WritesOnce,
         ReturnsAreWhole
<1>2. PICK base \in Lineages : Settled(base) /\ Accounted(base)
  OBVIOUS
<1>3. Settled(base)' /\ Accounted(base)'
  BY <1>2 DEF Settled, Accounted, Free, Pending, Rewritten, Progress
<1>4. (\A r \in Readers : OneModel(read[r]))'
  OBVIOUS
<1> QED
  BY <1>1, <1>3, <1>4

(* Every step of the network keeps its invariant.                          *)
LEMMA TrainingKeeps == ASSUME TrainingInv, TrainingNext PROVE TrainingInv'
<1>1. CASE \E t \in Trainers : TrainerStep(t)
  BY <1>1, BeginTrainingKeeps, ForwardKeeps, BackwardLocksKeeps, BackwardWritesKeeps,
     BackwardUnlocksKeeps, CancelledKeeps, ReturnKeeps DEF TrainerStep
<1>2. CASE \E r \in Readers : Read(r)
  BY <1>2, ReadKeeps
<1>3. CASE ImporterStep
  BY <1>3, ImportRefusedKeeps, ImportLocksKeeps, ImportWritesKeeps, ImportUnlocksKeeps
  DEF ImporterStep
<1> QED
  BY <1>1, <1>2, <1>3 DEF TrainingNext

(* The inductive invariant of the shared network (tiny_network.go:172-384): *)
(* what has been written of the model the writer is making, and what the   *)
(* version and the progress of the trainings say of it.                    *)
THEOREM NetworkInvariant == Spec => []TrainingInv
<1>1. Init => TrainingInv
  BY TrainingStarts DEF Init
<1>2. TrainingInv /\ [Next]_vars => TrainingInv'
  <2> SUFFICES ASSUME TrainingInv, [Next]_vars PROVE TrainingInv'
    OBVIOUS
  <2>1. CASE Select
    BY <2>1, TrainingRests DEF Select
  <2>2. CASE Observe
    <3>1. dataset' \in Seq(Samples)
      <4>1. dataset \in Seq(Samples) /\ "good" \in Samples
        BY DEF TrainingInv, TrainingTypes, TrainingTypeOK, Samples
      <4> HIDE DEF Samples
      <4> QED
        BY <2>2, <4>1, AppendProperties DEF Observe
    <3> QED
      BY <2>2, <3>1, WindowGrows DEF Observe
  <2>3. CASE Give
    <3>1. dataset' \in Seq(Samples)
      <4>1. dataset \in Seq(Samples) /\ Given \subseteq Samples
        BY GivenAssumption DEF TrainingInv, TrainingTypes, TrainingTypeOK
      <4>2. PICK s \in Given : dataset' = Append(dataset, s)
        BY <2>3 DEF Give
      <4> QED
        BY <4>1, <4>2, AppendProperties
    <3> QED
      BY <2>3, <3>1, WindowGrows DEF Give
  <2>4. CASE Then(TrainingNext)
    BY <2>4, TrainingKeeps DEF Then
  <2>5. CASE UNCHANGED vars
    BY <2>5, TrainingRests DEF vars
  <2> QED
    BY <2>1, <2>2, <2>3, <2>4, <2>5 DEF Next
<1> QED
  BY <1>1, <1>2, PTL DEF Spec

(* Nobody predicts with, exports or returns a half-written model, however  *)
(* many trainings, readers and imports share the network                   *)
(* (tiny_network.go:172, 322-374, 384).                                    *)
THEOREM NobodySeesHalfAModel == Spec => []ModelsAreWhole
<1>1. TrainingInv => ModelsAreWhole
  BY DEF TrainingInv, ReturnsAreWhole, ModelsAreWhole
<1> QED
  BY <1>1, NetworkInvariant, PTL

(* Between two writers the network holds each training's own updates, all  *)
(* of those it has made since it began with the network's last import, and *)
(* a training returns a model with every one of them                       *)
(* (tiny_network.go:289-316).                                              *)
THEOREM NoUpdateIsLost == Spec => []UpdatesAreKept
<1>1. TrainingInv => UpdatesAreKept
  <2> SUFFICES ASSUME TrainingInv PROVE UpdatesAreKept
    OBVIOUS
  <2>1. ReturnsAreWhole
    BY DEF TrainingInv
  <2> QED
    BY <2>1, FreeIsWhole DEF ReturnsAreWhole, UpdatesAreKept
<1> QED
  BY <1>1, NetworkInvariant, PTL

-----------------------------------------------------------------------------
(* The scan for the best candidate *)

Scored == [kind : {"scored"}, set : Fields, objective : Nat, energy : Nat]

(* What is left of a scan: the candidates it was offered, the one it holds *)
(* for best and the target made of it.                                     *)
Scan ==
  /\ deployed \in Deployed \cup {Nothing}
  /\ deployed = Nothing => offered = <<>> /\ best = Nothing /\ sample = Nothing
  /\ offered \in Seq(Scored) /\ Len(offered) <= MaxOffered
  /\ \A i \in DOMAIN offered : offered[i].set \in Candidates(deployed)
  /\ offered = <<>> => best = Nothing
  /\ offered # <<>> => \E i \in DOMAIN offered : best = offered[i]
  /\ sample # Nothing => best # Nothing /\ sample = Target(best.set, deployed)

(* The inductive invariant of the scan.                                    *)
ScanInv == Scan /\ NearOptimal /\ OrderIndependent

(* Nothing is neither a set, nor a candidate, nor a target.                *)
LEMMA NothingIsNone ==
  /\ Nothing \notin Fields /\ Nothing \notin Scored
  /\ \A p, base : Target(p, base) # Nothing
<1>1. DOMAIN Nothing = {"kind"}
  BY DEF Nothing
<1>2. \A p \in Fields : DOMAIN p = {"mesh", "low", "high", "factor", "beat"}
  BY DEF Fields
<1>3. \A c \in Scored : c.kind = "scored"
  BY DEF Scored
<1>4. \A p, base : Target(p, base).kind = "target"
  BY DEF Target
<1>5. Nothing.kind = "nothing"
  BY DEF Nothing
<1> QED
  BY <1>1, <1>2, <1>3, <1>4, <1>5

(* Whatever a set is built around, it is one.                              *)
LEMMA AroundIsFields ==
  ASSUME NEW mesh \in Int, NEW factor \in Int, NEW beat \in Int
  PROVE  /\ Around(mesh, factor, beat) \in Fields
         /\ Around(mesh, factor, beat).mesh = Clamp(mesh, MinMesh, MaxMesh)
         /\ Around(mesh, factor, beat).factor = Clamp(factor, MinFactor, MaxFactor)
         /\ Around(mesh, factor, beat).beat = Clamp(beat, MinBeat, MaxBeat)
<1> DEFINE m == Clamp(mesh, MinMesh, MaxMesh)
           f == Clamp(factor, MinFactor, MaxFactor)
           b == Clamp(beat, MinBeat, MaxBeat)
<1>1. m \in Nat /\ m <= MaxMesh /\ f \in Nat /\ b \in Nat
  BY BoundsAssumption DEF Clamp
<1>2. m \div 2 \in Nat
  BY <1>1
<1> HIDE DEF m, f, b
<1>3. Clamp(m \div 2, MinMesh, m) \in Nat /\ Clamp(m + 4, m, MaxMesh) \in Nat
  BY <1>1, <1>2, BoundsAssumption DEF Clamp
<1>4. Around(mesh, factor, beat) =
        [mesh |-> m, low |-> Clamp(m \div 2, MinMesh, m),
         high |-> Clamp(m + 4, m, MaxMesh), factor |-> f, beat |-> b]
  BY DEF Around, m, f, b
<1> QED
  BY <1>1, <1>3, <1>4 DEF Fields, m, f, b

(* A candidate lies at most two mesh degrees, the span of the factor, and  *)
(* about a quarter of the interval away from the set it was made of.       *)
LEMMA CandidateIsNear ==
  ASSUME NEW d \in Fields, NEW p \in Candidates(d)
  PROVE  \E mesh \in {d.mesh - 2, d.mesh, d.mesh + 2},
            factor \in {d.factor - FactorSpan, d.factor, d.factor + FactorSpan},
            beat \in {(d.beat * 3) \div 4, d.beat, (d.beat * 5) \div 4} :
           /\ mesh \in Int /\ factor \in Int /\ beat \in Int
           /\ p = Around(mesh, factor, beat) /\ p \in Fields
<1>1. d.mesh \in Int /\ d.factor \in Int /\ d.beat \in Int
  BY DEF Fields
<1>2. \A mesh \in {d.mesh - 2, d.mesh, d.mesh + 2} : mesh \in Int
  BY <1>1
<1>3. \A factor \in {d.factor - FactorSpan, d.factor, d.factor + FactorSpan} : factor \in Int
  BY <1>1, RulesAssumption
<1>4. \A beat \in {(d.beat * 3) \div 4, d.beat, (d.beat * 5) \div 4} : beat \in Int
  BY <1>1
<1>5. PICK mesh \in {d.mesh - 2, d.mesh, d.mesh + 2},
           factor \in {d.factor - FactorSpan, d.factor, d.factor + FactorSpan},
           beat \in {(d.beat * 3) \div 4, d.beat, (d.beat * 5) \div 4} :
        p = Around(mesh, factor, beat)
  BY DEF Candidates
<1>6. mesh \in Int /\ factor \in Int /\ beat \in Int
  BY <1>2, <1>3, <1>4
<1>7. p \in Fields
  BY <1>5, <1>6, AroundIsFields
<1> QED
  BY <1>5, <1>6, <1>7

(* The magnitude of a change is a number.                                  *)
LEMMA MagnitudeIsInt ==
  ASSUME deployed \in Fields, NEW p \in Fields PROVE Magnitude(p) \in Int
<1> DEFINE span == IF FactorSpan = 0 THEN 1 ELSE FactorSpan
           quarter == Quarter(deployed.beat)
           m == Distance(p.mesh, deployed.mesh)
           f == Distance(p.factor, deployed.factor)
           b == Distance(p.beat, deployed.beat)
<1>1. m \in Int /\ f \in Int /\ b \in Int
  BY DEF Distance, Fields
<1>2. span \in Int /\ quarter \in Int
  BY RulesAssumption DEF Quarter, Fields
<1>3. Magnitude(p) = m * span * quarter + 2 * f * quarter + 2 * b * span
  BY DEF Magnitude
<1> HIDE DEF m, f, b, span, quarter
<1>4. \A x, y \in Int : x * y \in Int
  OBVIOUS
<1>5. m * span \in Int /\ f * quarter \in Int /\ b * span \in Int
  BY <1>1, <1>2, <1>4
<1>6. m * span * quarter \in Int /\ 2 * f * quarter \in Int /\ 2 * b * span \in Int
  BY <1>1, <1>2, <1>4, <1>5
<1> QED
  BY <1>3, <1>6

(* The order of priorities is transitive, and of two scores that are not   *)
(* nearly tied the scan prefers the one that is less in it.                *)
LEMMA LessTransitive ==
  ASSUME deployed \in Fields, NEW a \in Scored, NEW b \in Scored, NEW c \in Scored,
         Lexicographic(a, b), Lexicographic(b, c)
  PROVE  Lexicographic(a, c)
<1>1. Magnitude(a.set) \in Int /\ Magnitude(b.set) \in Int /\ Magnitude(c.set) \in Int
  BY MagnitudeIsInt DEF Scored
<1>2. \A s \in Scored : /\ s.objective \in Nat /\ s.energy \in Nat
                        /\ s.set.mesh \in Nat /\ s.set.factor \in Nat /\ s.set.beat \in Nat
  BY DEF Scored, Fields
<1>3. Precedes(a.set, b.set) /\ Precedes(b.set, c.set) => Precedes(a.set, c.set)
  BY <1>2 DEF Precedes
<1> QED
  BY <1>1, <1>2, <1>3 DEF Lexicographic

(* The order of candidates is strict.                                      *)
LEMMA NothingLessThanItself ==
  ASSUME deployed \in Fields, NEW a \in Scored PROVE ~Lexicographic(a, a)
<1>1. Magnitude(a.set) \in Int
  BY MagnitudeIsInt DEF Scored
<1>2. /\ a.objective \in Nat /\ a.energy \in Nat
      /\ a.set.mesh \in Nat /\ a.set.factor \in Nat /\ a.set.beat \in Nat
  BY DEF Scored, Fields
<1> QED
  BY <1>1, <1>2 DEF Lexicographic, Precedes

(* Candidates that are not nearly tied are ordered as the comment of       *)
(* candidateLess says (target.go:63-73).                                   *)
LEMMA LessIsLexicographic ==
  ASSUME deployed \in Fields, NEW a \in Scored, NEW b \in Scored, ~NearlyTied(a, b)
  PROVE  CandidateLess(a, b) <=> Lexicographic(a, b)
<1>1. Magnitude(a.set) \in Int /\ Magnitude(b.set) \in Int
  BY MagnitudeIsInt DEF Scored
<1>2. /\ a.objective \in Nat /\ a.energy \in Nat
      /\ b.objective \in Nat /\ b.energy \in Nat /\ Tolerance \in Nat
  BY SelectionAssumption DEF Scored
<1>3. /\ Differ(a.objective, b.objective) <=> a.objective # b.objective
      /\ Differ(a.energy, b.energy) <=> a.energy # b.energy
  BY <1>2 DEF NearlyTied, Differ, Distance
<1> QED
  BY <1>1, <1>2, <1>3 DEF CandidateLess, Lexicographic

(* One comparison costs one tolerance at most.                             *)
LEMMA LessWithinTolerance ==
  ASSUME NEW a \in Scored, NEW b \in Scored
  PROVE  /\ CandidateLess(a, b) => a.objective <= b.objective + Tolerance
         /\ ~CandidateLess(a, b) => b.objective <= a.objective + Tolerance
<1>1. a.objective \in Nat /\ b.objective \in Nat /\ Tolerance \in Nat
  BY SelectionAssumption DEF Scored
<1> QED
  BY <1>1 DEF CandidateLess, Differ, Distance

(* One more candidate: the best so far is still at most one tolerance for  *)
(* each candidate but the first away from any of them.                     *)
LEMMA EvaluateKeepsOptimal ==
  ASSUME ScanInv, NEW new \in Scored,
         offered' = Append(offered, new),
         best' = IF best = Nothing \/ CandidateLess(new, best) THEN new ELSE best
  PROVE  NearOptimal'
<1> USE DEF ScanInv, Scan
<1> DEFINE n == Len(offered)
<1>1. n \in Nat /\ DOMAIN offered = 1..n
  BY LenProperties
<1>2. /\ Len(offered') = n + 1 /\ DOMAIN offered' = 1..(n + 1)
      /\ offered'[n + 1] = new /\ \A i \in 1..n : offered'[i] = offered[i]
  BY <1>1, AppendProperties
<1>3. Tolerance \in Nat /\ new.objective \in Nat
  BY SelectionAssumption DEF Scored
<1>4. \A i \in 1..n : offered[i] \in Scored /\ offered[i].objective \in Nat
  <2>1. \A i \in 1..n : offered[i] \in Scored
    BY <1>1, ElementOfSeq
  <2> QED
    BY <2>1 DEF Scored
<1> HIDE DEF n
<1>5. CASE offered = <<>>
  <2>1. n = 0 /\ best' = new
    BY <1>5 DEF n
  <2>2. (n + 1 - 1) * Tolerance = 0
    BY <1>3, <2>1
  <2> QED
    BY <1>2, <1>3, <2>1, <2>2 DEF NearOptimal
<1>6. CASE offered # <<>>
  <2>1. n >= 1 /\ best \in Scored /\ best # Nothing /\ best.objective \in Nat
    BY <1>1, <1>4, <1>6, EmptySeq, NothingIsNone DEF n, Scored
  <2> DEFINE slack == (n - 1) * Tolerance
  <2>2. slack \in Nat /\ (n + 1 - 1) * Tolerance = slack + Tolerance
    <3>1. n - 1 \in Nat /\ n - 1 + 1 = n + 1 - 1
      BY <1>1, <2>1
    <3>2. (n - 1 + 1) * Tolerance = Tolerance + (n - 1) * Tolerance
      BY <1>3, <3>1, OneMore
    <3>3. (n - 1) * Tolerance \in Nat
      BY <1>3, <3>1
    <3> QED
      BY <1>3, <3>1, <3>2, <3>3
  <2>3. \A i \in 1..n : best.objective <= offered[i].objective + slack
    BY <1>1 DEF NearOptimal, n
  <2> HIDE DEF slack
  <2>4. best'.objective \in Nat /\ best'.objective <= best.objective + Tolerance
        /\ best'.objective <= new.objective + Tolerance
    BY <1>3, <2>1, LessWithinTolerance
  <2>5. \A i \in 1..n : best'.objective <= offered[i].objective + (slack + Tolerance)
    <3> TAKE i \in 1..n
    <3> DEFINE o == offered[i].objective
    <3>1. o \in Nat /\ best.objective <= o + slack
      BY <1>4, <2>3
    <3> HIDE DEF o
    <3>2. best'.objective <= o + (slack + Tolerance)
      BY <1>3, <2>1, <2>2, <2>4, <3>1
    <3> QED
      BY <3>2 DEF o
  <2>6. best'.objective <= new.objective + (slack + Tolerance)
    BY <1>3, <2>2, <2>4
  <2>7. \A i \in DOMAIN offered' :
          best'.objective <= offered'[i].objective + (slack + Tolerance)
    <3> TAKE i \in DOMAIN offered'
    <3>1. i \in 1..n \/ i = n + 1
      BY <1>1, <1>2
    <3> QED
      BY <1>2, <2>5, <2>6, <3>1
  <2>8. (Len(offered') - 1) * Tolerance = slack + Tolerance
    <3>1. Len(offered') - 1 = n + 1 - 1
      BY <1>1, <1>2
    <3> QED
      BY <2>2, <3>1, Zenon
  <2> HIDE DEF ScanInv
  <2> QED
    BY <2>7, <2>8 DEF NearOptimal
<1> QED
  BY <1>5, <1>6

(* And it is the least exactly, if no two of them are nearly tied.         *)
LEMMA EvaluateKeepsLeast ==
  ASSUME ScanInv, deployed \in Fields, NEW new \in Scored,
         offered' = Append(offered, new), deployed' = deployed,
         best' = IF best = Nothing \/ CandidateLess(new, best) THEN new ELSE best
  PROVE  OrderIndependent'
<1> USE DEF ScanInv, Scan
<1> DEFINE n == Len(offered)
<1>1. n \in Nat /\ DOMAIN offered = 1..n
  BY LenProperties
<1>2. /\ DOMAIN offered' = 1..(n + 1)
      /\ offered'[n + 1] = new /\ \A i \in 1..n : offered'[i] = offered[i]
  BY <1>1, AppendProperties
<1>3. \A i \in 1..n : offered[i] \in Scored
  BY <1>1, ElementOfSeq
<1>4. ASSUME \A i, j \in DOMAIN offered' : ~NearlyTied(offered'[i], offered'[j])
      PROVE  \A i \in DOMAIN offered' : ~Lexicographic(offered'[i], best')
  <2> HIDE DEF n
  <2>1. CASE offered = <<>>
    <3>1. n = 0 /\ best' = new
      BY <2>1 DEF n
    <3> QED
      BY <1>2, <3>1, NothingLessThanItself
  <2>2. CASE offered # <<>>
    <3>1. PICK k \in 1..n : best = offered[k]
      BY <1>1, <2>2
    <3>2. best \in Scored /\ best # Nothing /\ ~NearlyTied(new, best)
      <4>1. ~NearlyTied(offered'[n + 1], offered'[k])
        BY <1>1, <1>2, <1>4
      <4> QED
        BY <1>2, <1>3, <3>1, <4>1, NothingIsNone
    <3>3. \A i \in 1..n : ~Lexicographic(offered[i], best)
      <4>1. \A i, j \in DOMAIN offered : ~NearlyTied(offered[i], offered[j])
        BY <1>1, <1>2, <1>4
      <4> QED
        BY <1>1, <4>1 DEF OrderIndependent
    <3>4. CandidateLess(new, best) <=> Lexicographic(new, best)
      BY <3>2, LessIsLexicographic
    <3>5. \A i \in 1..n : ~Lexicographic(offered[i], best')
      BY <1>3, <3>2, <3>3, <3>4, LessTransitive
    <3>6. ~Lexicographic(new, best')
      BY <3>2, <3>4, NothingLessThanItself
    <3> QED
      <4> TAKE i \in DOMAIN offered'
      <4>1. i \in 1..n \/ i = n + 1
        BY <1>1, <1>2
      <4> QED
        BY <1>2, <3>5, <3>6, <4>1
  <2> QED
    BY <2>1, <2>2
<1>5. \A i, j \in DOMAIN offered' :
        NearlyTied(offered[i], offered[j])' <=> NearlyTied(offered'[i], offered'[j])
  BY DEF NearlyTied
<1>6. \A i \in DOMAIN offered' :
        Lexicographic(offered[i], best)' <=> Lexicographic(offered'[i], best')
  BY DEF Lexicographic, Magnitude
<1> HIDE DEF ScanInv
<1> QED
  BY <1>4, <1>5, <1>6, Zenon DEF OrderIndependent

(* The scan starts without a best candidate.                               *)
LEMMA ScanStarts ==
  ASSUME deployed = Nothing, offered = <<>>, best = Nothing, sample = Nothing
  PROVE  ScanInv
<1>1. offered \in Seq(Scored) /\ DOMAIN offered = {} /\ Len(offered) = 0
  BY EmptySeq
<1> QED
  BY <1>1, SelectionAssumption DEF ScanInv, Scan, NearOptimal, OrderIndependent

(* Trainings do not touch the scan.                                        *)
LEMMA ScanRests == ASSUME ScanInv, UNCHANGED selection PROVE ScanInv'
BY DEF ScanInv, Scan, NearOptimal, OrderIndependent, selection, NearlyTied, Lexicographic,
       Magnitude

(* Each step of the selection keeps the invariant of the scan.             *)
LEMMA SelectionKeeps == ASSUME ScanInv, SelectionNext PROVE ScanInv'
<1>1. CASE Generate
  <2>1. deployed' \in Fields /\ deployed' # Nothing
    BY <1>1, SelectionAssumption, NothingIsNone DEF Generate
  <2>2. DOMAIN offered = {} /\ Len(offered) = 0 /\ offered \in Seq(Scored)
    BY <1>1, EmptySeq DEF Generate, ScanInv, Scan
  <2>3. Scan'
    BY <1>1, <2>1, <2>2 DEF Generate, ScanInv, Scan
  <2>4. NearOptimal' /\ OrderIndependent'
    BY <1>1, <2>2 DEF Generate, NearOptimal, OrderIndependent
  <2> QED
    BY <2>3, <2>4 DEF ScanInv
<1>2. CASE Evaluate
  <2>1. deployed \in Fields /\ sample = Nothing
    BY <1>2, SelectionAssumption DEF Evaluate, ScanInv, Scan
  <2>2. PICK set \in Candidates(deployed), score \in Scores :
          LET new == [kind |-> "scored", set |-> set, objective |-> score.objective,
                      energy |-> score.energy]
          IN  /\ offered' = Append(offered, new)
              /\ best' = IF best = Nothing \/ CandidateLess(new, best) THEN new ELSE best
    BY <1>2 DEF Evaluate
  <2> DEFINE new == [kind |-> "scored", set |-> set, objective |-> score.objective,
                     energy |-> score.energy]
  <2>3. set \in Fields
    BY <2>1, CandidateIsNear
  <2>4. new \in Scored /\ new.set \in Candidates(deployed)
    BY <2>3, SelectionAssumption DEF Scored
  <2>5. /\ offered' = Append(offered, new)
        /\ best' = IF best = Nothing \/ CandidateLess(new, best) THEN new ELSE best
        /\ deployed' = deployed /\ sample' = sample
    BY <1>2, <2>2 DEF Evaluate
  <2> HIDE DEF new
  <2>6. NearOptimal'
    BY <2>4, <2>5, EvaluateKeepsOptimal
  <2>7. OrderIndependent'
    BY <2>1, <2>4, <2>5, EvaluateKeepsLeast
  <2>8. Scan'
    <3> DEFINE n == Len(offered)
    <3>1. n \in Nat /\ DOMAIN offered = 1..n /\ offered \in Seq(Scored) /\ n < MaxOffered
      BY <1>2, LenProperties DEF Evaluate, ScanInv, Scan
    <3>2. /\ offered' \in Seq(Scored) /\ Len(offered') = n + 1
          /\ DOMAIN offered' = 1..(n + 1)
          /\ offered'[n + 1] = new /\ \A i \in 1..n : offered'[i] = offered[i]
      BY <2>4, <2>5, <3>1, AppendProperties
    <3> HIDE DEF n
    <3>3. Len(offered') <= MaxOffered /\ offered' # <<>>
      BY <3>1, <3>2, EmptySeq, SelectionAssumption
    <3>4. \A i \in DOMAIN offered' : offered'[i].set \in Candidates(deployed)
      <4> TAKE i \in DOMAIN offered'
      <4>1. i \in 1..n \/ i = n + 1
        BY <3>1, <3>2
      <4> QED
        BY <2>4, <3>1, <3>2, <4>1 DEF ScanInv, Scan
    <3>5. \E i \in DOMAIN offered' : best' = offered'[i]
      <4>1. CASE best' = new
        BY <3>1, <3>2, <4>1
      <4>2. CASE best' = best /\ best # Nothing
        <5>1. PICK i \in 1..n : best = offered[i]
          BY <3>1, <4>2 DEF ScanInv, Scan
        <5> QED
          BY <3>1, <3>2, <4>2, <5>1
      <4> QED
        BY <2>5, <4>1, <4>2
    <3>6. deployed' \in Deployed \cup {Nothing} /\ deployed' # Nothing
      BY <1>2, <2>5 DEF Evaluate, ScanInv, Scan
    <3> QED
      BY <2>1, <2>5, <3>2, <3>3, <3>4, <3>5, <3>6 DEF Scan
  <2> QED
    BY <2>6, <2>7, <2>8 DEF ScanInv
<1>3. CASE Choose
  <2>1. Scan'
    BY <1>3 DEF Choose, ScanInv, Scan
  <2>2. NearOptimal' /\ OrderIndependent'
    BY <1>3 DEF Choose, ScanInv, NearOptimal, OrderIndependent, NearlyTied, Lexicographic,
                Magnitude
  <2> QED
    BY <2>1, <2>2 DEF ScanInv
<1> QED
  BY <1>1, <1>2, <1>3 DEF SelectionNext

(* The inductive invariant of the scan (target.go:43-56): what the best of *)
(* the candidates offered so far is the best of, and what the target is    *)
(* made from.                                                              *)
THEOREM ScanInvariant == Spec => []ScanInv
<1>1. Init => ScanInv
  BY ScanStarts DEF Init, SelectionInit
<1>2. ScanInv /\ [Next]_vars => ScanInv'
  <2> SUFFICES ASSUME ScanInv, [Next]_vars PROVE ScanInv'
    OBVIOUS
  <2>1. CASE Select
    BY <2>1, SelectionKeeps DEF Select
  <2>2. CASE Observe
    <3>1. (deployed = Nothing /\ offered = <<>> /\ best = Nothing /\ sample = Nothing)'
      BY <2>2 DEF Observe
    <3>2. (deployed = Nothing /\ offered = <<>> /\ best = Nothing /\ sample = Nothing)'
            => ScanInv'
      BY ScanStarts, PTL
    <3> QED
      BY <3>1, <3>2
  <2>3. CASE UNCHANGED selection
    BY <2>3, ScanRests
  <2> QED
    BY <2>1, <2>2, <2>3 DEF Next, Give, Then, vars
<1> QED
  BY <1>1, <1>2, PTL DEF Spec

(* The scan has the best candidate of those it was offered: each of them   *)
(* after the first costs it one tolerance at most, and if no two of them   *)
(* are nearly tied it is exactly the least, in whatever order they came    *)
(* (target.go:43-56 and 63-73).                                            *)
THEOREM ScanFindsBest == Spec => []ChosenIsBest
<1>1. ScanInv => ChosenIsBest
  BY DEF ScanInv, ChosenIsBest
<1> QED
  BY <1>1, ScanInvariant, PTL

-----------------------------------------------------------------------------
(* The target made of the best candidate *)

(* The correction of the interval is scaled by the exact quarter b/4 where *)
(* Target has cut it at the quarter q that is rounded down.                *)
LEMMA ScaledBeat ==
  ASSUME NEW b \in Nat, b >= 4, NEW q \in Nat, q = b \div 4, NEW t \in -q..q
  PROVE  (4 * b * q + t * b) \div (4 * q)
           = IF t < 0 /\ b % 4 > 0 THEN b + t - 1 ELSE b + t
OBVIOUS

(* The interval of a candidate, in whole quarters rounded down.            *)
LEMMA BeatInQuarters ==
  ASSUME NEW b \in Nat, b >= 4
  PROVE  /\ (b * 3) \div 4 = b - b \div 4 - (IF b % 4 > 0 THEN 1 ELSE 0)
         /\ (b * 5) \div 4 = b + b \div 4
OBVIOUS

(* A set proposed around other values than it was made around is the same  *)
(* if the bounds cut the values to the same.                               *)
LEMMA AroundSame ==
  ASSUME NEW mesh \in Int, NEW factor \in Int, NEW beat \in Int,
         NEW mesh2 \in Int, NEW factor2 \in Int, NEW beat2 \in Int,
         Clamp(mesh2, MinMesh, MaxMesh) = Clamp(mesh, MinMesh, MaxMesh),
         Clamp(factor2, MinFactor, MaxFactor) = Clamp(factor, MinFactor, MaxFactor)
  PROVE  /\ [Around(mesh2, factor2, beat2) EXCEPT !.beat = 0]
              = [Around(mesh, factor, beat) EXCEPT !.beat = 0]
         /\ Clamp(beat2, MinBeat, MaxBeat) = Clamp(beat, MinBeat, MaxBeat) =>
              Around(mesh2, factor2, beat2) = Around(mesh, factor, beat)
<1> DEFINE m == Clamp(mesh, MinMesh, MaxMesh)
           f == Clamp(factor, MinFactor, MaxFactor)
           set(b) == [mesh |-> m, low |-> Clamp(m \div 2, MinMesh, m),
                      high |-> Clamp(m + 4, m, MaxMesh), factor |-> f, beat |-> b]
<1>1. Around(mesh, factor, beat) = set(Clamp(beat, MinBeat, MaxBeat))
  BY Zenon DEF Around
<1>2. Around(mesh2, factor2, beat2) = set(Clamp(beat2, MinBeat, MaxBeat))
  BY Zenon DEF Around
<1>3. \A b : [set(b) EXCEPT !.beat = 0] = set(0)
  OBVIOUS
<1> HIDE DEF m, f, set
<1> QED
  BY <1>1, <1>2, <1>3

(* A target that is made of the best candidate can be learned.             *)
LEMMA ScanIsLearnable == ScanInv => TargetIsLearnable
<1> SUFFICES ASSUME ScanInv, sample # Nothing PROVE TargetIsLearnable
  BY DEF TargetIsLearnable
<1> DEFINE d == deployed
           p == best.set
           t == Target(p, d)
           b == d.beat
           q == Quarter(b)
<1>1. d \in Fields /\ p \in Candidates(d) /\ sample = t
  BY SelectionAssumption DEF ScanInv, Scan
<1>2. PICK mesh \in {d.mesh - 2, d.mesh, d.mesh + 2},
           factor \in {d.factor - FactorSpan, d.factor, d.factor + FactorSpan},
           beat \in {(d.beat * 3) \div 4, d.beat, (d.beat * 5) \div 4} :
        /\ mesh \in Int /\ factor \in Int /\ beat \in Int
        /\ p = Around(mesh, factor, beat) /\ p \in Fields
  BY <1>1, CandidateIsNear
<1>3. /\ p.mesh = Clamp(mesh, MinMesh, MaxMesh)
      /\ p.factor = Clamp(factor, MinFactor, MaxFactor)
      /\ p.beat = Clamp(beat, MinBeat, MaxBeat)
  BY <1>2, AroundIsFields
<1>4. /\ t.mesh = Clamp(p.mesh - d.mesh, -2, 2)
      /\ t.factor = Clamp(p.factor - d.factor, -FactorSpan, FactorSpan)
      /\ t.beat = Clamp(p.beat - b, -q, q)
  BY DEF Target
<1>5. /\ d.mesh \in Nat /\ d.factor \in Nat /\ b \in Nat /\ q \in Nat
      /\ p.mesh \in Nat /\ p.factor \in Nat /\ p.beat \in Nat
  BY <1>1, <1>2 DEF Fields, Quarter
<1> DEFINE back == IF b < 4 THEN b + t.beat ELSE (4 * b * q + t.beat * b) \div (4 * q)
<1>6. Learned(t, d) = Around(d.mesh + t.mesh, d.factor + t.factor, back)
  BY Zenon DEF Learned
<1>7. t.mesh \in Int /\ t.factor \in Int /\ t.beat \in Int
  BY <1>4, <1>5, RulesAssumption DEF Clamp
<1>8. back \in Int
  <2>1. CASE b < 4
    BY <1>5, <1>7, <2>1
  <2>2. CASE ~(b < 4)
    <3>1. q >= 1
      BY <1>5, <2>2 DEF Quarter
    <3>2. \A x, y \in Int : x * y \in Int
      OBVIOUS
    <3>3. 4 * b * q + t.beat * b \in Int /\ 4 * q \in Nat \ {0}
      BY <1>5, <1>7, <3>1, <3>2
    <3>4. \A x \in Int, y \in Nat \ {0} : x \div y \in Int
      OBVIOUS
    <3> QED
      BY <2>2, <3>3, <3>4
  <2> QED
    BY <2>1, <2>2
<1> HIDE DEF d, p, t, b, q, back
<1>9. Clamp(d.mesh + t.mesh, MinMesh, MaxMesh) = Clamp(mesh, MinMesh, MaxMesh)
  <2>1. d.mesh - 2 <= mesh /\ mesh <= d.mesh + 2
    BY <1>2, <1>5
  <2>2. d.mesh \in Int /\ mesh \in Int /\ 2 \in Nat /\ MinMesh \in Int /\ MaxMesh \in Int
        /\ MinMesh <= MaxMesh
    BY <1>2, <1>5, BoundsAssumption
  <2>3. Clamp(d.mesh + Clamp(Clamp(mesh, MinMesh, MaxMesh) - d.mesh, -2, 2), MinMesh, MaxMesh)
          = Clamp(mesh, MinMesh, MaxMesh)
    BY <2>1, <2>2 DEF Clamp
  <2> QED
    BY <1>3, <1>4, <2>3
<1>10. Clamp(d.factor + t.factor, MinFactor, MaxFactor) = Clamp(factor, MinFactor, MaxFactor)
  <2>1. d.factor - FactorSpan <= factor /\ factor <= d.factor + FactorSpan
    BY <1>2, <1>5, RulesAssumption
  <2>2. d.factor \in Int /\ factor \in Int /\ FactorSpan \in Nat
        /\ MinFactor \in Int /\ MaxFactor \in Int /\ MinFactor <= MaxFactor
    BY <1>2, <1>5, BoundsAssumption, RulesAssumption
  <2>3. Clamp(d.factor + Clamp(Clamp(factor, MinFactor, MaxFactor) - d.factor,
                               -FactorSpan, FactorSpan), MinFactor, MaxFactor)
          = Clamp(factor, MinFactor, MaxFactor)
    BY <2>1, <2>2 DEF Clamp
  <2> QED
    BY <1>3, <1>4, <2>3
<1> DEFINE again == Clamp(back, MinBeat, MaxBeat)
<1>11. again \in Int
  BY <1>8, BoundsAssumption DEF Clamp
<1>12. Distance(again, p.beat) <= 1 /\ (p.beat \notin {MinBeat, MaxBeat} => again = p.beat)
  <2>1. CASE b < 4
    <3>1. q = 1 /\ back = b + t.beat
      BY <2>1 DEF q, back, Quarter
    <3>2. b - 1 <= beat /\ beat <= b + 1
      BY <1>2, <1>5, <2>1 DEF b
    <3>3. b \in Int /\ beat \in Int /\ 1 \in Nat /\ MinBeat \in Int /\ MaxBeat \in Int
          /\ MinBeat <= MaxBeat
      BY <1>2, <1>5, BoundsAssumption
    <3>4. Clamp(b + Clamp(Clamp(beat, MinBeat, MaxBeat) - b, -1, 1), MinBeat, MaxBeat)
            = Clamp(beat, MinBeat, MaxBeat)
      BY <3>2, <3>3 DEF Clamp
    <3>5. again = p.beat
      BY <1>3, <1>4, <3>1, <3>4
    <3> QED
      BY <1>5, <3>5 DEF Distance
  <2>2. CASE ~(b < 4)
    <3>1. q = b \div 4 /\ back = (4 * b * q + t.beat * b) \div (4 * q) /\ b >= 4
      BY <1>5, <2>2 DEF q, back, Quarter
    <3>2. beat \in {(b * 3) \div 4, b, (b * 5) \div 4}
      BY <1>2 DEF b
    <3>3. again = Clamp((4 * b * q + t.beat * b) \div (4 * q), MinBeat, MaxBeat)
      BY <3>1
    <3>4. p.beat \in Int /\ p.beat = Clamp(beat, MinBeat, MaxBeat)
          /\ t.beat \in Int /\ t.beat = Clamp(p.beat - b, -q, q) /\ b \in Nat /\ q \in Nat
      BY <1>3, <1>4, <1>5, <1>7
    <3> DEFINE r == b % 4
    <3>5. q >= 1 /\ r \in 0..3
      BY <3>1, <3>4
    <3>6. t.beat \in -q..q
      BY <3>4 DEF Clamp
    <3>7. again = Clamp(IF t.beat < 0 /\ r > 0 THEN b + t.beat - 1 ELSE b + t.beat,
                        MinBeat, MaxBeat)
      <4>1. b \in Nat /\ b >= 4 /\ q \in Nat /\ q = b \div 4
        BY <3>1, <3>4
      <4>2. (4 * b * q + t.beat * b) \div (4 * q)
              = IF t.beat < 0 /\ r > 0 THEN b + t.beat - 1 ELSE b + t.beat
        BY <3>6, <4>1, ScaledBeat
      <4> HIDE DEF r
      <4> QED
        BY <3>3, <4>2
    <3>8. beat = b - q - (IF r > 0 THEN 1 ELSE 0) \/ beat = b \/ beat = b + q
      BY <3>1, <3>2, <3>4, BeatInQuarters
    <3> HIDE DEF again, r
    <3> DEFINE cut == p.beat
               u == t.beat
    <3>9. /\ b \in Nat /\ q \in Nat /\ q >= 1 /\ r \in 0..3 /\ beat \in Int
          /\ beat = b - q - (IF r > 0 THEN 1 ELSE 0) \/ beat = b \/ beat = b + q
          /\ cut \in Int /\ cut = Clamp(beat, MinBeat, MaxBeat)
          /\ u \in Int /\ u = Clamp(cut - b, -q, q) /\ again \in Int
          /\ again = Clamp(IF u < 0 /\ r > 0 THEN b + u - 1 ELSE b + u, MinBeat, MaxBeat)
      BY <1>2, <1>11, <3>4, <3>5, <3>7, <3>8
    <3> HIDE DEF cut, u
    <3>10. Distance(again, cut) <= 1 /\ (cut \notin {MinBeat, MaxBeat} => again = cut)
      BY <3>9, BoundsAssumption DEF Clamp, Distance
    <3> QED
      BY <3>10 DEF cut
  <2> QED
    BY <2>1, <2>2
<1>13. Learned(t, d).beat = again
  <2>1. d.mesh + t.mesh \in Int /\ d.factor + t.factor \in Int
    BY <1>5, <1>7
  <2>2. Around(d.mesh + t.mesh, d.factor + t.factor, back).beat = Clamp(back, MinBeat, MaxBeat)
    BY <1>8, <2>1, AroundIsFields, Zenon
  <2> HIDE DEF again
  <2> QED
    BY <1>6, <2>2 DEF again
<1>14. /\ [Learned(t, d) EXCEPT !.beat = 0] = [p EXCEPT !.beat = 0]
       /\ again = p.beat => Learned(t, d) = p
  <2>1. d.mesh + t.mesh \in Int /\ d.factor + t.factor \in Int
    BY <1>5, <1>7
  <2> QED
    BY <1>2, <1>3, <1>6, <1>8, <1>9, <1>10, <2>1, AroundSame
<1> HIDE DEF again
<1> QED
  BY <1>1, <1>12, <1>13, <1>14 DEF TargetIsLearnable, d, p

(* A network that answers the target exactly proposes the candidate that   *)
(* was chosen, whatever the bounds have cut; an interval that a bound has  *)
(* cut may be missed by one (target.go:114-119 and inference.go:76-91).    *)
THEOREM TargetsAreLearnable == Spec => []TargetIsLearnable
BY ScanInvariant, ScanIsLearnable, PTL

-----------------------------------------------------------------------------
(* The invariant of the scan types it.                                     *)
LEMMA ScanTypes == ScanInv => SelectionTypeOK
<1> SUFFICES ASSUME ScanInv PROVE SelectionTypeOK
  OBVIOUS
<1>1. sample # Nothing =>
        sample \in [kind : {"target"}, mesh : -2..2, factor : -FactorSpan..FactorSpan,
                    beat : -Quarter(deployed.beat)..Quarter(deployed.beat)]
  <2> SUFFICES ASSUME sample # Nothing
               PROVE  sample \in
                        [kind : {"target"}, mesh : -2..2, factor : -FactorSpan..FactorSpan,
                         beat : -Quarter(deployed.beat)..Quarter(deployed.beat)]
    OBVIOUS
  <2> DEFINE p == best.set
             q == Quarter(deployed.beat)
  <2>1. deployed \in Fields /\ p \in Candidates(deployed) /\ sample = Target(p, deployed)
    BY SelectionAssumption DEF ScanInv, Scan
  <2>2. p \in Fields
    BY <2>1, CandidateIsNear
  <2>3. /\ p.mesh - deployed.mesh \in Int /\ p.factor - deployed.factor \in Int
        /\ p.beat - deployed.beat \in Int /\ q \in Nat
    BY <2>1, <2>2 DEF Fields, Quarter
  <2>4. \A v \in Int, n \in Nat : Clamp(v, -n, n) \in -n..n
    BY DEF Clamp
  <2>5. Clamp(p.mesh - deployed.mesh, -2, 2) \in -2..2
    BY <2>3 DEF Clamp
  <2>6. Clamp(p.factor - deployed.factor, -FactorSpan, FactorSpan) \in -FactorSpan..FactorSpan
        /\ Clamp(p.beat - deployed.beat, -q, q) \in -q..q
    BY <2>3, <2>4, RulesAssumption
  <2>7. sample = [kind |-> "target", mesh |-> Clamp(p.mesh - deployed.mesh, -2, 2),
                  factor |-> Clamp(p.factor - deployed.factor, -FactorSpan, FactorSpan),
                  beat |-> Clamp(p.beat - deployed.beat, -q, q)]
    BY <2>1 DEF Target
  <2> HIDE DEF p
  <2> QED
    BY <2>5, <2>6, <2>7
<1> QED
  BY <1>1 DEF ScanInv, Scan, SelectionTypeOK

(* No more samples are observed than the window of the runs allows.        *)
THEOREM ObservedInBounds == Spec => [](observed \in 0..MaxObserved)
<1>1. Init => observed \in 0..MaxObserved
  BY GivenAssumption DEF Init
<1>2. observed \in 0..MaxObserved /\ [Next]_vars => (observed \in 0..MaxObserved)'
  BY GivenAssumption DEF Next, Select, Observe, Give, Then, vars
<1> QED
  BY <1>1, <1>2, PTL DEF Spec

(* Both halves keep their types, and a training that looks at a sample     *)
(* looks at one of the window.                                             *)
THEOREM TypeCorrect == Spec => []TypeOK
<1>1. TrainingInv => TrainingTypeOK
  BY DEF TrainingInv, TrainingTypes
<1>2. ScanInv /\ TrainingInv /\ observed \in 0..MaxObserved => TypeOK
  BY <1>1, ScanTypes DEF TypeOK
<1> QED
  BY <1>2, ScanInvariant, NetworkInvariant, ObservedInBounds, PTL

-----------------------------------------------------------------------------

(* How far a training is from its end *)

(* The steps of a training still to come: for each sample one forward      *)
(* pass, the lock, four arrays and the unlock; then the export.            *)
AllSamples(t) == Epochs[t] * Len(dataset)

InSample(t) ==
  IF train[t].at = "forward" THEN 7
  ELSE IF holder = t THEN Len(toWrite) + 1 ELSE 6

Work(at, samples, done, steps) ==
  IF at = "start" THEN 7 * samples + 2
  ELSE IF at \in {"forward", "backward"} THEN 7 * (samples - (done + 1)) + steps + 1
  ELSE IF at = "export" THEN 1 ELSE 0

Left(t) == Work(train[t].at, AllSamples(t), Progress(t), InSample(t))

(* The sample a call works on is one of those it has not made an update    *)
(* for.                                                                    *)
LEMMA SampleIsLeft ==
  ASSUME TrainingInv, NEW t \in Trainers
  PROVE  /\ AllSamples(t) \in Nat /\ Progress(t) \in Nat
         /\ InSample(t) \in Nat /\ InSample(t) >= 1
         /\ train[t].at \in {"forward", "backward"} => Progress(t) + 1 <= AllSamples(t)
<1> DEFINE L == Len(dataset)
           E == Epochs[t]
           e == train[t].epoch
           n == train[t].next
<1>1. L \in Nat /\ E \in Nat /\ e \in Nat /\ n \in Nat /\ Progress(t) \in Nat
  BY ProgressIsNat, TrainingAssumption DEF TrainingInv, TrainingTypes, Calls
<1>2. AllSamples(t) \in Nat
  BY <1>1 DEF AllSamples
<1>3. InSample(t) \in Nat /\ InSample(t) >= 1
  <2>1. Len(toWrite) \in Nat
    BY LenProperties DEF TrainingInv, WritesOnce
  <2> QED
    BY <2>1 DEF InSample
<1>4. ASSUME train[t].at \in {"forward", "backward"}
      PROVE  Progress(t) + 1 <= AllSamples(t)
  <2>1. n <= L /\ e + 1 <= E
    <3>1. DOMAIN dataset = 1..L
      BY LenProperties DEF TrainingInv, TrainingTypes, TrainingTypeOK
    <3>2. n \in DOMAIN dataset /\ e < E
      BY <1>4 DEF TrainingInv, TrainingTypes, TrainingTypeOK, CallsInOrder
    <3> QED
      BY <1>1, <3>1, <3>2
  <2>2. L * (e + 1) <= L * E
    <3>1. L \in Nat /\ e + 1 \in Int /\ E \in Int
      BY <1>1
    <3> HIDE DEF L, E, e
    <3> QED
      BY <2>1, <3>1, Product, Zenon
  <2>3. L * (e + 1) = e * L + L /\ L * E = E * L
    BY <1>1
  <2> DEFINE done == e * L
             all == E * L
  <2>4. done \in Nat /\ all \in Nat
    BY <1>1
  <2>5. done + L <= all
    BY <2>2, <2>3
  <2>6. Progress(t) = done + n - 1 /\ AllSamples(t) = all
    BY Zenon DEF Progress, AllSamples
  <2> HIDE DEF done, all, L, E, e, n
  <2> QED
    BY <1>1, <2>1, <2>4, <2>5, <2>6
<1> QED
  BY <1>1, <1>2, <1>3, <1>4

(* The steps left are a natural number, and at least one before the end.   *)
LEMMA WorkIsNat ==
  ASSUME NEW at, NEW samples \in Nat, NEW done \in Nat, NEW steps \in Nat, steps >= 1,
         at \in {"forward", "backward"} => done + 1 <= samples
  PROVE  /\ Work(at, samples, done, steps) \in Nat
         /\ at \in {"start", "forward", "backward", "export"} =>
              Work(at, samples, done, steps) >= 1
BY DEF Work

(* So are those of a call.                                                 *)
LEMMA LeftIsNat ==
  ASSUME TrainingInv, NEW t \in Trainers
  PROVE  /\ Left(t) \in Nat
         /\ train[t].at \in {"start", "forward", "backward", "export"} => Left(t) >= 1
BY SampleIsLeft, WorkIsNat DEF Left

(* What a step of another training, of a reader or of an import changes    *)
(* has nothing to do with how far a training is.                           *)
LEMMA LeftRests ==
  ASSUME NEW t \in Trainers, train'[t] = train[t], dataset' = dataset,
         holder = t => holder' = t /\ toWrite' = toWrite,
         holder # t => holder' # t
  PROVE  Left(t)' = Left(t)
BY DEF Left, AllSamples, Progress, InSample

(* A call that goes on without an update.                                  *)
LEMMA CallGoesOn ==
  ASSUME NEW t \in Trainers, dataset' = dataset,
         train'[t].epoch = train[t].epoch, train'[t].next = train[t].next
  PROVE  AllSamples(t)' = AllSamples(t) /\ Progress(t)' = Progress(t)
BY DEF AllSamples, Progress

(* One that fails or returns has nothing left.                             *)
LEMMA NothingLeft ==
  ASSUME TrainingInv, NEW t \in Trainers,
         train[t].at \in {"start", "forward", "backward", "export"},
         train'[t].at \in {"failed", "returned"}
  PROVE  Left(t)' < Left(t)
<1>1. Left(t)' = 0
  BY DEF Left, Work
<1>2. Left(t) \in Nat /\ Left(t) >= 1
  BY LeftIsNat
<1> QED
  BY <1>1, <1>2

(* A step of a training leaves it one step less at least, and the others   *)
(* theirs.                                                                 *)
LEMMA StepOfTraining ==
  ASSUME TrainingInv, NEW t \in Trainers, TrainerStep(t)
  PROVE  /\ Left(t)' < Left(t)
         /\ \A u \in Trainers \ {t} : Left(u)' = Left(u)
<1>0. /\ DOMAIN train = Trainers /\ train[t] \in Calls
      /\ t # Nobody /\ \A u \in Trainers : u # Nobody
      /\ holder = t => train[t].at = "backward"
  BY TrainingAssumption DEF TrainingInv, TrainingTypes, CallsInOrder
<1>1. /\ AllSamples(t) \in Nat /\ Progress(t) \in Nat
      /\ InSample(t) \in Nat /\ InSample(t) >= 1
      /\ train[t].at \in {"forward", "backward"} => Progress(t) + 1 <= AllSamples(t)
  BY SampleIsLeft
<1>2. /\ dataset' = dataset
      /\ \A u \in Trainers \ {t} : train'[u] = train[u]
      /\ \A u \in Trainers \ {t} :
           /\ holder = u => holder' = u /\ toWrite' = toWrite
           /\ holder # u => holder' # u
  BY <1>0 DEF TrainerStep, BeginTraining, Forward, BackwardLocks, BackwardWrites,
              BackwardUnlocks, Cancelled, Return, Free
<1>3. \A u \in Trainers \ {t} : Left(u)' = Left(u)
  BY <1>2, LeftRests
<1> SUFFICES Left(t)' < Left(t)
  BY <1>3
<1>4. CASE BeginTraining(t)
  <2>1. /\ train[t].at = "start"
        /\ train'[t] = [train[t] EXCEPT !.at = IF dataset = <<>> THEN "failed" ELSE "forward"]
    BY <1>0, <1>4 DEF BeginTraining
  <2>2. /\ train'[t].at = IF dataset = <<>> THEN "failed" ELSE "forward"
        /\ train'[t].epoch = train[t].epoch /\ train'[t].next = train[t].next
    BY <1>0, <2>1 DEF Calls
  <2>3. CASE dataset = <<>>
    BY <2>1, <2>2, <2>3, NothingLeft
  <2>4. CASE dataset # <<>>
    <3>1. AllSamples(t)' = AllSamples(t) /\ Progress(t)' = Progress(t)
      BY <1>2, <2>2, CallGoesOn
    <3>2. InSample(t)' = 7 /\ train'[t].at = "forward"
      BY <2>2, <2>4 DEF InSample
    <3>3. Left(t)' = 7 * (AllSamples(t) - (Progress(t) + 1)) + 7 + 1
      BY <3>1, <3>2 DEF Left, Work
    <3>4. Left(t) = 7 * AllSamples(t) + 2
      BY <2>1 DEF Left, Work
    <3> QED
      BY <1>1, <3>3, <3>4
  <2> QED
    BY <2>3, <2>4
<1>5. CASE Forward(t)
  <2>1. /\ train[t].at = "forward"
        /\ train'[t] = IF CurrentSample(t) \in {"badWeight", "badFeatures"}
                       THEN [train[t] EXCEPT !.at = "failed"]
                       ELSE [train[t] EXCEPT !.at = "backward", !.output = Lineage(net),
                               !.began = IF FirstSample(t) THEN Lineage(net).from
                                         ELSE train[t].began]
    BY <1>0, <1>5 DEF Forward
  <2>2. /\ train'[t].at \in {"failed", "backward"}
        /\ train'[t].epoch = train[t].epoch /\ train'[t].next = train[t].next
    BY <1>0, <2>1 DEF Calls
  <2>3. CASE train'[t].at = "failed"
    BY <2>1, <2>3, NothingLeft
  <2>4. CASE train'[t].at = "backward"
    <3>1. AllSamples(t)' = AllSamples(t) /\ Progress(t)' = Progress(t)
      BY <1>2, <2>2, CallGoesOn
    <3>2. InSample(t)' = 6 /\ InSample(t) = 7
      <4>1. holder' # t
        BY <1>0, <1>5 DEF Forward, Free
      <4> QED
        BY <2>1, <2>4, <4>1 DEF InSample
    <3>3. /\ Left(t)' = 7 * (AllSamples(t) - (Progress(t) + 1)) + 6 + 1
          /\ Left(t) = 7 * (AllSamples(t) - (Progress(t) + 1)) + 7 + 1
      BY <2>1, <2>4, <3>1, <3>2 DEF Left, Work
    <3> QED
      BY <1>1, <3>3
  <2> QED
    BY <2>2, <2>3, <2>4
<1>6. CASE BackwardLocks(t)
  <2>1. train[t].at = "backward" /\ holder # t
    BY <1>0, <1>6 DEF BackwardLocks, Free
  <2>2. CASE CurrentSample(t) = "badTargets"
    <3>1. train'[t] = [train[t] EXCEPT !.at = "failed"]
      BY <1>0, <1>6, <2>2 DEF BackwardLocks
    <3>2. train'[t].at = "failed"
      BY <1>0, <3>1 DEF Calls
    <3> QED
      BY <2>1, <3>2, NothingLeft
  <2>3. CASE CurrentSample(t) # "badTargets"
    <3>1. holder' = t /\ toWrite' = BackwardOrder /\ train' = train
      BY <1>6, <2>3 DEF BackwardLocks
    <3>2. AllSamples(t)' = AllSamples(t) /\ Progress(t)' = Progress(t)
      BY <1>2, <3>1, CallGoesOn
    <3>3. InSample(t)' = 5 /\ InSample(t) = 6
      BY <2>1, <3>1 DEF InSample, BackwardOrder
    <3>4. /\ Left(t)' = 7 * (AllSamples(t) - (Progress(t) + 1)) + 5 + 1
          /\ Left(t) = 7 * (AllSamples(t) - (Progress(t) + 1)) + 6 + 1
      BY <2>1, <3>1, <3>2, <3>3 DEF Left, Work
    <3> QED
      BY <1>1, <3>4
  <2> QED
    BY <2>2, <2>3
<1>7. CASE BackwardWrites(t)
  <2>1. /\ train[t].at = "backward" /\ holder = t /\ holder' = t /\ train' = train
        /\ toWrite # <<>> /\ toWrite' = Tail(toWrite)
    BY <1>7 DEF BackwardWrites
  <2>2. Len(toWrite) \in Nat /\ Len(toWrite') = Len(toWrite) - 1
    <3>1. toWrite \in Seq(Arrays)
      BY DEF TrainingInv, WritesOnce
    <3> QED
      BY <2>1, <3>1, HeadTailProperties, LenProperties
  <2>3. AllSamples(t)' = AllSamples(t) /\ Progress(t)' = Progress(t)
    BY <1>2, <2>1, CallGoesOn
  <2>4. InSample(t)' = Len(toWrite') + 1 /\ InSample(t) = Len(toWrite) + 1
    BY <2>1 DEF InSample
  <2>5. /\ Left(t)' = 7 * (AllSamples(t) - (Progress(t) + 1)) + InSample(t)' + 1
        /\ Left(t) = 7 * (AllSamples(t) - (Progress(t) + 1)) + InSample(t) + 1
    BY <2>1, <2>3 DEF Left, Work
  <2> QED
    BY <1>1, <2>2, <2>4, <2>5
<1>8. CASE BackwardUnlocks(t)
  <2>1. train[t].at = "backward" /\ holder = t /\ toWrite = <<>> /\ holder' = Nobody
    BY <1>8 DEF BackwardUnlocks
  <2>2. /\ train'[t].at \in {"forward", "export"} /\ Progress(t)' = Progress(t) + 1
    BY <1>8, UnlockMoves, Zenon
  <2>3. AllSamples(t)' = AllSamples(t)
    BY <1>2 DEF AllSamples
  <2>4. InSample(t) = 1
    BY <2>1 DEF InSample
  <2>5. Left(t) = 7 * (AllSamples(t) - (Progress(t) + 1)) + 1 + 1
    BY <2>1, <2>4 DEF Left, Work
  <2>6. CASE train'[t].at = "export"
    <3>1. Left(t)' = 1
      BY <2>6 DEF Left, Work
    <3> QED
      BY <1>1, <2>1, <2>5, <3>1
  <2>7. CASE train'[t].at = "forward"
    <3>1. InSample(t)' = 7
      BY <2>7 DEF InSample
    <3>2. Left(t)' = 7 * (AllSamples(t) - (Progress(t) + 1 + 1)) + 7 + 1
      BY <2>2, <2>3, <2>7, <3>1 DEF Left, Work
    <3> QED
      BY <1>1, <2>5, <3>2
  <2> QED
    BY <2>2, <2>6, <2>7
<1>9. CASE Cancelled(t) \/ Return(t)
  <2>1. /\ train[t].at = "export"
        /\ \/ train'[t] = [train[t] EXCEPT !.at = "failed"]
           \/ train'[t] = [train[t] EXCEPT !.at = "returned", !.model = net, !.version = version]
    BY <1>0, <1>9 DEF Cancelled, Return
  <2>2. train'[t].at \in {"failed", "returned"}
    BY <1>0, <2>1 DEF Calls
  <2> QED
    BY <2>1, <2>2, NothingLeft
<1> QED
  BY <1>4, <1>5, <1>6, <1>7, <1>8, <1>9 DEF TrainerStep

(* A reader or an import leaves every training its steps.                  *)
LEMMA StepOfOthers ==
  ASSUME TrainingInv, (\E r \in Readers : Read(r)) \/ ImporterStep, NEW t \in Trainers
  PROVE  Left(t)' = Left(t)
<1>1. t # Nobody /\ t # "import"
  BY TrainingAssumption
<1>2. dataset' = dataset /\ train' = train
  BY DEF Read, ImporterStep, ImportRefused, ImportLocks, ImportWrites, ImportUnlocks
<1>3. /\ holder = t => holder' = t /\ toWrite' = toWrite
      /\ holder # t => holder' # t
  BY <1>1 DEF Read, ImporterStep, ImportRefused, ImportLocks, ImportWrites, ImportUnlocks,
              Free
<1> QED
  BY <1>2, <1>3, LeftRests

(* A call of Train has a number of steps left that nobody else changes and *)
(* that each of its own steps lowers: whatever the other trainings, the    *)
(* readers and the imports do, it cannot go on for ever                    *)
(* (learning.go:38-51).                                                    *)
Shrinks ==
  Then(TrainingNext) =>
    \A t \in Trainers :
      /\ Left(t) \in Nat
      /\ Then(TrainerStep(t)) => Left(t)' < Left(t)
      /\ ~Then(TrainerStep(t)) => Left(t)' = Left(t)

(* Every step of every behaviour is such a step. TrainingEnds adds what    *)
(* TLC checks: that a training keeps making steps.                         *)
THEOREM TrainingShrinks == Spec => [][Shrinks]_vars
<1>1. TrainingInv /\ [Next]_vars => [Shrinks]_vars
  <2> SUFFICES ASSUME TrainingInv, Then(TrainingNext), NEW t \in Trainers
               PROVE  /\ Left(t) \in Nat
                      /\ Then(TrainerStep(t)) => Left(t)' < Left(t)
                      /\ ~Then(TrainerStep(t)) => Left(t)' = Left(t)
    BY DEF Shrinks
  <2>1. Left(t) \in Nat
    BY LeftIsNat
  <2>2. Then(TrainerStep(t)) => Left(t)' < Left(t)
    BY StepOfTraining DEF Then
  <2>3. ASSUME ~Then(TrainerStep(t)) PROVE Left(t)' = Left(t)
    <3>1. CASE \E u \in Trainers : TrainerStep(u)
      <4>1. PICK u \in Trainers : TrainerStep(u)
        BY <3>1
      <4>2. u # t
        BY <2>3, <4>1 DEF Then
      <4> QED
        BY <4>1, <4>2, StepOfTraining
    <3>2. CASE (\E r \in Readers : Read(r)) \/ ImporterStep
      BY <3>2, StepOfOthers
    <3> QED
      BY <3>1, <3>2 DEF Then, TrainingNext
  <2> QED
    BY <2>1, <2>2, <2>3
<1> QED
  BY <1>1, NetworkInvariant, PTL DEF Spec

=============================================================================
