--------------------------- MODULE NetworkTraining --------------------------
(***************************************************************************)
(* A TinyNetwork that is shared by goroutines (tiny_network.go, learning.go):*)
(* NetworkTrainer.Train alternates a forward and a backward pass, each     *)
(* under the network's own lock; meanwhile others predict with it, take    *)
(* copies of it, or replace it by an aggregated model.                     *)
(*                                                                         *)
(* A writer holds the lock and writes one array after the other; a reader  *)
(* is one step, as no writer can start while it reads.  What an array      *)
(* holds is told by the import it goes back to and by how many updates of  *)
(* each trainer it has had since.                                          *)
(***************************************************************************)
EXTENDS Integers, Sequences, FiniteSets, Functions

CONSTANTS
  Trainers,          \* calls of NetworkTrainer.Train
  Readers,           \* callers of Predict and of Weights
  Epochs,            \* NetworkTrainer.epochs of each, at least 1
  MaxImports,        \* bound: models imported
  Nobody

ASSUME TrainingAssumption ==
  /\ IsFiniteSet(Trainers)
  /\ Epochs \in [Trainers -> Nat \ {0}] /\ MaxImports \in Nat
  /\ Nobody \notin Trainers \cup {"import"} /\ "import" \notin Trainers

VARIABLES
  dataset,     \* the samples of the training: each "good" or what is wrong with it
  net,         \* the four arrays of the network
  version,     \* TinyNetwork.version
  holder,      \* who holds the network's mutex for writing
  toWrite,     \* the arrays the holder still has to write
  train,       \* the calls of Train
  read,        \* the last model each reader has seen
  imports      \* models imported, or attempted

training == <<dataset, net, version, holder, toWrite, train, read, imports>>

Samples == {"good", "badWeight", "badFeatures", "badTargets"}

(* The order in which backward and SetWeights write the arrays.            *)
BackwardOrder == <<"hiddenOutput", "outputBiases", "inputHidden", "hiddenBiases">>
ImportOrder == <<"inputHidden", "hiddenOutput", "hiddenBiases", "outputBiases">>
Arrays == {BackwardOrder[i] : i \in DOMAIN BackwardOrder}

Lineages == [from : 0..MaxImports, updates : [Trainers -> Nat]]
Imported(k) == [from |-> k, updates |-> [t \in Trainers |-> 0]]
Updated(lineage, t) == [lineage EXCEPT !.updates[t] = @ + 1]

Whole(model) == \A a, b \in Arrays : model[a] = model[b]
Lineage(model) == model["inputHidden"]

Free == holder = Nobody

(* Which epoch and sample the call is at, the model its output was         *)
(* computed with, the import its first output goes back to, and what it    *)
(* returned.                                                               *)
NotTraining == [at |-> "start", epoch |-> 0, next |-> 1, output |-> Imported(0),
                began |-> 0, model |-> [a \in Arrays |-> Imported(0)], version |-> 0]

(* NewTinyNetwork.                                                         *)
TrainingInit ==
  /\ net = [a \in Arrays |-> Imported(0)]
  /\ version = 0
  /\ holder = Nobody
  /\ toWrite = <<>>
  /\ train = [t \in Trainers |-> NotTraining]
  /\ read = [r \in Readers |-> [model |-> net, version |-> 0]]
  /\ imports = 0

-----------------------------------------------------------------------------
(* NetworkTrainer.Train.  Its own mutex is only ever locked for reading,   *)
(* and excludes nobody.                                                    *)
BeginTraining(t) ==
  /\ train[t].at = "start"
  /\ train' = [train EXCEPT ![t].at = IF dataset = <<>> THEN "failed" ELSE "forward"]
  /\ UNCHANGED <<dataset, net, version, holder, toWrite, read, imports>>

CurrentSample(t) == dataset[train[t].next]
FirstSample(t) == train[t].epoch = 0 /\ train[t].next = 1

(* The weight of the sample is checked, then Forward.                      *)
Forward(t) ==
  /\ train[t].at = "forward"
  /\ Free
  /\ train' = [train EXCEPT ![t] =
       IF CurrentSample(t) \in {"badWeight", "badFeatures"}
       THEN [@ EXCEPT !.at = "failed"]
       ELSE [@ EXCEPT !.at = "backward",
                      !.output = Lineage(net),
                      !.began = IF FirstSample(t) THEN Lineage(net).from
                                ELSE train[t].began]]
  /\ UNCHANGED <<dataset, net, version, holder, toWrite, read, imports>>

\* Mutant: a sample with targets of the wrong size is tried again.
BackwardLocksRetry(t) ==
  /\ train[t].at = "backward"
  /\ Free
  /\ IF CurrentSample(t) = "badTargets"
     THEN train' = [train EXCEPT ![t].at = "forward"] /\ UNCHANGED <<holder, toWrite>>
     ELSE holder' = t /\ toWrite' = BackwardOrder /\ UNCHANGED train
  /\ UNCHANGED <<dataset, net, version, read, imports>>

(* backward takes the lock, or fails and has changed nothing.              *)
BackwardLocks(t) ==
  /\ train[t].at = "backward"
  /\ Free
  /\ IF CurrentSample(t) = "badTargets"
     THEN train' = [train EXCEPT ![t].at = "failed"] /\ UNCHANGED <<holder, toWrite>>
     ELSE holder' = t /\ toWrite' = BackwardOrder /\ UNCHANGED train
  /\ UNCHANGED <<dataset, net, version, read, imports>>

\* Mutant: the update starts from the weights the output was computed with.
UpdateOfRead(t, a) == Updated(train[t].output, t)

(* The new content of an array: the gradient is subtracted from what it    *)
(* holds.                                                                  *)
Update(t, a) == Updated(net[a], t)

BackwardWrites(t) ==
  /\ train[t].at = "backward" /\ holder = t
  /\ toWrite # <<>>
  /\ net' = [net EXCEPT ![Head(toWrite)] = Update(t, Head(toWrite))]
  /\ toWrite' = Tail(toWrite)
  /\ UNCHANGED <<dataset, version, holder, train, read, imports>>

(* Loss, samples and version; and on to the next sample, the next epoch or *)
(* the end.                                                                *)
BackwardUnlocks(t) ==
  /\ train[t].at = "backward" /\ holder = t
  /\ toWrite = <<>>
  /\ version' = version + 1
  /\ holder' = Nobody
  /\ train' = [train EXCEPT ![t] =
       IF train[t].next < Len(dataset)
       THEN [@ EXCEPT !.at = "forward", !.next = train[t].next + 1]
       ELSE [@ EXCEPT !.at = IF train[t].epoch + 1 < Epochs[t] THEN "forward" ELSE "export",
                      !.epoch = train[t].epoch + 1, !.next = 1]]
  /\ UNCHANGED <<dataset, net, toWrite, read, imports>>

(* The context is looked at once, after the last epoch.                    *)
Cancelled(t) ==
  /\ train[t].at = "export"
  /\ train' = [train EXCEPT ![t].at = "failed"]
  /\ UNCHANGED <<dataset, net, version, holder, toWrite, read, imports>>

(* Weights, for the TrainingResult.                                        *)
Return(t) ==
  /\ train[t].at = "export"
  /\ Free
  /\ train' = [train EXCEPT ![t] =
       [@ EXCEPT !.at = "returned", !.model = net, !.version = version]]
  /\ UNCHANGED <<dataset, net, version, holder, toWrite, read, imports>>

-----------------------------------------------------------------------------
\* Mutant: a copy is taken without the lock.
ReadUnlocked(r) ==
  /\ read' = [read EXCEPT ![r] = [model |-> net, version |-> version]]
  /\ UNCHANGED <<dataset, net, version, holder, toWrite, train, imports>>

(* Predict, or Weights for ExportWeights, ModelState and MarshalBinary.    *)
Read(r) ==
  /\ Free
  /\ read' = [read EXCEPT ![r] = [model |-> net, version |-> version]]
  /\ UNCHANGED <<dataset, net, version, holder, toWrite, train, imports>>

(* SetWeights, from ImportWeights, ImportModelState or UnmarshalBinary: an *)
(* incompatible model is refused under the lock and changes nothing.       *)
ImportRefused ==
  /\ Free
  /\ imports < MaxImports
  /\ imports' = imports + 1
  /\ UNCHANGED <<dataset, net, version, holder, toWrite, train, read>>

ImportLocks ==
  /\ Free
  /\ imports < MaxImports
  /\ imports' = imports + 1
  /\ holder' = "import"
  /\ toWrite' = ImportOrder
  /\ UNCHANGED <<dataset, net, version, train, read>>

ImportWrites ==
  /\ holder = "import"
  /\ toWrite # <<>>
  /\ net' = [net EXCEPT ![Head(toWrite)] = Imported(imports)]
  /\ toWrite' = Tail(toWrite)
  /\ UNCHANGED <<dataset, version, holder, train, read, imports>>

(* The imported model comes with a version, here the import's number.      *)
ImportUnlocks ==
  /\ holder = "import"
  /\ toWrite = <<>>
  /\ version' = imports
  /\ holder' = Nobody
  /\ UNCHANGED <<dataset, net, toWrite, train, read, imports>>

TrainerStep(t) ==
  \/ BeginTraining(t) \/ Forward(t) \/ BackwardLocks(t) \/ BackwardWrites(t)
  \/ BackwardUnlocks(t) \/ Cancelled(t) \/ Return(t)

ImporterStep == ImportRefused \/ ImportLocks \/ ImportWrites \/ ImportUnlocks

TrainingNext ==
  \/ \E t \in Trainers : TrainerStep(t)
  \/ \E r \in Readers : Read(r)
  \/ ImporterStep

-----------------------------------------------------------------------------
TrainingTypeOK ==
  /\ dataset \in Seq(Samples)
  /\ net \in [Arrays -> Lineages]
  /\ version \in Nat
  /\ holder \in Trainers \cup {"import", Nobody}
  /\ Free => toWrite = <<>>
  /\ \A t \in Trainers :
       /\ train[t].at \in {"start", "forward", "backward", "export", "returned", "failed"}
       /\ train[t].epoch \in 0..Epochs[t] /\ train[t].next \in Nat \ {0}
       /\ train[t].at \in {"forward", "backward"} => train[t].next \in DOMAIN dataset
       /\ train[t].output \in Lineages
  /\ imports \in 0..MaxImports

AllUpdates(lineage) == SumFunction(lineage.updates)

(* A copy of one model: its arrays have seen the same import and the same  *)
(* updates, and its version counts those updates on from the import's.     *)
OneModel(copy) ==
  /\ Whole(copy.model)
  /\ copy.version = Lineage(copy.model).from + AllUpdates(Lineage(copy.model))

(* Nobody predicts with, exports or returns a model that was half written, *)
(* or one with the version of another (tiny_network.go:172, 322-374, 384). *)
ModelsAreWhole ==
  /\ \A r \in Readers : OneModel(read[r])
  /\ \A t \in Trainers : train[t].at = "returned" => OneModel(train[t])

(* The updates a call of Train has completed.                              *)
Progress(t) == train[t].epoch * Len(dataset) + train[t].next - 1

(* No update is lost to a concurrent training, none is applied twice, and  *)
(* a training that fails halfway has left exactly the updates before the   *)
(* failure in the network; only an import since the training began takes   *)
(* updates away (tiny_network.go:289-316).                                 *)
UpdatesAreKept ==
  \A t \in Trainers :
    LET kept(model) == Lineage(model).updates[t]
        since(model) == train[t].began = Lineage(model).from
    IN  /\ Free => kept(net) <= Progress(t) /\ (since(net) => kept(net) = Progress(t))
        /\ train[t].at = "returned" =>
             (since(train[t].model) =>
                kept(train[t].model) = Epochs[t] * Len(dataset))

(* Every call of Train ends, whatever is imported and whichever sample is  *)
(* refused (tiny_network.go:172-173, 384-385).                             *)
TrainingEnds ==
  \A t \in Trainers :
    train[t].at = "forward" ~> train[t].at \in {"returned", "failed"}
=============================================================================
