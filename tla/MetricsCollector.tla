--------------------------- MODULE MetricsCollector -------------------------
(***************************************************************************)
(* How Collector.Collect turns the growing counters of the gossip layer    *)
(* into rates (collector.go), with the system probe it asks first          *)
(* (metrics.go).  Either probe may fail, traffic arrives and time passes   *)
(* between any two steps, and the counters may be reset, as by a router    *)
(* that is replaced.                                                       *)
(*                                                                         *)
(* One counter stands for the five that are differenced, which are         *)
(* treated alike.  A rate is kept as the pair of what was counted and the  *)
(* time it took, undivided.  Collector.mu is held from begin to end of a   *)
(* Collect, so that there is one call in progress at most.                 *)
(***************************************************************************)
EXTENDS Integers

CONSTANTS
  MaxTraffic,    \* bound: messages explored
  MaxClock       \* bound: clock readings explored

ASSUME CollectorAssumption ==
  MaxTraffic \in Nat /\ MaxClock \in Nat

VARIABLES
  clock,       \* what time.Now and Collector.now return
  counter,     \* the gossip layer's counter
  collect,     \* where the Collect in progress is, and when it began
  last,        \* lastSample.Timestamp, lastGossip and initialized
  cpu,         \* RuntimeSystemProbe.lastSampleTime; the interval of its reading
  rate,        \* the latest rate: what was counted, in which time
  history      \* what happened: traffic, counted and covered so far, the first
               \* sample, and whether anything disturbed the measurement

collector == <<clock, counter, collect, last, cpu, rate, history>>

Stages == {"idle", "system", "gossip", "collected"}

CollectorTypeOK ==
  /\ clock \in 0..MaxClock
  /\ counter \in 0..MaxTraffic
  /\ collect \in [stage : Stages, now : 0..MaxClock]
  /\ last \in [sampled : BOOLEAN, time : 0..MaxClock, count : 0..MaxTraffic]
  /\ cpu \in [sampled : BOOLEAN, time : 0..MaxClock, from : 0..MaxClock]
  /\ rate \in [count : 0..MaxTraffic, time : 0..MaxClock]
  /\ history \in [traffic : 0..MaxTraffic, counted : 0..MaxTraffic,
                  covered : 0..MaxClock, start : 0..MaxClock,
                  base : 0..MaxTraffic, disturbed : BOOLEAN]

CollectorInit ==
  /\ clock = 0
  /\ counter = 0
  /\ collect = [stage |-> "idle", now |-> 0]
  /\ last = [sampled |-> FALSE, time |-> 0, count |-> 0]
  /\ cpu = [sampled |-> FALSE, time |-> 0, from |-> 0]
  /\ rate = [count |-> 0, time |-> 0]
  /\ history = [traffic |-> 0, counted |-> 0, covered |-> 0, start |-> 0,
                base |-> 0, disturbed |-> FALSE]

-----------------------------------------------------------------------------
(* Around the collector *)

TimePasses ==
  /\ clock < MaxClock
  /\ clock' = clock + 1
  /\ UNCHANGED <<counter, collect, last, cpu, rate, history>>

MessageCounted ==
  /\ history.traffic < MaxTraffic
  /\ counter' = counter + 1
  /\ history' = [history EXCEPT !.traffic = @ + 1]
  /\ UNCHANGED <<clock, collect, last, cpu, rate>>

CounterReset ==
  /\ counter > 0
  /\ counter' = 0
  /\ history' = [history EXCEPT !.disturbed = TRUE]
  /\ UNCHANGED <<clock, collect, last, cpu, rate>>

-----------------------------------------------------------------------------
(* Collect *)

Stage(s) == collect' = [collect EXCEPT !.stage = s]

(* The reading of the clock the sample will be stamped with, before either *)
(* probe is asked.                                                         *)
CollectBegin ==
  /\ collect.stage = "idle"
  /\ collect' = [stage |-> "system", now |-> clock]
  /\ UNCHANGED <<clock, counter, last, cpu, rate, history>>

\* Mutant: the probe keeps the time of its first sample.
SystemSampleFirst ==
  /\ collect.stage = "system"
  /\ cpu' = IF cpu.sampled THEN [cpu EXCEPT !.from = cpu.time]
            ELSE [sampled |-> TRUE, time |-> clock, from |-> 0]
  /\ Stage("gossip")
  /\ UNCHANGED <<clock, counter, last, rate, history>>

(* RuntimeSystemProbe.Snapshot: a processor load since its own previous    *)
(* sample, which is remembered whatever becomes of this Collect.           *)
SystemSample ==
  /\ collect.stage = "system"
  /\ cpu' = [sampled |-> TRUE, time |-> clock, from |-> cpu.time]
  /\ Stage("gossip")
  /\ UNCHANGED <<clock, counter, last, rate, history>>

(* Another SystemProbe may fail; Collect returns the error.                *)
SystemFails ==
  /\ collect.stage = "system"
  /\ Stage("idle")
  /\ UNCHANGED <<clock, counter, last, cpu, rate, history>>

(* deltaRate and deltaBandwidth.                                           *)
Delta(current, previous) == IF current < previous THEN 0 ELSE current - previous

(* The interval of a rate; zero when there is no rate to compute.          *)
Elapsed(now) == IF last.sampled THEN now - last.time ELSE 0

(* The gossip probe answers: rates over the time since the last sample     *)
(* that was returned, none for the first and none if the clock has stood   *)
(* still; and the sample becomes the last one in every case.               *)
GossipSample ==
  LET time  == Elapsed(collect.now)
      count == IF time > 0 THEN Delta(counter, last.count) ELSE 0
  IN  /\ collect.stage = "gossip"
      /\ rate' = [count |-> count, time |-> time]
      /\ last' = [sampled |-> TRUE, time |-> collect.now, count |-> counter]
      /\ history' = [history EXCEPT
            !.counted = @ + count, !.covered = @ + time,
            !.start = IF last.sampled THEN @ ELSE collect.now,
            !.base = IF last.sampled THEN @ ELSE counter,
            !.disturbed = @ \/ (last.sampled /\ time = 0)]
      /\ Stage("collected")
      /\ UNCHANGED <<clock, counter, cpu>>

\* Mutant: the sample of the failed probe is remembered, all zeros.
GossipFailsRemembered ==
  /\ collect.stage = "gossip"
  /\ last' = [last EXCEPT !.count = 0]
  /\ Stage("idle")
  /\ UNCHANGED <<clock, counter, cpu, rate, history>>

(* LiveGossipProbe.Snapshot fails when its context or the PubSub is done;  *)
(* Collect returns the error and remembers nothing of the attempt.         *)
GossipFails ==
  /\ collect.stage = "gossip"
  /\ Stage("idle")
  /\ UNCHANGED <<clock, counter, last, cpu, rate, history>>

Around == TimePasses \/ MessageCounted \/ CounterReset

CollectStep ==
  CollectBegin \/ SystemSample \/ SystemFails \/ GossipSample \/ GossipFails

-----------------------------------------------------------------------------
(* Whatever happens to counter, clock and probes, the rates never claim    *)
(* more messages than there were: a reset costs a measurement and does not *)
(* make one up (collector.go:168-180).                                     *)
NeverOvercounts == history.counted <= history.traffic

(* As long as the counter is not reset and the clock moves on between two  *)
(* samples, the rates leave no gap and no overlap: together they count     *)
(* what the counter has grown by and cover the time from the first sample  *)
(* to the last (collector.go:117-126), however many attempts failed in     *)
(* between, at either probe.                                               *)
Gapless ==
  last.sampled /\ ~history.disturbed =>
    /\ history.counted = last.count - history.base
    /\ history.covered = last.time - history.start

(* The rates tile the time and the traffic: each message is counted in one *)
(* interval, or lost to a disturbance, and never in two.                   *)
RatesTile == NeverOvercounts /\ Gapless

(* The processor load returned with a sample does not reach back before    *)
(* the interval of its rates, so that the load of a training round is not  *)
(* reported again with later traffic (metrics.go:63-87).                   *)
LoadIsRecent ==
  collect.stage = "collected" /\ last.time > history.start =>
    last.time - rate.time <= cpu.from
=============================================================================
