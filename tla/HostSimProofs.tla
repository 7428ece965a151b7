--------------------------- MODULE HostSimProofs ---------------------------
(***************************************************************************)
(* Theorems about HostSim, for every capacity, burst length and bound.     *)
(*                                                                         *)
(* The inductive invariant is TypeOK, BurstInv (inside a burst i is below  *)
(* its bound, so i++ stays in range) and Accounting.  A step of one thread *)
(* touches one place of the pipeline, so each equation of Accounting loses *)
(* as much on one side as on the other.                                    *)
(***************************************************************************)
EXTENDS HostSim, TLAPS

\* Outside the tests of its two loops the sensor's i is below 4.
BurstInv == pc["sensor"] \in {"load", "store", "make", "push", "update", "drop"}
               => burst < BurstLen

IInv == TypeOK /\ BurstInv /\ Accounting

-----------------------------------------------------------------------------
(* What the helpers do.                                                    *)

\* A step moves one thread.
LEMMA StepMoves ==
    ASSUME PcOK, NEW t \in Threads, NEW a, NEW b \in Labels[t], Step(t, a, b)
    PROVE  /\ PcOK'
           /\ pc[t] = a /\ pc'[t] = b
           /\ \A u \in Threads : u # t => pc'[u] = pc[u]
  BY DEF PcOK, Step

\* The labels of each thread are the ones the code of that thread reaches.
LEMMA LabelsOf ==
    /\ Labels["sensor"] = {"unborn", "loop", "mode", "next", "load", "store", "make",
                           "push", "update", "drop", "done"}
    /\ Labels["processor"] = {"unborn", "loop", "pop", "wait", "push", "update", "drop",
                              "done"}
    /\ Labels["logger"] = {"unborn", "loop", "pop", "wait", "print", "done"}
    /\ Labels["watchdog"] = {"unborn", "loop", "done"}
    /\ Labels["main"] = {"start", "cmd", "reset_sensor", "reset_telemetry",
                         "stop_sensor", "stop_telemetry", "join", "exited"}
  BY DEF Labels

LEMMA InitIInv == Init => IInv
  <1> SUFFICES ASSUME Init PROVE IInv
    OBVIOUS
  <1>1. PcOK
    <2>1. pc = [t \in Threads |-> pc[t]]
      BY DEF Init
    <2>2. ASSUME NEW t \in Threads PROVE pc[t] \in Labels[t]
      <3>1. t \in {"sensor", "processor", "logger", "watchdog", "main"}
        BY DEF Threads, Workers
      <3>2. pc[t] = IF t = "main" THEN "start" ELSE "unborn"
        BY DEF Init
      <3> QED BY <3>1, <3>2, LabelsOf
    <2> QED BY <2>1, <2>2 DEF PcOK
  <1>2. QueueOK
    BY HostAssumption DEF Init, QueueOK, Sample, Blank
  <1>3. TallyOK
    BY DEF Init, TallyOK
  <1>6. PlainOK
    <2>1. stop_requested \in BOOLEAN
      BY DEF Init
    <2>2. burst \in 0..BurstLen /\ resets \in 0..MaxResets /\ faults \in 0..MaxFaults
      BY HostAssumption DEF Init
    <2>3. fault_mode \in FaultModes /\ mode \in FaultModes
      BY HostAssumption DEF Init
    <2>4. /\ sensor_sequence \in Nat /\ reg \in Nat /\ latest \in Nat /\ made \in Nat
          /\ logged \in Nat /\ printed \in Nat /\ resetAt \in Nat /\ faultAt \in Nat
      BY DEF Init
    <2> QED BY <2>1, <2>2, <2>3, <2>4 DEF PlainOK
  <1>4. BurstInv
    BY HostAssumption DEF Init, BurstInv
  <1>5. Accounting
    BY DEF Init, Accounting, SensorAccount, ProcessorAccount, LoggerAccount, InHand,
           Total, Queued, Threads, Workers, Queues, Counters
  <1> QED BY <1>1, <1>2, <1>3, <1>4, <1>5, <1>6 DEF IInv, TypeOK

-----------------------------------------------------------------------------
(* Steps that move no sample.                                              *)

Busy == {"push", "update", "drop", "print"}
Data == <<hand, queue, flushed, counter, old, made, printed>>

\* A thread that neither holds a sample before nor after its step, and changes
\* no data, keeps the accounts.
LEMMA QuietStep ==
    ASSUME IInv, NEW t \in Threads, NEW a, NEW b \in Labels[t], Step(t, a, b),
           a \notin Busy, b \notin Busy, UNCHANGED Data
    PROVE  PcOK' /\ QueueOK' /\ TallyOK' /\ Accounting'
  <1>1. /\ PcOK' /\ pc[t] = a /\ pc'[t] = b
        /\ \A u \in Threads : u # t => pc'[u] = pc[u]
    BY StepMoves DEF IInv, TypeOK
  <1>2. \A u \in Threads : pc[u] \in Busy <=> pc'[u] \in Busy
    BY <1>1
  <1>3. \A u \in Threads : pc[u] \in Busy => pc'[u] = pc[u]
    BY <1>1
  <1>4. QueueOK' /\ TallyOK'
    BY DEF IInv, TypeOK, QueueOK, TallyOK, Data
  <1>5. /\ InHand("sensor", {"push", "update", "drop"})'
              = InHand("sensor", {"push", "update", "drop"})
        /\ InHand("sensor", {"update"})' = InHand("sensor", {"update"})
        /\ InHand("processor", {"push", "update", "drop"})'
              = InHand("processor", {"push", "update", "drop"})
        /\ InHand("processor", {"update"})' = InHand("processor", {"update"})
        /\ InHand("logger", {"print"})' = InHand("logger", {"print"})
    BY <1>2, <1>3 DEF InHand, Busy, Threads, Workers
  <1>6. Accounting'
    BY <1>5 DEF IInv, Accounting, SensorAccount, ProcessorAccount, LoggerAccount,
                Total, Queued, Data
  <1> QED BY <1>1, <1>4, <1>6

LEMMA LoopStep == ASSUME IInv, NEW t \in Workers, Loop(t) PROVE IInv'
  <1> DEFINE b == IF stop_requested THEN "done" ELSE Body[t]
  <1>1. Step(t, "loop", b) /\ UNCHANGED Data
    BY DEF Loop, snapshot, making, output, Data
  <1>2. t \in Threads /\ b \in Labels[t]
    BY LabelsOf DEF Threads, Workers, Body
  <1>3. "loop" \notin Busy /\ b \notin Busy
    BY DEF Busy, Body, Workers
  <1>4. PcOK' /\ QueueOK' /\ TallyOK' /\ Accounting'
    BY <1>1, <1>2, <1>3, QuietStep
  <1>5. PlainOK'
    BY DEF Loop, commands, snapshot, round, making, output, IInv, TypeOK, PlainOK
  <1>6. BurstInv'
    <2>1. /\ pc'[t] = b /\ \A u \in Threads : u # t => pc'[u] = pc[u]
          /\ burst' = burst
      BY <1>1, <1>2, StepMoves DEF IInv, TypeOK, Loop, round
    <2>2. b \notin {"load", "store", "make", "push", "update", "drop"}
      BY DEF Body, Workers
    <2> QED BY <2>1, <2>2 DEF BurstInv, IInv, Threads, Workers
  <1> QED BY <1>4, <1>5, <1>6 DEF IInv, TypeOK

\* The waits of queue_pop.
LEMMA WaitStep ==
    ASSUME IInv, NEW t \in Poppers, Wait(t) \/ Timeout(t)
    PROVE  IInv'
  <1>1. t \in Threads /\ t # "sensor" /\ UNCHANGED Data
    BY DEF Threads, Workers, Poppers, Wait, Timeout, snapshot, making, output, Data
  <1>2. PICK a \in {"pop", "wait"}, b \in {"wait", "loop"} : Step(t, a, b)
    BY DEF Wait, Timeout
  <1>3. b \in Labels[t] /\ a \notin Busy /\ b \notin Busy
    BY LabelsOf DEF Poppers, Busy
  <1>4. PcOK' /\ QueueOK' /\ TallyOK' /\ Accounting'
    BY <1>1, <1>2, <1>3, QuietStep
  <1>5. PlainOK'
    BY DEF Wait, Timeout, commands, snapshot, round, making, output, IInv, TypeOK, PlainOK
  <1>6. BurstInv'
    <2>1. pc'["sensor"] = pc["sensor"] /\ burst' = burst
      BY <1>1, <1>2, <1>3, StepMoves DEF IInv, TypeOK, Wait, Timeout, round, Threads, Workers
    <2> QED BY <2>1 DEF BurstInv, IInv
  <1> QED BY <1>4, <1>5, <1>6 DEF IInv, TypeOK

\* The sensor's steps before it has a sample.
LEMMA SensorPrepares ==
    ASSUME IInv, SensorMode \/ SensorNext \/ SensorLoad \/ SensorStore
    PROVE  IInv'
  <1>1. UNCHANGED Data /\ "sensor" \in Threads
    BY DEF SensorMode, SensorNext, SensorLoad, SensorStore, EndRound, snapshot, making,
           output, Data, Threads, Workers
  <1>2. PICK a \in {"mode", "next", "load", "store"}, b \in {"next", "load", "store", "make", "loop"} :
           Step("sensor", a, b)
    BY DEF SensorMode, SensorNext, SensorLoad, SensorStore, EndRound
  <1>3. b \in Labels["sensor"] /\ a \notin Busy /\ b \notin Busy
    BY LabelsOf DEF Busy
  <1>4. PcOK' /\ QueueOK' /\ TallyOK' /\ Accounting'
    BY <1>1, <1>2, <1>3, QuietStep
  <1>5. PlainOK'
    BY HostAssumption DEF SensorMode, SensorNext, SensorLoad, SensorStore, Stored, EndRound,
           commands, snapshot, round, making, output, IInv, TypeOK, PlainOK
  <1>6. BurstInv'
    BY <1>1, StepMoves, LabelsOf, HostAssumption
       DEF SensorMode, SensorNext, SensorLoad, SensorStore, EndRound, BurstGoesOn, Step,
           IInv, TypeOK, PcOK, BurstInv, PlainOK
  <1> QED BY <1>4, <1>5, <1>6 DEF IInv, TypeOK

\* Commands of the main thread that move no sample, and the end.
LEMMA MainQuiet ==
    ASSUME IInv, ecu_stop \/ JoinAndDestroy \/ (\E m \in FaultModes : ecu_set_fault(m))
    PROVE  IInv'
  <1>1. UNCHANGED Data /\ "main" \in Threads
    BY DEF ecu_stop, JoinAndDestroy, ecu_set_fault, snapshot, making, output, Data, Threads
  <1>2. PICK a \in {"cmd", "join"}, b \in {"cmd", "stop_sensor", "exited"} :
           Step("main", a, b)
    BY DEF ecu_stop, JoinAndDestroy, ecu_set_fault
  <1>3. b \in Labels["main"] /\ a \notin Busy /\ b \notin Busy
    BY LabelsOf DEF Busy
  <1>4. PcOK' /\ QueueOK' /\ TallyOK' /\ Accounting'
    BY <1>1, <1>2, <1>3, QuietStep
  <1>5. PlainOK'
    <2>1. CASE ecu_stop
      BY <2>1 DEF ecu_stop, snapshot, round, making, output, IInv, TypeOK, PlainOK
    <2>2. CASE JoinAndDestroy
      BY <2>2 DEF JoinAndDestroy, commands, snapshot, round, making, output, IInv, TypeOK,
                  PlainOK
    <2>3. ASSUME NEW m \in FaultModes, ecu_set_fault(m) PROVE PlainOK'
      BY <2>3, HostAssumption
         DEF ecu_set_fault, snapshot, round, making, output, IInv, TypeOK, PlainOK
    <2> QED BY <2>1, <2>2, <2>3
  <1>6. BurstInv'
    <2>1. pc'["sensor"] = pc["sensor"] /\ burst' = burst
      BY <1>1, <1>2, <1>3, StepMoves DEF IInv, TypeOK, ecu_stop, JoinAndDestroy,
         ecu_set_fault, round, Threads, Workers
    <2> QED BY <2>1 DEF BurstInv, IInv
  <1> QED BY <1>4, <1>5, <1>6 DEF IInv, TypeOK

-----------------------------------------------------------------------------
(* Steps that move a sample along the pipeline.                            *)

\* Which threads can be at the labels the accounts speak of.
LEMMA Places ==
    /\ "sensor" \in Threads /\ "processor" \in Threads /\ "logger" \in Threads
    /\ "sensor_queue" \in Queues /\ "telemetry_queue" \in Queues
    /\ Into["sensor"] = "sensor_queue" /\ Into["processor"] = "telemetry_queue"
    /\ From["processor"] = "sensor_queue" /\ From["logger"] = "telemetry_queue"
    /\ Accepted["sensor"] = "samples" /\ Accepted["processor"] = "frames"
    /\ Refused["sensor"] = "sensor_drops" /\ Refused["processor"] = "telemetry_drops"
    /\ "samples" \in Counters /\ "frames" \in Counters
    /\ "sensor_drops" \in Counters /\ "telemetry_drops" \in Counters
  BY DEF Threads, Workers, Queues, Counters, Into, From, Accepted, Refused

\* The five holdings Accounting adds up: what the sensor, the processor and the
\* logger have in hand, and what the first two have pushed but not yet counted.
SensorHas    == InHand("sensor", {"push", "update", "drop"})
SensorOwes   == InHand("sensor", {"update"})
ProcessorHas == InHand("processor", {"push", "update", "drop"})
ProcessorOwes == InHand("processor", {"update"})
LoggerHas    == InHand("logger", {"print"})

LEMMA Holdings ==
    /\ SensorHas = IF pc["sensor"] \in {"push", "update", "drop"} THEN 1 ELSE 0
    /\ SensorOwes = IF pc["sensor"] = "update" THEN 1 ELSE 0
    /\ ProcessorHas = IF pc["processor"] \in {"push", "update", "drop"} THEN 1 ELSE 0
    /\ ProcessorOwes = IF pc["processor"] = "update" THEN 1 ELSE 0
    /\ LoggerHas = IF pc["logger"] = "print" THEN 1 ELSE 0
    /\ SensorHas' = IF pc'["sensor"] \in {"push", "update", "drop"} THEN 1 ELSE 0
    /\ SensorOwes' = IF pc'["sensor"] = "update" THEN 1 ELSE 0
    /\ ProcessorHas' = IF pc'["processor"] \in {"push", "update", "drop"} THEN 1 ELSE 0
    /\ ProcessorOwes' = IF pc'["processor"] = "update" THEN 1 ELSE 0
    /\ LoggerHas' = IF pc'["logger"] = "print" THEN 1 ELSE 0
  BY DEF SensorHas, SensorOwes, ProcessorHas, ProcessorOwes, LoggerHas, InHand

\* The other quantities it adds up.
Samples     == Total("samples")
Frames      == Total("frames")
SensorLost  == Total("sensor_drops")
ProcessorLost == Total("telemetry_drops")
ThroughSensorQueue    == Queued("sensor_queue")
ThroughTelemetryQueue == Queued("telemetry_queue")

\* Accounting, over these names.
Accounts ==
    /\ made = Samples + SensorLost + SensorHas
    /\ Samples + SensorOwes = Frames + ProcessorLost + ProcessorHas + ThroughSensorQueue
    /\ Frames + ProcessorOwes = printed + LoggerHas + ThroughTelemetryQueue

\* They are natural numbers.
AmountsOK ==
    /\ Samples \in Nat /\ Frames \in Nat /\ SensorLost \in Nat /\ ProcessorLost \in Nat
    /\ ThroughSensorQueue \in Nat /\ ThroughTelemetryQueue \in Nat
    /\ SensorHas \in Nat /\ SensorOwes \in Nat /\ ProcessorHas \in Nat
    /\ ProcessorOwes \in Nat /\ LoggerHas \in Nat
    /\ made \in Nat /\ printed \in Nat

LEMMA Amounts == ASSUME QueueOK, TallyOK, PlainOK PROVE AmountsOK
  <1>1. \A k \in Counters : Total(k) \in Nat
    BY DEF TallyOK, Total
  <1>2. \A q \in Queues : flushed[q] \in Nat /\ Len(queue[q]) \in Nat
    BY DEF TallyOK, QueueOK
  <1>3. ThroughSensorQueue \in Nat /\ ThroughTelemetryQueue \in Nat
    BY <1>2, Places DEF ThroughSensorQueue, ThroughTelemetryQueue, Queued
  <1>4. made \in Nat /\ printed \in Nat
    BY DEF PlainOK
  <1>5. Samples \in Nat /\ Frames \in Nat /\ SensorLost \in Nat /\ ProcessorLost \in Nat
    BY <1>1, Places DEF Samples, Frames, SensorLost, ProcessorLost
  <1> QED BY <1>3, <1>4, <1>5, Holdings DEF AmountsOK

LEMMA AccountsAre == Accounting <=> Accounts
  BY DEF Accounting, SensorAccount, ProcessorAccount, LoggerAccount, Accounts, Samples,
         Frames, SensorLost, ProcessorLost, ThroughSensorQueue, ThroughTelemetryQueue,
         SensorHas, SensorOwes, ProcessorHas, ProcessorOwes, LoggerHas

LEMMA AccountsAreNext == Accounting' <=> Accounts'
  BY AccountsAre, PTL

\* An item enters a queue that has room for it.
LEMMA AppendOK ==
    ASSUME QueueOK, NEW q \in Queues, NEW v \in Sample, Room(q),
           queue' = [queue EXCEPT ![q] = Append(@, v)], hand' = hand
    PROVE  /\ QueueOK' /\ Len(queue'[q]) = Len(queue[q]) + 1
           /\ \A r \in Queues : r # q => queue'[r] = queue[r]
  <1>1. queue[q] \in Seq(Sample) /\ Len(queue[q]) \in Nat
    BY DEF QueueOK
  <1>2. Append(queue[q], v) \in Seq(Sample) /\ Len(Append(queue[q], v)) = Len(queue[q]) + 1
    BY <1>1
  <1>3. Len(queue[q]) + 1 <= Capacity
    BY <1>1, HostAssumption DEF Room
  <1>4. /\ queue' \in [Queues -> Seq(Sample)]
        /\ queue'[q] = Append(queue[q], v)
        /\ \A r \in Queues : r # q => queue'[r] = queue[r]
    BY <1>2 DEF QueueOK
  <1> QED BY <1>2, <1>3, <1>4 DEF QueueOK

\* The oldest item leaves a queue.
LEMMA TailOK ==
    ASSUME QueueOK, NEW q \in Queues, queue[q] # <<>>,
           queue' = [queue EXCEPT ![q] = Tail(@)],
           NEW t \in Workers, hand' = [hand EXCEPT ![t] = Head(queue[q])]
    PROVE  /\ QueueOK' /\ Len(queue'[q]) = Len(queue[q]) - 1
           /\ \A r \in Queues : r # q => queue'[r] = queue[r]
  <1>1. queue[q] \in Seq(Sample) /\ Len(queue[q]) \in Nat /\ Len(queue[q]) <= Capacity
    BY DEF QueueOK
  <1>2. /\ Tail(queue[q]) \in Seq(Sample) /\ Len(Tail(queue[q])) = Len(queue[q]) - 1
        /\ Head(queue[q]) \in Sample
    BY <1>1
  <1>3. /\ queue' \in [Queues -> Seq(Sample)]
        /\ queue'[q] = Tail(queue[q])
        /\ \A r \in Queues : r # q => queue'[r] = queue[r]
    BY <1>2 DEF QueueOK
  <1>4. hand' \in [Workers -> Sample]
    BY <1>2 DEF QueueOK
  <1> QED BY <1>1, <1>2, <1>3, <1>4, HostAssumption DEF QueueOK

LEMMA PushStep ==
    ASSUME IInv, NEW t \in Producers, Push(t)
    PROVE  IInv'
  <1> DEFINE q == Into[t]
  <1>1. t \in Workers /\ t \in Threads /\ q \in Queues /\ hand[t] \in Sample
    BY Places DEF Producers, Workers, Threads, IInv, TypeOK, QueueOK
  <1>2. /\ UNCHANGED <<hand, flushed, counter, old, made, printed, burst>>
        /\ TallyOK' /\ PlainOK'
    BY DEF Push, commands, snapshot, round, making, output, IInv, TypeOK, TallyOK, PlainOK
  <1>3. CASE Room(q)
    <2>1. Step(t, "push", "update") /\ queue' = [queue EXCEPT ![q] = Append(@, hand[t])]
      BY <1>3 DEF Push
    <2>2. "update" \in Labels[t]
      BY LabelsOf DEF Producers
    <2>3. /\ PcOK' /\ pc[t] = "push" /\ pc'[t] = "update"
          /\ \A u \in Threads : u # t => pc'[u] = pc[u]
      BY <1>1, <2>1, <2>2, StepMoves DEF IInv, TypeOK
    <2>4. /\ QueueOK' /\ Len(queue'[q]) = Len(queue[q]) + 1
          /\ \A r \in Queues : r # q => queue'[r] = queue[r]
      BY <1>1, <1>2, <1>3, <2>1, AppendOK DEF IInv, TypeOK
    <2>0. Accounts /\ AmountsOK
      BY Amounts, AccountsAre DEF IInv, TypeOK
    <2>7. /\ Samples' = Samples /\ Frames' = Frames /\ SensorLost' = SensorLost
          /\ ProcessorLost' = ProcessorLost
      BY <1>2 DEF Samples, Frames, SensorLost, ProcessorLost, Total
    <2>5. Accounts'
      <3>1. CASE t = "sensor"
        <4>1. /\ SensorHas' = SensorHas /\ SensorOwes = 0 /\ SensorOwes' = 1
              /\ ProcessorHas' = ProcessorHas /\ ProcessorOwes' = ProcessorOwes
              /\ LoggerHas' = LoggerHas
          BY <2>3, <3>1, Holdings, Places
        <4>2. /\ ThroughSensorQueue' = ThroughSensorQueue + 1
              /\ ThroughTelemetryQueue' = ThroughTelemetryQueue
          <5>1. Len(queue["sensor_queue"]) \in Nat /\ flushed["sensor_queue"] \in Nat
            BY Places DEF IInv, TypeOK, QueueOK, TallyOK
          <5> QED BY <5>1, <1>2, <2>4, <3>1, Places DEF ThroughSensorQueue, ThroughTelemetryQueue, Queued
        <4> QED BY <1>2, <2>0, <2>7, <4>1, <4>2 DEF Accounts, AmountsOK
      <3>2. CASE t = "processor"
        <4>1. /\ SensorHas' = SensorHas /\ SensorOwes' = SensorOwes
              /\ ProcessorHas' = ProcessorHas /\ ProcessorOwes = 0 /\ ProcessorOwes' = 1
              /\ LoggerHas' = LoggerHas
          BY <2>3, <3>2, Holdings, Places
        <4>2. /\ ThroughTelemetryQueue' = ThroughTelemetryQueue + 1
              /\ ThroughSensorQueue' = ThroughSensorQueue
          <5>1. Len(queue["telemetry_queue"]) \in Nat /\ flushed["telemetry_queue"] \in Nat
            BY Places DEF IInv, TypeOK, QueueOK, TallyOK
          <5> QED BY <5>1, <1>2, <2>4, <3>2, Places DEF ThroughSensorQueue, ThroughTelemetryQueue, Queued
        <4> QED BY <1>2, <2>0, <2>7, <4>1, <4>2 DEF Accounts, AmountsOK
      <3> QED BY <3>1, <3>2 DEF Producers
    <2>8. Accounting'
      BY <2>5, AccountsAreNext
    <2>6. BurstInv'
      BY <1>2, <2>3, Places DEF IInv, BurstInv
    <2> QED BY <1>2, <2>3, <2>4, <2>6, <2>8 DEF IInv, TypeOK
  <1>4. CASE ~Room(q)
    <2>1. Step(t, "push", "drop") /\ queue' = queue
      BY <1>4 DEF Push
    <2>2. "drop" \in Labels[t]
      BY LabelsOf DEF Producers
    <2>3. /\ PcOK' /\ pc[t] = "push" /\ pc'[t] = "drop"
          /\ \A u \in Threads : u # t => pc'[u] = pc[u]
      BY <1>1, <2>1, <2>2, StepMoves DEF IInv, TypeOK
    <2>4. QueueOK'
      BY <1>2, <2>1 DEF IInv, TypeOK, QueueOK
    <2>5. /\ \A u \in Threads : pc[u] = "update" <=> pc'[u] = "update"
          /\ \A u \in Threads : pc[u] \in {"push", "update", "drop"}
                                  <=> pc'[u] \in {"push", "update", "drop"}
          /\ pc'["logger"] = pc["logger"]
      BY <2>3, Places DEF Producers
    <2>7. Accounting'
      BY <1>2, <2>1, <2>5, Places
         DEF IInv, Accounting, SensorAccount, ProcessorAccount, LoggerAccount, InHand, Total, Queued
    <2>6. BurstInv'
      BY <1>2, <2>3, Places DEF IInv, BurstInv
    <2> QED BY <1>2, <2>3, <2>4, <2>6, <2>7 DEF IInv, TypeOK
  <1> QED BY <1>3, <1>4

\* On to the next sample: nothing is in hand any more, and i is in range.
LEMMA ContinueMoves ==
    ASSUME IInv, NEW t \in Producers, NEW a \in {"update", "drop"}, Continue(t, a)
    PROVE  /\ PcOK' /\ pc[t] = a /\ pc'[t] \in {"loop", "next"}
           /\ \A u \in Threads : u # t => pc'[u] = pc[u]
           /\ hand' \in [Workers -> Sample]
           /\ burst' \in 0..BurstLen /\ mode' \in FaultModes /\ reg' \in Nat
           /\ BurstInv'
  <1>1. t \in Workers /\ t \in Threads /\ "sensor" \in Threads
    BY DEF Producers, Workers, Threads
  <1>2. hand' \in [Workers -> Sample]
    BY <1>1 DEF Continue, Grab, Blank, Sample, IInv, TypeOK, QueueOK
  <1>3. /\ burst \in 0..BurstLen /\ mode \in FaultModes /\ reg \in Nat
        /\ BurstLen \in Nat /\ "none" \in FaultModes
    BY HostAssumption DEF IInv, TypeOK, PlainOK
  <1>4. CASE t = "processor"
    <2>1. Step(t, a, "loop") /\ UNCHANGED round
      BY <1>4 DEF Continue
    <2>2. /\ PcOK' /\ pc[t] = a /\ pc'[t] = "loop"
          /\ \A u \in Threads : u # t => pc'[u] = pc[u]
      BY <1>1, <1>4, <2>1, StepMoves, LabelsOf DEF IInv, TypeOK
    <2>3. pc'["sensor"] = pc["sensor"] /\ burst' = burst /\ mode' = mode /\ reg' = reg
      BY <1>1, <1>4, <2>1, <2>2 DEF round
    <2>4. BurstInv'
      BY <2>3 DEF BurstInv, IInv
    <2> QED BY <1>2, <1>3, <2>2, <2>3, <2>4
  <1>5. CASE t = "sensor" /\ mode = "overflow"
    <2>1. Step(t, a, "next") /\ burst' = burst + 1 /\ mode' = mode /\ reg' = reg
      BY <1>5 DEF Continue
    <2>2. /\ PcOK' /\ pc[t] = a /\ pc'[t] = "next"
          /\ \A u \in Threads : u # t => pc'[u] = pc[u]
      BY <1>1, <1>5, <2>1, StepMoves, LabelsOf DEF IInv, TypeOK
    <2>3. burst < BurstLen
      BY <1>5, <2>2 DEF IInv, BurstInv
    <2>4. burst' \in 0..BurstLen
      BY <1>3, <2>1, <2>3
    <2>5. BurstInv'
      BY <1>5, <2>2 DEF BurstInv
    <2> QED BY <1>2, <1>3, <2>1, <2>2, <2>4, <2>5
  <1>6. CASE t = "sensor" /\ mode # "overflow"
    <2>1. Step(t, a, "loop") /\ burst' = 0 /\ mode' = "none" /\ reg' = reg
      BY <1>6 DEF Continue, EndRound
    <2>0. PcOK /\ "loop" \in Labels[t]
      BY <1>6, LabelsOf DEF IInv, TypeOK
    <2>2. /\ PcOK' /\ pc[t] = a /\ pc'[t] = "loop"
          /\ \A u \in Threads : u # t => pc'[u] = pc[u]
      BY <1>1, <2>0, <2>1, StepMoves
    <2>3. BurstInv'
      BY <1>6, <2>2 DEF BurstInv
    <2>4. 0 \in 0..BurstLen
      BY <1>3
    <2> QED BY <1>2, <1>3, <2>1, <2>2, <2>3, <2>4
  <1> QED BY <1>4, <1>5, <1>6 DEF Producers

\* One more of a counter.
LEMMA CountOK ==
    ASSUME TallyOK, NEW k \in Counters, Count(k), UNCHANGED <<old, flushed>>
    PROVE  /\ TallyOK' /\ Total(k)' = Total(k) + 1
           /\ \A j \in Counters : j # k => Total(j)' = Total(j)
  <1>1. /\ counter' \in [Counters -> Nat]
        /\ counter'[k] = counter[k] + 1 /\ counter[k] \in Nat /\ old[k] \in Nat
        /\ \A j \in Counters : j # k => counter'[j] = counter[j]
    BY DEF TallyOK, Count
  <1> QED BY <1>1 DEF TallyOK, Total

LEMMA UpdateStep ==
    ASSUME IInv, NEW t \in Producers, Update(t)
    PROVE  IInv'
  <1> DEFINE k == Accepted[t]
  <1>1. /\ UNCHANGED <<queue, flushed, old, made, printed>>
        /\ Continue(t, "update") /\ Count(k)
    BY DEF Update, making, output
  <1>2. /\ PcOK' /\ pc[t] = "update" /\ pc'[t] \in {"loop", "next"}
        /\ \A u \in Threads : u # t => pc'[u] = pc[u]
        /\ hand' \in [Workers -> Sample]
        /\ burst' \in 0..BurstLen /\ mode' \in FaultModes /\ reg' \in Nat
        /\ BurstInv'
    BY <1>1, ContinueMoves
  <1>3. QueueOK'
    BY <1>1, <1>2 DEF IInv, TypeOK, QueueOK
  <1>4. latest' \in Nat
    BY DEF Update, IInv, TypeOK, QueueOK, Sample, Producers, Workers
  <1>5. PlainOK'
    BY <1>2, <1>4 DEF Update, commands, making, output, IInv, TypeOK, PlainOK
  <1>6. k \in Counters
    BY Places DEF Producers
  <1>7. /\ TallyOK' /\ Total(k)' = Total(k) + 1
        /\ \A j \in Counters : j # k => Total(j)' = Total(j)
    BY <1>1, <1>6, CountOK DEF IInv, TypeOK
  <1>8. /\ Accounts /\ AmountsOK
        /\ ThroughSensorQueue' = ThroughSensorQueue
        /\ ThroughTelemetryQueue' = ThroughTelemetryQueue
    BY <1>1, Amounts, AccountsAre
       DEF IInv, TypeOK, ThroughSensorQueue, ThroughTelemetryQueue, Queued
  <1>9. Accounts'
    <2>1. CASE t = "sensor"
      <3>1. /\ SensorHas = 1 /\ SensorHas' = 0 /\ SensorOwes = 1 /\ SensorOwes' = 0
            /\ ProcessorHas' = ProcessorHas /\ ProcessorOwes' = ProcessorOwes
            /\ LoggerHas' = LoggerHas
        BY <1>2, <2>1, Holdings, Places
      <3>2. /\ Samples' = Samples + 1 /\ Frames' = Frames /\ SensorLost' = SensorLost
            /\ ProcessorLost' = ProcessorLost
        BY <1>7, <2>1, Places DEF Samples, Frames, SensorLost, ProcessorLost
      <3> QED BY <1>1, <1>8, <3>1, <3>2 DEF Accounts, AmountsOK
    <2>2. CASE t = "processor"
      <3>1. /\ SensorHas' = SensorHas /\ SensorOwes' = SensorOwes
            /\ ProcessorHas = 1 /\ ProcessorHas' = 0
            /\ ProcessorOwes = 1 /\ ProcessorOwes' = 0
            /\ LoggerHas' = LoggerHas
        BY <1>2, <2>2, Holdings, Places
      <3>2. /\ Frames' = Frames + 1 /\ Samples' = Samples /\ SensorLost' = SensorLost
            /\ ProcessorLost' = ProcessorLost
        BY <1>7, <2>2, Places DEF Samples, Frames, SensorLost, ProcessorLost
      <3> QED BY <1>1, <1>8, <3>1, <3>2 DEF Accounts, AmountsOK
    <2> QED BY <2>1, <2>2 DEF Producers
  <1> QED BY <1>2, <1>3, <1>5, <1>7, <1>9, AccountsAreNext DEF IInv, TypeOK

LEMMA DropStep ==
    ASSUME IInv, NEW t \in Producers, prvIncrementDrop(t)
    PROVE  IInv'
  <1> DEFINE k == Refused[t]
  <1>1. /\ UNCHANGED <<queue, flushed, old, made, printed>>
        /\ Continue(t, "drop") /\ Count(k)
    BY DEF prvIncrementDrop, making, output
  <1>2. /\ PcOK' /\ pc[t] = "drop" /\ pc'[t] \in {"loop", "next"}
        /\ \A u \in Threads : u # t => pc'[u] = pc[u]
        /\ hand' \in [Workers -> Sample]
        /\ burst' \in 0..BurstLen /\ mode' \in FaultModes /\ reg' \in Nat
        /\ BurstInv'
    BY <1>1, ContinueMoves
  <1>3. QueueOK'
    BY <1>1, <1>2 DEF IInv, TypeOK, QueueOK
  <1>5. PlainOK'
    BY <1>2 DEF prvIncrementDrop, commands, making, output, IInv, TypeOK, PlainOK
  <1>6. k \in Counters
    BY Places DEF Producers
  <1>7. /\ TallyOK' /\ Total(k)' = Total(k) + 1
        /\ \A j \in Counters : j # k => Total(j)' = Total(j)
    BY <1>1, <1>6, CountOK DEF IInv, TypeOK
  <1>8. /\ Accounts /\ AmountsOK
        /\ ThroughSensorQueue' = ThroughSensorQueue
        /\ ThroughTelemetryQueue' = ThroughTelemetryQueue
    BY <1>1, Amounts, AccountsAre
       DEF IInv, TypeOK, ThroughSensorQueue, ThroughTelemetryQueue, Queued
  <1>9. Accounts'
    <2>1. CASE t = "sensor"
      <3>1. /\ SensorHas = 1 /\ SensorHas' = 0 /\ SensorOwes' = SensorOwes
            /\ ProcessorHas' = ProcessorHas /\ ProcessorOwes' = ProcessorOwes
            /\ LoggerHas' = LoggerHas
        BY <1>2, <2>1, Holdings, Places
      <3>2. /\ SensorLost' = SensorLost + 1 /\ Samples' = Samples /\ Frames' = Frames
            /\ ProcessorLost' = ProcessorLost
        BY <1>7, <2>1, Places DEF Samples, Frames, SensorLost, ProcessorLost
      <3> QED BY <1>1, <1>8, <3>1, <3>2 DEF Accounts, AmountsOK
    <2>2. CASE t = "processor"
      <3>1. /\ SensorHas' = SensorHas /\ SensorOwes' = SensorOwes
            /\ ProcessorHas = 1 /\ ProcessorHas' = 0 /\ ProcessorOwes' = ProcessorOwes
            /\ LoggerHas' = LoggerHas
        BY <1>2, <2>2, Holdings, Places
      <3>2. /\ ProcessorLost' = ProcessorLost + 1 /\ Samples' = Samples
            /\ SensorLost' = SensorLost /\ Frames' = Frames
        BY <1>7, <2>2, Places DEF Samples, Frames, SensorLost, ProcessorLost
      <3> QED BY <1>1, <1>8, <3>1, <3>2 DEF Accounts, AmountsOK
    <2> QED BY <2>1, <2>2 DEF Producers
  <1> QED BY <1>2, <1>3, <1>5, <1>7, <1>9, AccountsAreNext DEF IInv, TypeOK

\* queue_pop hands the oldest item to its caller.
LEMMA PopStep ==
    ASSUME IInv, NEW t \in Poppers, Pop(t)
    PROVE  IInv'
  <1> DEFINE q == From[t]
             b == IF t = "logger" THEN "print" ELSE "push"
  <1>1. /\ UNCHANGED <<flushed, counter, old, made, printed, burst>>
        /\ queue[q] # <<>> /\ queue' = [queue EXCEPT ![q] = Tail(@)]
        /\ hand' = [hand EXCEPT ![t] = Head(queue[q])]
        /\ Step(t, pc[t], b) /\ pc[t] \in {"pop", "wait"}
    BY DEF Pop, Grab, Oldest, commands, snapshot, round, making, output
  <1>2. t \in Workers /\ t \in Threads /\ q \in Queues /\ b \in Labels[t]
    BY LabelsOf, Places DEF Poppers, Workers, Threads
  <1>3. /\ PcOK' /\ pc'[t] = b /\ \A u \in Threads : u # t => pc'[u] = pc[u]
    BY <1>1, <1>2, StepMoves DEF IInv, TypeOK
  <1>4. /\ QueueOK' /\ Len(queue'[q]) = Len(queue[q]) - 1
        /\ \A r \in Queues : r # q => queue'[r] = queue[r]
    BY <1>1, <1>2, TailOK DEF IInv, TypeOK
  <1>5. TallyOK' /\ PlainOK'
    BY DEF Pop, commands, snapshot, round, making, output, IInv, TypeOK, TallyOK, PlainOK
  <1>6. BurstInv'
    BY <1>1, <1>3, Places DEF IInv, BurstInv, Poppers
  <1>7. /\ Accounts /\ AmountsOK
        /\ Samples' = Samples /\ Frames' = Frames /\ SensorLost' = SensorLost
        /\ ProcessorLost' = ProcessorLost
    BY <1>1, Amounts, AccountsAre
       DEF IInv, TypeOK, Samples, Frames, SensorLost, ProcessorLost, Total
  <1>8. Accounts'
    <2>1. CASE t = "processor"
      <3>1. /\ SensorHas' = SensorHas /\ SensorOwes' = SensorOwes
            /\ ProcessorHas = 0 /\ ProcessorHas' = 1 /\ ProcessorOwes' = ProcessorOwes
            /\ LoggerHas' = LoggerHas
        BY <1>1, <1>3, <2>1, Holdings, Places
      <3>2. /\ ThroughSensorQueue' = ThroughSensorQueue - 1
            /\ ThroughTelemetryQueue' = ThroughTelemetryQueue
        <4>1. Len(queue["sensor_queue"]) \in Nat /\ flushed["sensor_queue"] \in Nat
          BY Places DEF IInv, TypeOK, QueueOK, TallyOK
        <4> QED BY <4>1, <1>1, <1>4, <2>1, Places
                DEF ThroughSensorQueue, ThroughTelemetryQueue, Queued
      <3> QED BY <1>1, <1>7, <3>1, <3>2 DEF Accounts, AmountsOK
    <2>2. CASE t = "logger"
      <3>1. /\ SensorHas' = SensorHas /\ SensorOwes' = SensorOwes
            /\ ProcessorHas' = ProcessorHas /\ ProcessorOwes' = ProcessorOwes
            /\ LoggerHas = 0 /\ LoggerHas' = 1
        BY <1>1, <1>3, <2>2, Holdings, Places
      <3>2. /\ ThroughTelemetryQueue' = ThroughTelemetryQueue - 1
            /\ ThroughSensorQueue' = ThroughSensorQueue
        <4>1. Len(queue["telemetry_queue"]) \in Nat /\ flushed["telemetry_queue"] \in Nat
          BY Places DEF IInv, TypeOK, QueueOK, TallyOK
        <4> QED BY <4>1, <1>1, <1>4, <2>2, Places
                DEF ThroughSensorQueue, ThroughTelemetryQueue, Queued
      <3> QED BY <1>1, <1>7, <3>1, <3>2 DEF Accounts, AmountsOK
    <2> QED BY <2>1, <2>2 DEF Poppers
  <1> QED BY <1>3, <1>4, <1>5, <1>6, <1>8, AccountsAreNext DEF IInv, TypeOK

LEMMA PrintStep == ASSUME IInv, LoggerPrint PROVE IInv'
  <1>1. /\ UNCHANGED <<queue, flushed, counter, old, made, burst>>
        /\ Step("logger", "print", "loop") /\ printed' = printed + 1
    BY DEF LoggerPrint, snapshot, round, making
  <1>2. /\ PcOK' /\ pc["logger"] = "print" /\ pc'["logger"] = "loop"
        /\ \A u \in Threads : u # "logger" => pc'[u] = pc[u]
    BY <1>1, StepMoves, LabelsOf, Places DEF IInv, TypeOK
  <1>3. QueueOK'
    BY <1>1 DEF LoggerPrint, Grab, Blank, Sample, IInv, TypeOK, QueueOK
  <1>4. TallyOK'
    BY <1>1 DEF IInv, TypeOK, TallyOK
  <1>5. hand["logger"].id \in Nat
    BY DEF IInv, TypeOK, QueueOK, Sample, Workers
  <1>6. PlainOK'
    BY <1>5 DEF LoggerPrint, commands, snapshot, round, making, IInv, TypeOK, PlainOK
  <1>7. BurstInv'
    BY <1>1, <1>2, Places DEF IInv, BurstInv
  <1>8. /\ Accounts /\ AmountsOK
        /\ Samples' = Samples /\ Frames' = Frames /\ SensorLost' = SensorLost
        /\ ProcessorLost' = ProcessorLost
        /\ ThroughSensorQueue' = ThroughSensorQueue
        /\ ThroughTelemetryQueue' = ThroughTelemetryQueue
    BY <1>1, Amounts, AccountsAre
       DEF IInv, TypeOK, Samples, Frames, SensorLost, ProcessorLost, Total,
           ThroughSensorQueue, ThroughTelemetryQueue, Queued
  <1>9. Accounts'
    <2>1. /\ SensorHas' = SensorHas /\ SensorOwes' = SensorOwes
          /\ ProcessorHas' = ProcessorHas /\ ProcessorOwes' = ProcessorOwes
          /\ LoggerHas = 1 /\ LoggerHas' = 0
      BY <1>2, Holdings, Places
    <2> QED BY <1>1, <1>8, <2>1 DEF Accounts, AmountsOK
  <1> QED BY <1>2, <1>3, <1>4, <1>6, <1>7, <1>9, AccountsAreNext DEF IInv, TypeOK

LEMMA MakeStep == ASSUME IInv, prvMakeSensorSample PROVE IInv'
  <1>1. /\ UNCHANGED <<queue, flushed, counter, old, printed, burst>>
        /\ Step("sensor", "make", "push") /\ made' = made + 1
    BY DEF prvMakeSensorSample, snapshot, output
  <1>2. /\ PcOK' /\ pc["sensor"] = "make" /\ pc'["sensor"] = "push"
        /\ \A u \in Threads : u # "sensor" => pc'[u] = pc[u]
    BY <1>1, StepMoves, LabelsOf, Places DEF IInv, TypeOK
  <1>3. QueueOK'
    <2>1. made + 1 \in Nat /\ reg \in Nat /\ fault_code \in BOOLEAN
      BY DEF IInv, TypeOK, PlainOK, fault_code
    <2>2. [id |-> made + 1, seq |-> reg, bad |-> fault_code] \in Sample
      BY <2>1 DEF Sample
    <2> QED BY <1>1, <2>2 DEF prvMakeSensorSample, Grab, IInv, TypeOK, QueueOK
  <1>4. TallyOK'
    BY <1>1 DEF IInv, TypeOK, TallyOK
  <1>6. PlainOK'
    BY DEF prvMakeSensorSample, commands, snapshot, output, IInv, TypeOK, PlainOK
  <1>7. BurstInv'
    BY <1>1, <1>2 DEF IInv, BurstInv
  <1>8. /\ Accounts /\ AmountsOK
        /\ Samples' = Samples /\ Frames' = Frames /\ SensorLost' = SensorLost
        /\ ProcessorLost' = ProcessorLost
        /\ ThroughSensorQueue' = ThroughSensorQueue
        /\ ThroughTelemetryQueue' = ThroughTelemetryQueue
    BY <1>1, Amounts, AccountsAre
       DEF IInv, TypeOK, Samples, Frames, SensorLost, ProcessorLost, Total,
           ThroughSensorQueue, ThroughTelemetryQueue, Queued
  <1>9. Accounts'
    <2>1. /\ SensorHas = 0 /\ SensorHas' = 1 /\ SensorOwes' = SensorOwes
          /\ ProcessorHas' = ProcessorHas /\ ProcessorOwes' = ProcessorOwes
          /\ LoggerHas' = LoggerHas
      BY <1>2, Holdings, Places
    <2> QED BY <1>1, <1>8, <2>1 DEF Accounts, AmountsOK
  <1> QED BY <1>2, <1>3, <1>4, <1>6, <1>7, <1>9, AccountsAreNext DEF IInv, TypeOK

-----------------------------------------------------------------------------
(* Steps of the main thread.                                               *)

\* A step of the main thread leaves the holdings as they are.
LEMMA MainHoldsNothing ==
    ASSUME \A u \in Threads : u # "main" => pc'[u] = pc[u]
    PROVE  /\ SensorHas' = SensorHas /\ SensorOwes' = SensorOwes
           /\ ProcessorHas' = ProcessorHas /\ ProcessorOwes' = ProcessorOwes
           /\ LoggerHas' = LoggerHas /\ pc'["sensor"] = pc["sensor"]
  BY Holdings, Places

\* queue_clear moves what was queued into flushed.
LEMMA ClearStep ==
    ASSUME IInv, NEW q \in Queues, NEW a, NEW b \in Labels["main"], queue_clear(q, a, b)
    PROVE  IInv'
  <1>1. /\ UNCHANGED <<hand, counter, old, made, printed, burst>>
        /\ Step("main", a, b) /\ "main" \in Threads
        /\ queue' = [queue EXCEPT ![q] = <<>>]
        /\ flushed' = [flushed EXCEPT ![q] = @ + Len(queue[q])]
    BY DEF queue_clear, snapshot, round, making, output, Threads
  <1>2. PcOK' /\ \A u \in Threads : u # "main" => pc'[u] = pc[u]
    BY <1>1, StepMoves DEF IInv, TypeOK
  <1>3. \A r \in Queues : queue[r] \in Seq(Sample) /\ Len(queue[r]) \in Nat
                          /\ flushed[r] \in Nat /\ Len(queue[r]) <= Capacity
    BY DEF IInv, TypeOK, QueueOK, TallyOK
  <1>4. /\ queue' \in [Queues -> Seq(Sample)] /\ queue'[q] = <<>>
        /\ \A r \in Queues : r # q => queue'[r] = queue[r]
    BY <1>1 DEF IInv, TypeOK, QueueOK
  <1>5. /\ flushed' \in [Queues -> Nat] /\ flushed'[q] = flushed[q] + Len(queue[q])
        /\ \A r \in Queues : r # q => flushed'[r] = flushed[r]
    BY <1>1, <1>3 DEF IInv, TypeOK, TallyOK
  <1>6. QueueOK'
    <2>1. Len(queue'[q]) = 0 /\ 0 <= Capacity
      BY <1>4, HostAssumption
    <2> QED BY <1>1, <1>3, <1>4, <2>1 DEF IInv, TypeOK, QueueOK
  <1>7. TallyOK'
    BY <1>1, <1>5 DEF IInv, TypeOK, TallyOK
  <1>8. PlainOK'
    BY DEF queue_clear, commands, snapshot, round, making, output, IInv, TypeOK, PlainOK
  <1>9. BurstInv'
    BY <1>1, <1>2, Places DEF IInv, BurstInv, Threads
  <1>10. \A r \in Queues : Queued(r)' = Queued(r)
    <2>1. Queued(q)' = Queued(q)
      BY <1>3, <1>4, <1>5 DEF Queued
    <2>2. ASSUME NEW r \in Queues, r # q PROVE Queued(r)' = Queued(r)
      BY <2>2, <1>4, <1>5 DEF Queued
    <2> QED BY <2>1, <2>2
  <1>11. Accounts'
    <2>1. Accounts
      BY AccountsAre DEF IInv
    <2>2. /\ Samples' = Samples /\ Frames' = Frames /\ SensorLost' = SensorLost
          /\ ProcessorLost' = ProcessorLost
          /\ ThroughSensorQueue' = ThroughSensorQueue
          /\ ThroughTelemetryQueue' = ThroughTelemetryQueue
      BY <1>1, <1>10, Places DEF Samples, Frames, SensorLost, ProcessorLost, Total,
         ThroughSensorQueue, ThroughTelemetryQueue
    <2> QED BY <1>1, <1>2, <2>1, <2>2, MainHoldsNothing DEF Accounts
  <1> QED BY <1>2, <1>6, <1>7, <1>8, <1>9, <1>11, AccountsAreNext DEF IInv, TypeOK

\* prvInitSnapshot moves the counters into old.
LEMMA ResetStep == ASSUME IInv, ecu_reset PROVE IInv'
  <1>1. /\ UNCHANGED <<hand, queue, flushed, made, printed, burst>>
        /\ Step("main", "cmd", "reset_sensor") /\ "main" \in Threads
        /\ counter' = [k \in Counters |-> 0]
        /\ old' = [k \in Counters |-> old[k] + counter[k]]
    BY DEF ecu_reset, round, output, Threads
  <1>2. PcOK' /\ \A u \in Threads : u # "main" => pc'[u] = pc[u]
    BY <1>1, StepMoves, LabelsOf DEF IInv, TypeOK
  <1>3. QueueOK'
    BY <1>1 DEF IInv, TypeOK, QueueOK
  <1>4. TallyOK'
    BY <1>1 DEF IInv, TypeOK, TallyOK
  <1>5. PlainOK'
    BY HostAssumption DEF ecu_reset, round, output, IInv, TypeOK, PlainOK
  <1>6. BurstInv'
    BY <1>1, <1>2, Places DEF IInv, BurstInv, Threads
  <1>7. \A k \in Counters : Total(k)' = Total(k)
    BY <1>1 DEF Total, IInv, TypeOK, TallyOK
  <1>8. Accounts'
    <2>1. Accounts
      BY AccountsAre DEF IInv
    <2>2. /\ Samples' = Samples /\ Frames' = Frames /\ SensorLost' = SensorLost
          /\ ProcessorLost' = ProcessorLost
          /\ ThroughSensorQueue' = ThroughSensorQueue
          /\ ThroughTelemetryQueue' = ThroughTelemetryQueue
      BY <1>1, <1>7, Places DEF Samples, Frames, SensorLost, ProcessorLost,
         ThroughSensorQueue, ThroughTelemetryQueue, Queued
    <2> QED BY <1>1, <1>2, <2>1, <2>2, MainHoldsNothing DEF Accounts
  <1> QED BY <1>2, <1>3, <1>4, <1>5, <1>6, <1>8, AccountsAreNext DEF IInv, TypeOK

\* Before ecu_start there are no other threads.
BornInv == pc["main"] = "start" => \A t \in Workers : pc[t] = "unborn"

LEMMA StartStep == ASSUME IInv, BornInv, ecu_start PROVE IInv'
  <1>1. /\ UNCHANGED <<hand, queue, flushed, counter, old, made, printed, burst>>
        /\ \A t \in Workers : pc[t] = "unborn"
        /\ pc' = [t \in Threads |-> IF t = "main" THEN "cmd" ELSE "loop"]
    BY DEF ecu_start, BornInv, snapshot, round, making, output
  <1>2. PcOK'
    <2>1. \A t \in Threads : t \in {"sensor", "processor", "logger", "watchdog", "main"}
      BY DEF Threads, Workers
    <2>2. \A t \in Threads : pc'[t] \in Labels[t]
      BY <1>1, <2>1, LabelsOf
    <2>3. pc' = [t \in Threads |-> pc'[t]]
      BY <1>1
    <2> QED BY <2>2, <2>3 DEF PcOK
  <1>3. QueueOK'
    BY <1>1 DEF IInv, TypeOK, QueueOK
  <1>4. TallyOK'
    BY <1>1 DEF IInv, TypeOK, TallyOK
  <1>5. PlainOK'
    BY DEF ecu_start, commands, snapshot, round, making, output, IInv, TypeOK, PlainOK
  <1>6. /\ pc["sensor"] = "unborn" /\ pc["processor"] = "unborn" /\ pc["logger"] = "unborn"
        /\ pc'["sensor"] = "loop" /\ pc'["processor"] = "loop" /\ pc'["logger"] = "loop"
    BY <1>1, Places DEF Workers
  <1>7. BurstInv'
    BY <1>6 DEF BurstInv
  <1>8. Accounts'
    <2>1. Accounts
      BY AccountsAre DEF IInv
    <2>2. /\ Samples' = Samples /\ Frames' = Frames /\ SensorLost' = SensorLost
          /\ ProcessorLost' = ProcessorLost
          /\ ThroughSensorQueue' = ThroughSensorQueue
          /\ ThroughTelemetryQueue' = ThroughTelemetryQueue
      BY <1>1 DEF Samples, Frames, SensorLost, ProcessorLost, Total,
         ThroughSensorQueue, ThroughTelemetryQueue, Queued
    <2>3. /\ SensorHas' = SensorHas /\ SensorOwes' = SensorOwes
          /\ ProcessorHas' = ProcessorHas /\ ProcessorOwes' = ProcessorOwes
          /\ LoggerHas' = LoggerHas
      BY <1>6, Holdings
    <2> QED BY <1>1, <2>1, <2>2, <2>3 DEF Accounts
  <1> QED BY <1>2, <1>3, <1>4, <1>5, <1>7, <1>8, AccountsAreNext DEF IInv, TypeOK

\* A thread that takes a step has been born, so the main thread is past start;
\* and it never returns there.
LEMMA BornStep == ASSUME IInv, BornInv, [Next]_vars PROVE BornInv'
  <1>1. /\ pc = [t \in Threads |-> pc[t]] /\ "main" \in Threads
        /\ \A t \in Workers : t \in Threads /\ t # "main"
    BY DEF IInv, TypeOK, PcOK, Threads, Workers
  <1>2. ASSUME NEW t \in Workers, Thread(t) PROVE BornInv'
    <2>1. PICK a, b : Step(t, a, b) /\ a # "unborn"
      <3>1. CASE Loop(t)
        BY <3>1 DEF Loop
      <3>2. CASE Push(t) \/ Update(t) \/ prvIncrementDrop(t)
        BY <3>2 DEF Push, Update, prvIncrementDrop, Continue, EndRound
      <3>3. CASE Pop(t)
        BY <3>3 DEF Pop
      <3>4. CASE Wait(t) \/ Timeout(t)
        BY <3>4 DEF Wait, Timeout
      <3>5. CASE t = "logger" /\ LoggerPrint
        BY <3>5 DEF LoggerPrint
      <3>6. CASE t = "sensor" /\ (SensorMode \/ SensorNext \/ SensorLoad \/ SensorStore
                                 \/ prvMakeSensorSample)
        BY <3>6 DEF SensorMode, SensorNext, SensorLoad, SensorStore, prvMakeSensorSample,
                    EndRound
      <3> QED BY <1>2, <3>1, <3>2, <3>3, <3>4, <3>5, <3>6 DEF Thread
    <2>2. pc["main"] # "start" /\ pc'["main"] = pc["main"]
      BY <1>1, <2>1 DEF BornInv, Step
    <2> QED BY <2>2 DEF BornInv
  <1>3. CASE Main \/ Command
    <2>1. pc'["main"] # "start"
      BY <1>1, <1>3 DEF Main, Command, ecu_start, queue_clear, JoinAndDestroy, ecu_set_fault,
         ecu_reset, ecu_stop, Step
    <2> QED BY <2>1 DEF BornInv
  <1>4. CASE Exited \/ UNCHANGED vars
    BY <1>4 DEF Exited, vars, BornInv
  <1> QED BY <1>2, <1>3, <1>4 DEF Next

-----------------------------------------------------------------------------
(* The theorems.                                                           *)

LEMMA NextIInv == ASSUME IInv, BornInv, [Next]_vars PROVE IInv'
  <1>1. ASSUME NEW t \in Workers, Thread(t) PROVE IInv'
    <2>1. CASE Loop(t)
      BY <2>1, LoopStep
    <2>2. CASE t \in Producers /\ Push(t)
      BY <2>2, PushStep
    <2>3. CASE t \in Producers /\ Update(t)
      BY <2>3, UpdateStep
    <2>4. CASE t \in Producers /\ prvIncrementDrop(t)
      BY <2>4, DropStep
    <2>5. CASE t \in Poppers /\ Pop(t)
      BY <2>5, PopStep
    <2>6. CASE t \in Poppers /\ (Wait(t) \/ Timeout(t))
      BY <2>6, WaitStep
    <2>7. CASE LoggerPrint
      BY <2>7, PrintStep
    <2>8. CASE SensorMode \/ SensorNext \/ SensorLoad \/ SensorStore
      BY <2>8, SensorPrepares
    <2>9. CASE prvMakeSensorSample
      BY <2>9, MakeStep
    <2> QED BY <1>1, <2>1, <2>2, <2>3, <2>4, <2>5, <2>6, <2>7, <2>8, <2>9 DEF Thread
  <1>2. CASE ecu_start
    BY <1>2, StartStep
  <1>3. CASE ecu_reset
    BY <1>3, ResetStep
  <1>4. CASE ecu_stop \/ JoinAndDestroy \/ \E m \in FaultModes : ecu_set_fault(m)
    BY <1>4, MainQuiet
  <1>5. ASSUME NEW q \in Queues, NEW a, NEW b \in Labels["main"], queue_clear(q, a, b)
        PROVE  IInv'
    BY <1>5, ClearStep
  <1>6. CASE Main
    <2>1. /\ "reset_telemetry" \in Labels["main"] /\ "cmd" \in Labels["main"]
          /\ "stop_telemetry" \in Labels["main"] /\ "join" \in Labels["main"]
      BY LabelsOf
    <2>2. CASE queue_clear("sensor_queue", "reset_sensor", "reset_telemetry")
      BY <1>5, <2>1, <2>2, Places
    <2>3. CASE queue_clear("telemetry_queue", "reset_telemetry", "cmd")
      BY <1>5, <2>1, <2>3, Places
    <2>4. CASE queue_clear("sensor_queue", "stop_sensor", "stop_telemetry")
      BY <1>5, <2>1, <2>4, Places
    <2>5. CASE queue_clear("telemetry_queue", "stop_telemetry", "join")
      BY <1>5, <2>1, <2>5, Places
    <2> QED BY <1>2, <1>4, <1>6, <2>2, <2>3, <2>4, <2>5 DEF Main
  <1>7. CASE Exited \/ UNCHANGED vars
    <2>1. UNCHANGED vars
      BY <1>7 DEF Exited
    <2>2. /\ UNCHANGED <<pc, hand, queue, flushed, fault_mode, stop_requested, resets, faults>>
          /\ UNCHANGED <<resetAt, faultAt, counter, latest, old, mode, burst, reg>>
          /\ UNCHANGED <<sensor_sequence, made, logged, printed>>
      BY <2>1 DEF vars, commands, snapshot, round, making, output
    <2>3. TypeOK' /\ BurstInv'
      BY <2>2 DEF IInv, TypeOK, PcOK, QueueOK, TallyOK, PlainOK, BurstInv
    <2>4. Accounting'
      BY <2>2 DEF IInv, Accounting, SensorAccount, ProcessorAccount, LoggerAccount, InHand,
                  Total, Queued
    <2> QED BY <2>3, <2>4 DEF IInv
  <1> QED BY <1>1, <1>3, <1>4, <1>6, <1>7 DEF Next, Command

LEMMA SpecIInv == Spec => [](IInv /\ BornInv)
  <1>1. Init => BornInv
    BY DEF Init, BornInv, Workers, Threads
  <1>2. IInv /\ BornInv /\ [Next]_vars => IInv' /\ BornInv'
    BY NextIInv, BornStep
  <1> QED BY <1>1, <1>2, InitIInv, PTL DEF Spec

\* No thread leaves the labels of its code, no queue of the pipeline outgrows
\* its capacity and the overflow loop's i never passes its bound.
THEOREM TypeCorrect == Spec => []TypeOK
  BY SpecIInv, PTL DEF IInv

\* Every sample that prvSensorThread makes is, at all times, in exactly one
\* place: in a thread's hands, queued, counted as dropped, flushed or printed,
\* whatever the capacity and however many samples, resets and faults there are.
THEOREM AccountsBalance == Spec => []Accounting
  BY SpecIInv, PTL DEF IInv
============================================================================
