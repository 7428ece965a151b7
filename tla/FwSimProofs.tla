---------------------------- MODULE FwSimProofs ----------------------------
(***************************************************************************)
(* Theorems about FwSim, for every capacity, burst length, script and      *)
(* bound.                                                                  *)
(*                                                                         *)
(* The inductive invariant has three parts: the types, with a round that   *)
(* has samples left whenever one is made; the heartbeats, where a bit that *)
(* is set was beaten for; and Accounting.  Most actions are quiet: they    *)
(* neither move a sample nor count one.  StatsInv, what prvPrintStats has  *)
(* read, and OrderInv are inductive on top of it.                          *)
(***************************************************************************)
EXTENDS FwSim, TLAPS

PcOK == DOMAIN pc = Tasks /\ \A t \in Tasks : pc[t] \in Labels[t]
QueueOK == /\ hand \in [Monitored -> Items]
           /\ queue \in [Queues -> Seq(Items)] /\ \A q \in Queues : Len(queue[q]) <= Capacity
TallyOK == /\ counter \in [Counters -> Nat] /\ old \in [Counters -> Nat]
           /\ flushed \in [Queues -> Nat] /\ printed \in Seq(Nat)
EventsOK == /\ bits \subseteq Monitored /\ timeouts \in 0..MaxTimeouts
            /\ beaten \subseteq Monitored /\ vouched \subseteq Monitored
PlainOK == /\ kick \in BOOLEAN /\ fault_mode \in FaultModes
           /\ sequence \in Nat /\ resetAt \in Nat
           /\ left \in 0..BurstLen + 1 /\ at \in 1..Len(Script) + 1
           /\ ticks \in 0..MaxTicks

\* TypeOK but for what prvPrintStats has read, which StatsInv below has.
TypesInv == PcOK /\ QueueOK /\ TallyOK /\ EventsOK /\ PlainOK

LEMMA TypeParts == TypesInv <=> PcOK /\ QueueOK /\ TallyOK /\ EventsOK /\ PlainOK
  BY DEF TypesInv

LEMMA TypePartsNext == TypesInv' <=> PcOK' /\ QueueOK' /\ TallyOK' /\ EventsOK' /\ PlainOK'
  BY TypeParts, PTL

\* A sample is made only while the round has some left.
LeftInv == pc["sensor"] = "make" => left > 0

\* Whose bit is set has beaten since the bits were cleared.
BeatInv == bits \subseteq beaten /\ HealthyMeansAllBeat

\* A command of several steps is under way only while it is in the script.
AtInv == pc["diag"] \in {"stats", "reset_sensor", "reset_telemetry", "reset_bits"} =>
            at <= Len(Script)

\* What the resets took from the counters is what had been made until then.
ResetInv == resetAt = old["samples"] + old["sensor_drops"]

IInv == TypesInv /\ LeftInv /\ AtInv /\ BeatInv /\ ResetInv /\ Accounting

-----------------------------------------------------------------------------
(* Labels, steps and holdings.                                             *)

LEMMA LabelsOf ==
    /\ Labels["sensor"] = {"take", "beat", "mode", "make", "send", "count", "drop"}
    /\ Labels["processor"] = {"receive", "beat", "check", "mode", "stall", "send", "count",
                              "drop"}
    /\ Labels["logger"] = {"receive", "beat", "print"}
    /\ Labels["watchdog"] = {"call", "wait", "late", "healthy", "warn"}
    /\ Labels["diag"] = {"delay", "cmd", "stats", "reset_sensor", "reset_telemetry",
                         "reset_bits", "exited"}
    /\ Tasks = {"sensor", "processor", "logger", "watchdog", "diag"}
    /\ Monitored = {"sensor", "processor", "logger"}
  BY DEF Labels, Tasks, Monitored

\* A call moves one task.
LEMMA StepMoves ==
    ASSUME PcOK, NEW t \in Tasks, NEW a, NEW b \in Labels[t], Step(t, a, b)
    PROVE  /\ PcOK'
           /\ pc[t] = a /\ pc'[t] = b
           /\ \A u \in Tasks : u # t => pc'[u] = pc[u]
  BY DEF PcOK, Step

\* What each task holds, and what it has sent and not yet counted.
SensorHas     == InHand("sensor", {"send", "count", "drop"})
SensorOwes    == InHand("sensor", {"count"})
ProcessorHas  == InHand("processor", Labels["processor"] \ {"receive"})
ProcessorOwes == InHand("processor", {"count"})
LoggerHas     == InHand("logger", {"beat", "print"})
holdings == <<SensorHas, SensorOwes, ProcessorHas, ProcessorOwes, LoggerHas>>

LEMMA Holdings ==
    ASSUME PcOK
    PROVE  /\ SensorHas = IF pc["sensor"] \in {"send", "count", "drop"} THEN 1 ELSE 0
           /\ SensorOwes = IF pc["sensor"] = "count" THEN 1 ELSE 0
           /\ ProcessorHas = IF pc["processor"] = "receive" THEN 0 ELSE 1
           /\ ProcessorOwes = IF pc["processor"] = "count" THEN 1 ELSE 0
           /\ LoggerHas = IF pc["logger"] = "receive" THEN 0 ELSE 1
  <1>1. pc["processor"] \in Labels["processor"] /\ pc["logger"] \in Labels["logger"]
    BY LabelsOf DEF PcOK
  <1> QED BY <1>1, LabelsOf
          DEF SensorHas, SensorOwes, ProcessorHas, ProcessorOwes, LoggerHas, InHand

LEMMA HoldingsOK ==
    ASSUME PcOK
    PROVE  /\ SensorHas \in 0..1 /\ SensorOwes \in 0..1 /\ ProcessorHas \in 0..1
           /\ ProcessorOwes \in 0..1 /\ LoggerHas \in 0..1
  BY Holdings

LEMMA HoldingsNext ==
    ASSUME PcOK'
    PROVE  /\ SensorHas' = IF pc'["sensor"] \in {"send", "count", "drop"} THEN 1 ELSE 0
           /\ SensorOwes' = IF pc'["sensor"] = "count" THEN 1 ELSE 0
           /\ ProcessorHas' = IF pc'["processor"] = "receive" THEN 0 ELSE 1
           /\ ProcessorOwes' = IF pc'["processor"] = "count" THEN 1 ELSE 0
           /\ LoggerHas' = IF pc'["logger"] = "receive" THEN 0 ELSE 1
  <1>1. pc'["processor"] \in Labels["processor"] /\ pc'["logger"] \in Labels["logger"]
    BY LabelsOf DEF PcOK
  <1> QED BY <1>1, LabelsOf
          DEF SensorHas, SensorOwes, ProcessorHas, ProcessorOwes, LoggerHas, InHand

LEMMA Balances ==
    Accounting <=>
       /\ sequence = Total("samples") + Total("sensor_drops") + SensorHas
       /\ Total("samples") + SensorOwes = Total("frames") + Total("telemetry_drops")
                                          + ProcessorHas + Queued("xSensorQueue")
       /\ Total("frames") + ProcessorOwes = Len(printed) + LoggerHas
                                            + Queued("xTelemetryQueue")
  BY DEF Accounting, SensorAccount, ProcessorAccount, LoggerAccount, SensorHas, SensorOwes,
         ProcessorHas, ProcessorOwes, LoggerHas

LEMMA BalancesNext ==
    Accounting' <=>
       /\ sequence' = Total("samples")' + Total("sensor_drops")' + SensorHas'
       /\ Total("samples")' + SensorOwes' = Total("frames")' + Total("telemetry_drops")'
                                            + ProcessorHas' + Queued("xSensorQueue")'
       /\ Total("frames")' + ProcessorOwes' = Len(printed') + LoggerHas'
                                              + Queued("xTelemetryQueue")'
  BY DEF Accounting, SensorAccount, ProcessorAccount, LoggerAccount, SensorHas, SensorOwes,
         ProcessorHas, ProcessorOwes, LoggerHas

LEMMA AmountsOK ==
    ASSUME QueueOK, TallyOK, PlainOK
    PROVE  /\ sequence \in Nat /\ Len(printed) \in Nat
           /\ \A k \in Counters : counter[k] \in Nat /\ old[k] \in Nat /\ Total(k) \in Nat
           /\ \A q \in Queues : /\ Len(queue[q]) \in Nat /\ flushed[q] \in Nat
                                /\ Queued(q) \in Nat
  <1>1. \A q \in Queues : Len(queue[q]) \in Nat /\ flushed[q] \in Nat
    BY DEF QueueOK, TallyOK
  <1>2. \A k \in Counters : counter[k] \in Nat /\ old[k] \in Nat
    BY DEF TallyOK
  <1>3. sequence \in Nat /\ Len(printed) \in Nat
    BY DEF PlainOK, TallyOK
  <1> QED BY <1>1, <1>2, <1>3 DEF Total, Queued

Amounts ==
    /\ sequence \in Nat /\ Len(printed) \in Nat
    /\ Total("samples") \in Nat /\ Total("frames") \in Nat
    /\ Total("sensor_drops") \in Nat /\ Total("telemetry_drops") \in Nat
    /\ Queued("xSensorQueue") \in Nat /\ Queued("xTelemetryQueue") \in Nat
    /\ SensorHas \in 0..1 /\ SensorOwes \in 0..1 /\ ProcessorHas \in 0..1
    /\ ProcessorOwes \in 0..1 /\ LoggerHas \in 0..1

LEMMA Names ==
    /\ Into["sensor"] = "xSensorQueue" /\ Into["processor"] = "xTelemetryQueue"
    /\ From["processor"] = "xSensorQueue" /\ From["logger"] = "xTelemetryQueue"
    /\ Accepted["sensor"] = "samples" /\ Accepted["processor"] = "frames"
    /\ Refused["sensor"] = "sensor_drops" /\ Refused["processor"] = "telemetry_drops"
    /\ Queues = {"xSensorQueue", "xTelemetryQueue"}
    /\ Counters = {"samples", "frames", "sensor_drops", "telemetry_drops",
                   "sensor_faults", "warnings"}
  BY DEF Queues, Counters, Into, From, Accepted, Refused

LEMMA AmountsNat == ASSUME PcOK, QueueOK, TallyOK, PlainOK PROVE Amounts
  BY AmountsOK, HoldingsOK, Names DEF Amounts

\* One more in a counter.
LEMMA CountOK ==
    ASSUME TallyOK, NEW k \in Counters, Count(k), UNCHANGED <<old, flushed, printed>>
    PROVE  /\ TallyOK' /\ Total(k)' = Total(k) + 1
           /\ \A j \in Counters : j # k => Total(j)' = Total(j)
  <1>1. counter[k] \in Nat /\ old[k] \in Nat
    BY DEF TallyOK
  <1>2. counter' \in [Counters -> Nat] /\ counter'[k] = counter[k] + 1
        /\ \A j \in Counters : j # k => counter'[j] = counter[j]
    BY <1>1 DEF TallyOK, Count
  <1> QED BY <1>1, <1>2 DEF TallyOK, Total

-----------------------------------------------------------------------------
(* Quiet actions.                                                          *)

flow == <<hand, queue, flushed, printed, old, sequence, resetAt>>

\* A quiet step keeps the accounts.
LEMMA QuietAccounts ==
    ASSUME UNCHANGED <<flow, holdings>>,
           \A k \in {"samples", "frames", "sensor_drops", "telemetry_drops"} :
              counter'[k] = counter[k],
           ResetInv, Accounting
    PROVE  ResetInv' /\ Accounting'
  <1>1. \A k \in {"samples", "frames", "sensor_drops", "telemetry_drops"} :
           Total(k)' = Total(k)
    BY DEF Total, flow
  <1>2. Queued("xSensorQueue")' = Queued("xSensorQueue")
        /\ Queued("xTelemetryQueue")' = Queued("xTelemetryQueue")
    BY DEF Queued, flow
  <1>3. SensorAccount' /\ ProcessorAccount' /\ LoggerAccount'
    BY <1>1, <1>2 DEF flow, holdings, Accounting, SensorAccount, ProcessorAccount,
       LoggerAccount, SensorHas, SensorOwes, ProcessorHas, ProcessorOwes, LoggerHas
  <1> QED BY <1>3 DEF Accounting, ResetInv, flow

\* So does one that counts something the accounts do not speak of.
LEMMA QuietCount ==
    ASSUME TallyOK, NEW k \in {"sensor_faults", "warnings"}, Count(k),
           UNCHANGED <<old, flushed, printed>>
    PROVE  /\ TallyOK'
           /\ \A j \in {"samples", "frames", "sensor_drops", "telemetry_drops"} :
                 counter'[j] = counter[j]
  <1>1. k \in Counters
    BY Names
  <1>2. TallyOK'
    BY <1>1, CountOK
  <1>3. counter' = [counter EXCEPT ![k] = @ + 1]
    BY DEF Count
  <1>4. \A j \in Counters : j # k => counter'[j] = counter[j]
    BY <1>3 DEF TallyOK
  <1> QED BY <1>2, <1>4, Names

\* Moves between labels that mean the same holdings.
LEMMA QuietMove ==
    ASSUME PcOK, NEW t \in Tasks, NEW a, NEW b \in Labels[t], Step(t, a, b),
           t = "sensor" => a \notin {"send", "count", "drop"}
                           /\ b \notin {"send", "count", "drop"},
           t = "processor" => a \notin {"receive", "count"} /\ b \notin {"receive", "count"},
           t = "logger" => a # "receive" /\ b # "receive"
    PROVE  PcOK' /\ UNCHANGED holdings
  <1>1. PcOK' /\ pc[t] = a /\ pc'[t] = b /\ \A u \in Tasks : u # t => pc'[u] = pc[u]
    BY StepMoves
  <1> QED BY <1>1, Holdings, HoldingsNext, LabelsOf DEF holdings

LEMMA HeartbeatStep ==
    ASSUME IInv, NEW t \in Monitored, prvRecordHeartbeat(t)
    PROVE  IInv'
  <1>1. PcOK /\ QueueOK /\ TallyOK /\ EventsOK /\ PlainOK
    BY TypeParts DEF IInv
  <1>2. /\ t \in {"sensor", "processor", "logger"} /\ pc[t] = "beat"
        /\ AfterBeat[t] \in Labels[t]
        /\ t = "sensor" => AfterBeat[t] = "mode"
        /\ t = "processor" => AfterBeat[t] = "check"
        /\ t = "logger" => AfterBeat[t] = "print"
    BY LabelsOf DEF prvRecordHeartbeat, AfterBeat
  <1>3. /\ DOMAIN pc' = Tasks /\ pc'[t] = AfterBeat[t]
        /\ \A u \in Monitored : u # t => pc'[u] = pc[u]
        /\ pc'["diag"] = pc["diag"]
        /\ \/ /\ pc'["watchdog"] = "healthy" /\ HandOver(beaten \cup {t})
              /\ bits \cup {t} = Monitored
           \/ /\ pc'["watchdog"] = pc["watchdog"]
              /\ bits' = bits \cup {t} /\ beaten' = beaten \cup {t}
              /\ UNCHANGED <<vouched, timeouts>>
    BY <1>1, <1>2, LabelsOf DEF prvRecordHeartbeat, PcOK
  <1>4. PcOK' /\ LeftInv' /\ AtInv'
    <2>1. PcOK'
      BY <1>1, <1>2, <1>3, LabelsOf DEF PcOK
    <2>2. left' = left /\ at' = at
      BY DEF prvRecordHeartbeat, sensor
    <2>3. pc'["sensor"] = "mode" \/ pc'["sensor"] = pc["sensor"]
      BY <1>2, <1>3, LabelsOf
    <2> QED BY <1>3, <2>1, <2>2, <2>3 DEF LeftInv, AtInv, IInv
  <1>5. UNCHANGED holdings
    BY <1>1, <1>2, <1>3, <1>4, Holdings, HoldingsNext, LabelsOf DEF holdings
  <1>6. EventsOK' /\ BeatInv'
    BY <1>1, <1>3 DEF EventsOK, BeatInv, HealthyMeansAllBeat, HandOver, IInv
  <1>7. QueueOK' /\ TallyOK' /\ PlainOK' /\ UNCHANGED <<flow, counter>>
    BY <1>1 DEF prvRecordHeartbeat, pipeline, stats, sensor, flow, QueueOK, TallyOK, PlainOK
  <1>8. ResetInv' /\ Accounting'
    BY <1>5, <1>7, QuietAccounts DEF IInv
  <1> QED BY <1>4, <1>6, <1>7, <1>8, TypePartsNext DEF IInv

\* The watchdog's steps.
LEMMA WatchdogStep ==
    ASSUME IInv, prvWatchdogTask
    PROVE  IInv'
  <1>1. PcOK /\ QueueOK /\ TallyOK /\ EventsOK /\ PlainOK
    BY TypeParts DEF IInv
  <1>2. PICK a \in {"call", "late", "healthy", "warn"},
             b \in {"healthy", "wait", "warn", "call"} : Step("watchdog", a, b)
    BY DEF prvWatchdogTask, WaitBits, AllBits, Healthy, Warn
  <1>3. /\ PcOK' /\ UNCHANGED holdings
        /\ pc'["sensor"] = pc["sensor"] /\ pc'["watchdog"] = b
        /\ pc'["diag"] = pc["diag"]
    BY <1>1, <1>2, QuietMove, StepMoves, LabelsOf
  <1>4. EventsOK' /\ BeatInv'
    <2>1. CASE WaitBits
      <3>1. CASE b = "healthy"
        <4>1. HandOver(beaten) /\ bits = Monitored
          BY <1>1, <1>2, <2>1, <3>1, StepMoves, LabelsOf DEF WaitBits, AllBits
        <4> QED BY <1>1, <4>1 DEF HandOver, EventsOK, BeatInv, HealthyMeansAllBeat, IInv
      <3>2. CASE b # "healthy"
        <4>1. \A x \in {"call", "late"} : ~Step("watchdog", x, "healthy")
          BY <1>1, <1>2, <1>3, <3>2, StepMoves, LabelsOf
        <4>2. UNCHANGED events
          BY <2>1, <4>1 DEF WaitBits, AllBits
        <4> QED BY <1>1, <1>3, <3>2, <4>2
                DEF events, EventsOK, BeatInv, HealthyMeansAllBeat, IInv
      <3> QED BY <3>1, <3>2
    <2>2. CASE Healthy \/ Warn
      <3>1. pc'["watchdog"] = "call" /\ UNCHANGED events
        BY <1>1, <2>2, StepMoves, LabelsOf DEF Healthy, Warn
      <3> QED BY <1>1, <3>1 DEF events, EventsOK, BeatInv, HealthyMeansAllBeat, IInv
    <2> QED BY <2>1, <2>2 DEF prvWatchdogTask
  <1>5. UNCHANGED <<flow, kick, left, ticks, fault_mode, at>>
    BY DEF prvWatchdogTask, WaitBits, Healthy, Warn, pipeline, stats, sensor, flow
  <1>6. /\ TallyOK'
        /\ \A j \in {"samples", "frames", "sensor_drops", "telemetry_drops"} :
              counter'[j] = counter[j]
    <2>1. CASE Warn
      BY <1>1, <2>1, QuietCount DEF Warn, pipeline
    <2>2. CASE WaitBits \/ Healthy
      <3>1. counter' = counter
        BY <2>2 DEF WaitBits, Healthy, stats
      <3> QED BY <1>1, <1>5, <3>1 DEF TallyOK, flow
    <2> QED BY <2>1, <2>2 DEF prvWatchdogTask
  <1>7. QueueOK' /\ PlainOK' /\ LeftInv' /\ AtInv'
    BY <1>1, <1>3, <1>5 DEF flow, QueueOK, PlainOK, LeftInv, AtInv, IInv
  <1>8. ResetInv' /\ Accounting'
    BY <1>3, <1>5, <1>6, QuietAccounts DEF IInv
  <1> QED BY <1>3, <1>4, <1>6, <1>7, <1>8, TypePartsNext DEF IInv

\* The steps of the timer, and those of the sensor and processor that only look.
LEMMA SensorPrepares ==
    ASSUME IInv, Tick \/ SensorTake \/ SensorMode
    PROVE  IInv'
  <1>1. PcOK /\ QueueOK /\ TallyOK /\ EventsOK /\ PlainOK
    BY TypeParts DEF IInv
  <1>2. UNCHANGED <<flow, counter, events, fault_mode, at>>
    BY DEF Tick, SensorTake, SensorMode, pipeline, stats, flow
  <1>3. /\ PcOK' /\ UNCHANGED holdings /\ LeftInv'
        /\ UNCHANGED <<pc["watchdog"], pc["diag"]>>
    <2>1. CASE Tick
      <3>1. pc' = pc /\ left' = left
        BY <2>1 DEF Tick
      <3>2. PcOK'
        BY <1>1, <3>1 DEF PcOK
      <3>3. UNCHANGED holdings
        BY <1>1, <3>1, <3>2, Holdings, HoldingsNext DEF holdings
      <3> QED BY <3>1, <3>2, <3>3 DEF LeftInv, IInv
    <2>2. CASE SensorTake \/ SensorMode
      <3>1. PICK a \in {"take", "mode"}, b \in {"beat", "make"} : Step("sensor", a, b)
        BY <2>2 DEF SensorTake, SensorMode
      <3>2. /\ PcOK' /\ UNCHANGED holdings /\ pc'["sensor"] = b
            /\ pc["sensor"] = a /\ UNCHANGED <<pc["watchdog"], pc["diag"]>>
        BY <1>1, <3>1, QuietMove, StepMoves, LabelsOf
      <3>3. b = "make" => left' > 0
        <4>1. CASE SensorTake
          BY <1>1, <4>1, <3>2, StepMoves, LabelsOf DEF SensorTake
        <4>2. CASE SensorMode
          BY <4>2, FwAssumption DEF SensorMode
        <4> QED BY <2>2, <4>1, <4>2
      <3> QED BY <3>2, <3>3 DEF LeftInv
    <2> QED BY <2>1, <2>2
  <1>4. PlainOK'
    <2>1. kick' \in BOOLEAN /\ ticks' \in 0..MaxTicks /\ left' \in 0..BurstLen + 1
      <3>1. CASE Tick
        BY <1>1, <3>1, FwAssumption DEF Tick, PlainOK
      <3>2. CASE SensorTake
        BY <1>1, <3>2 DEF SensorTake, PlainOK
      <3>3. CASE SensorMode
        BY <1>1, <3>3, FwAssumption DEF SensorMode, PlainOK
      <3> QED BY <3>1, <3>2, <3>3
    <2> QED BY <1>1, <1>2, <2>1 DEF PlainOK, flow
  <1>5. QueueOK' /\ TallyOK' /\ EventsOK' /\ BeatInv' /\ AtInv'
    BY <1>1, <1>2, <1>3 DEF flow, events, QueueOK, TallyOK, EventsOK, BeatInv,
       HealthyMeansAllBeat, AtInv, IInv
  <1>6. ResetInv' /\ Accounting'
    BY <1>2, <1>3, QuietAccounts DEF IInv
  <1> QED BY <1>3, <1>4, <1>5, <1>6, TypePartsNext DEF IInv

\* The processor looks at its sample, or comes back from a stall.
LEMMA ProcessorLooks ==
    ASSUME IInv, ProcessorCheck \/ ProcessorMode \/ StallOver
    PROVE  IInv'
  <1>1. PcOK /\ QueueOK /\ TallyOK /\ EventsOK /\ PlainOK
    BY TypeParts DEF IInv
  <1>2. UNCHANGED <<flow, events, sensor, fault_mode, at>>
    BY DEF ProcessorCheck, ProcessorMode, StallOver, pipeline, stats, sensor, flow
  <1>3. /\ PcOK' /\ UNCHANGED holdings
        /\ UNCHANGED <<pc["watchdog"], pc["sensor"], pc["diag"]>>
    <2>1. CASE ProcessorCheck \/ ProcessorMode
      <3>1. PICK a \in {"check", "mode"}, b \in {"mode", "stall", "send"} :
               Step("processor", a, b)
        BY <2>1 DEF ProcessorCheck, ProcessorMode
      <3> QED BY <1>1, <3>1, QuietMove, StepMoves, LabelsOf
    <2>2. CASE StallOver
      <3>1. /\ pc["processor"] = "stall" /\ pc'["processor"] = "send"
            /\ \A u \in Tasks : u # "processor" => pc'[u] = pc[u]
            /\ DOMAIN pc' = Tasks
        BY <1>1, <2>2, LabelsOf DEF StallOver, PcOK
      <3>2. PcOK'
        BY <1>1, <3>1, LabelsOf DEF PcOK
      <3> QED BY <1>1, <3>1, <3>2, Holdings, HoldingsNext, LabelsOf DEF holdings
    <2> QED BY <2>1, <2>2
  <1>4. /\ TallyOK'
        /\ \A j \in {"samples", "frames", "sensor_drops", "telemetry_drops"} :
              counter'[j] = counter[j]
    <2>1. CASE Count("sensor_faults")
      BY <1>1, <1>2, <2>1, QuietCount DEF flow
    <2>2. CASE counter' = counter
      BY <1>1, <1>2, <2>2 DEF TallyOK, flow
    <2> QED BY <2>1, <2>2 DEF ProcessorCheck, ProcessorMode, StallOver, stats
  <1>5. QueueOK' /\ EventsOK' /\ PlainOK' /\ BeatInv' /\ LeftInv' /\ AtInv'
    BY <1>1, <1>2, <1>3 DEF flow, events, sensor, QueueOK, EventsOK, PlainOK, BeatInv,
       HealthyMeansAllBeat, LeftInv, AtInv, IInv
  <1>6. ResetInv' /\ Accounting'
    BY <1>2, <1>3, <1>4, QuietAccounts DEF IInv
  <1> QED BY <1>3, <1>4, <1>5, <1>6, TypePartsNext DEF IInv

\* The watchdog's wait expires.
LEMMA TimeoutStep == ASSUME IInv, WaitTimesOut PROVE IInv'
  <1>1. PcOK /\ QueueOK /\ TallyOK /\ EventsOK /\ PlainOK
    BY TypeParts DEF IInv
  <1>2. UNCHANGED <<flow, counter, bits, beaten, vouched, sensor, fault_mode, at>>
    BY DEF WaitTimesOut, pipeline, stats, sensor, flow
  <1>3. /\ DOMAIN pc' = Tasks /\ pc'["watchdog"] = "late"
        /\ \A u \in Tasks : u # "watchdog" => pc'[u] = pc[u]
    BY <1>1, LabelsOf DEF WaitTimesOut, PcOK
  <1>4. PcOK'
    BY <1>1, <1>3, LabelsOf DEF PcOK
  <1>5. UNCHANGED holdings
    BY <1>1, <1>3, <1>4, Holdings, HoldingsNext, LabelsOf DEF holdings
  <1>6. timeouts' \in 0..MaxTimeouts
    BY <1>1, FwAssumption DEF WaitTimesOut, EventsOK
  <1>7. QueueOK' /\ TallyOK' /\ EventsOK' /\ PlainOK'
    BY <1>1, <1>2, <1>6 DEF flow, sensor, QueueOK, TallyOK, EventsOK, PlainOK
  <1>8. BeatInv' /\ LeftInv' /\ AtInv'
    BY <1>2, <1>3, LabelsOf DEF sensor, BeatInv, HealthyMeansAllBeat, LeftInv, AtInv, IInv
  <1>9. ResetInv' /\ Accounting'
    BY <1>2, <1>5, QuietAccounts DEF IInv
  <1> QED BY <1>4, <1>7, <1>8, <1>9, TypePartsNext DEF IInv

\* The commands but for the first three steps of a reset, and the exit.
LEMMA DiagQuiet ==
    ASSUME IInv,
           \/ DelayOver \/ Show \/ (\E m \in FaultModes : prvSetFault(m)) \/ ClearBits
           \/ Exit \/ StatsSamples \/ StatsDrops
    PROVE  IInv'
  <1>1. PcOK /\ QueueOK /\ TallyOK /\ EventsOK /\ PlainOK
    BY TypeParts DEF IInv
  <1>2. UNCHANGED <<flow, counter, sensor, timeouts, vouched>>
    BY DEF DelayOver, Show, prvSetFault, ClearBits, Exit, StatsSamples, StatsDrops, pipeline,
           stats, events, sensor, flow
  <1>3. /\ PcOK' /\ UNCHANGED holdings /\ UNCHANGED <<pc["sensor"], pc["watchdog"]>>
        /\ pc'["diag"] \in {"delay", "cmd", "exited"} \/ StatsSamples
    <2>1. CASE DelayOver
      <3>1. /\ DOMAIN pc' = Tasks /\ pc'["diag"] = "cmd"
            /\ \A u \in Tasks : u # "diag" => pc'[u] = pc[u]
        BY <1>1, <2>1, LabelsOf DEF DelayOver, PcOK
      <3>2. PcOK'
        BY <1>1, <3>1, LabelsOf DEF PcOK
      <3> QED BY <1>1, <3>1, <3>2, Holdings, HoldingsNext, LabelsOf DEF holdings
    <2>2. CASE Show \/ (\E m \in FaultModes : prvSetFault(m)) \/ ClearBits \/ Exit
               \/ StatsDrops
      <3>1. PICK a \in {"cmd", "stats", "reset_bits"}, b \in {"delay", "exited"} :
               Step("diag", a, b)
        BY <2>2 DEF Show, prvSetFault, ClearBits, Exit, StatsDrops
      <3> QED BY <1>1, <3>1, QuietMove, StepMoves, LabelsOf
    <2>3. CASE StatsSamples
      BY <1>1, <2>3, QuietMove, StepMoves, LabelsOf DEF StatsSamples
    <2> QED BY <2>1, <2>2, <2>3
  <1>4. fault_mode' \in FaultModes
    BY <1>1 DEF DelayOver, Show, prvSetFault, ClearBits, Exit, StatsSamples, StatsDrops, stats,
       PlainOK
  <1>5. at' \in 1..Len(Script) + 1
    <2>1. CASE at' = at
      BY <1>1, <2>1 DEF PlainOK
    <2>2. CASE at' = at + 1 /\ at <= Len(Script)
      BY <1>1, <2>2, FwAssumption DEF PlainOK
    <2>3. ClearBits \/ StatsDrops => at <= Len(Script)
      BY DEF ClearBits, StatsDrops, Step, AtInv, IInv
    <2> QED BY <2>1, <2>2, <2>3
            DEF DelayOver, Show, prvSetFault, ClearBits, Exit, StatsSamples, StatsDrops, Given
  <1>6. EventsOK' /\ bits' \subseteq beaten'
    BY <1>1, <1>2 DEF DelayOver, Show, prvSetFault, ClearBits, Exit, StatsSamples, StatsDrops,
       events, EventsOK, BeatInv, IInv
  <1>7. QueueOK' /\ TallyOK' /\ PlainOK' /\ BeatInv' /\ LeftInv'
    BY <1>1, <1>2, <1>3, <1>4, <1>5, <1>6 DEF flow, sensor, QueueOK, TallyOK, PlainOK,
       BeatInv, HealthyMeansAllBeat, LeftInv, IInv
  <1>9. AtInv'
    <2>1. CASE StatsSamples
      BY <2>1 DEF StatsSamples, Given, AtInv
    <2>2. CASE pc'["diag"] \in {"delay", "cmd", "exited"}
      BY <2>2 DEF AtInv
    <2> QED BY <1>3, <2>1, <2>2
  <1>8. ResetInv' /\ Accounting'
    BY <1>2, <1>3, QuietAccounts DEF IInv
  <1> QED BY <1>3, <1>6, <1>7, <1>8, <1>9, TypePartsNext DEF IInv

-----------------------------------------------------------------------------
(* Actions that move a sample, or count one.                               *)

\* What they all leave alone.
LEMMA Rest ==
    ASSUME IInv, UNCHANGED <<events, at, old, resetAt, pc["watchdog"], pc["diag"]>>,
           pc'["sensor"] = "make" => left' > 0
    PROVE  EventsOK' /\ LeftInv' /\ AtInv' /\ BeatInv' /\ ResetInv'
  <1>1. EventsOK
    BY TypeParts DEF IInv
  <1> QED BY <1>1 DEF events, EventsOK, LeftInv, AtInv, BeatInv, HealthyMeansAllBeat,
                      ResetInv, IInv

LEMMA MakeStep == ASSUME IInv, prvMakeSample PROVE IInv'
  <1>1. PcOK /\ QueueOK /\ TallyOK /\ EventsOK /\ PlainOK
    BY TypeParts DEF IInv
  <1>2. /\ PcOK' /\ pc["sensor"] = "make" /\ pc'["sensor"] = "send"
        /\ \A u \in Tasks : u # "sensor" => pc'[u] = pc[u]
    BY <1>1, StepMoves, LabelsOf DEF prvMakeSample
  <1>3. /\ UNCHANGED <<queue, flushed, printed, counter, old, resetAt, fault_mode, events,
                       kick, ticks, at>>
        /\ sequence' = sequence + 1 /\ left' = left - 1
    BY DEF prvMakeSample, stats
  <1>4. QueueOK' /\ TallyOK' /\ PlainOK'
    <2>1. left' \in 0..BurstLen + 1
      BY <1>1, <1>2, <1>3, FwAssumption DEF LeftInv, PlainOK, IInv
    <2>2. sequence + 1 \in Nat /\ sequence' \in Nat
      BY <1>1, <1>3 DEF PlainOK
    <2>3. [seq |-> sequence + 1, bad |-> fault_mode = "sensor"] \in Items
      BY <2>2 DEF Items
    <2>4. hand' \in [Monitored -> Items]
      BY <1>1, <2>3 DEF prvMakeSample, Grab, QueueOK
    <2> QED BY <1>1, <1>3, <2>1, <2>2, <2>4 DEF QueueOK, TallyOK, PlainOK
  <1>5. EventsOK' /\ LeftInv' /\ AtInv' /\ BeatInv' /\ ResetInv'
    BY <1>2, <1>3, Rest, LabelsOf
  <1>6. Accounting'
    <2>1. /\ SensorHas = 0 /\ SensorHas' = 1
          /\ UNCHANGED <<SensorOwes, ProcessorHas, ProcessorOwes, LoggerHas>>
      BY <1>1, <1>2, Holdings, HoldingsNext, LabelsOf
    <2>2. /\ \A k \in Counters : Total(k)' = Total(k)
          /\ \A q \in Queues : Queued(q)' = Queued(q)
      BY <1>3 DEF Total, Queued
    <2> QED BY SMTT(60), <1>1, <1>3, <2>1, <2>2, AmountsOK, Balances, BalancesNext, Names DEF IInv
  <1> QED BY <1>2, <1>4, <1>5, <1>6, TypePartsNext DEF IInv

LEMMA SendStep ==
    ASSUME IInv, NEW t \in {"sensor", "processor"}, Send(t)
    PROVE  IInv'
  <1>1. PcOK /\ QueueOK /\ TallyOK /\ EventsOK /\ PlainOK
    BY TypeParts DEF IInv
  <1>2. t \in Tasks /\ t \in Monitored /\ Into[t] \in Queues
    BY LabelsOf, Names
  <1>10. PICK q \in Queues : q = Into[t]
    BY <1>2
  <1>3. PICK b \in {"count", "drop"} :
           /\ Step(t, "send", b)
           /\ \/ b = "count" /\ Room(q) /\ queue' = [queue EXCEPT ![q] = Append(@, hand[t])]
              \/ b = "drop" /\ queue' = queue
    BY <1>10 DEF Send
  <1>11. PICK n \in 0..1 : n = IF b = "count" THEN 1 ELSE 0
    OBVIOUS
  <1>4. /\ PcOK' /\ pc[t] = "send" /\ pc'[t] = b
        /\ \A u \in Tasks : u # t => pc'[u] = pc[u]
    BY <1>1, <1>2, <1>3, StepMoves, LabelsOf
  <1>5. UNCHANGED <<hand, flushed, printed, counter, old, resetAt, fault_mode, events,
                    sequence, left, kick, ticks, at>>
    BY DEF Send, stats, sensor
  <1>6. /\ QueueOK'
        /\ Len(queue'[q]) = Len(queue[q]) + n
        /\ \A p \in Queues : p # q => queue'[p] = queue[p]
    <2>1. hand[t] \in Items /\ queue[q] \in Seq(Items)
      BY <1>1, <1>2 DEF QueueOK
    <2>2. CASE b = "count"
      <3>1. queue' = [queue EXCEPT ![q] = Append(@, hand[t])] /\ Len(queue[q]) < Capacity
        BY <1>3, <2>2 DEF Room
      <3>2. /\ Append(queue[q], hand[t]) \in Seq(Items)
            /\ Len(Append(queue[q], hand[t])) = Len(queue[q]) + 1
        BY <2>1
      <3>3. Len(Append(queue[q], hand[t])) <= Capacity
        BY <2>1, <3>1, <3>2, FwAssumption
      <3> QED BY <1>1, <1>2, <1>5, <1>11, <2>2, <3>1, <3>2, <3>3 DEF QueueOK
    <2>3. CASE b = "drop"
      <3>1. queue' = queue /\ Len(queue[q]) \in Nat
        BY <1>3, <2>1, <2>3
      <3> QED BY <1>1, <1>5, <1>11, <2>3, <3>1 DEF QueueOK
    <2> QED BY <1>3, <2>2, <2>3
  <1>7. TallyOK' /\ PlainOK'
    BY <1>1, <1>5 DEF TallyOK, PlainOK
  <1>8. EventsOK' /\ LeftInv' /\ AtInv' /\ BeatInv' /\ ResetInv'
    <2>1. pc'["sensor"] = "make" => pc["sensor"] = "make"
      BY <1>3, <1>4, LabelsOf
    <2> QED BY <1>4, <1>5, <2>1, Rest, LabelsOf DEF LeftInv, IInv
  <1>9. Accounting'
    <2>1. \A k \in Counters : Total(k)' = Total(k)
      BY <1>5 DEF Total
    <2>2. /\ Queued(q)' = Queued(q) + n
          /\ \A p \in Queues : p # q => Queued(p)' = Queued(p)
      <3>1. \A p \in Queues : Len(queue[p]) \in Nat /\ flushed[p] \in Nat
        BY <1>1, AmountsOK
      <3>2. \A p \in Queues : Queued(p) = Len(queue[p]) + flushed[p]
                              /\ Queued(p)' = Len(queue'[p]) + flushed[p]
        BY <1>5 DEF Queued
      <3>3. /\ Queued(q) = Len(queue[q]) + flushed[q]
            /\ Queued(q)' = Len(queue'[q]) + flushed[q]
            /\ Len(queue[q]) \in Nat /\ flushed[q] \in Nat
        BY <3>1, <3>2
      <3>4. Len(queue'[q]) = Len(queue[q]) + n
        BY <1>6
      <3>5. Queued(q)' = Queued(q) + n
        BY <3>3, <3>4
      <3> QED BY <1>6, <3>2, <3>5
    <2>5. Amounts /\ Accounting
      BY <1>1, AmountsNat DEF IInv
    <2>6. /\ Total("samples")' = Total("samples") /\ Total("frames")' = Total("frames")
          /\ Total("sensor_drops")' = Total("sensor_drops")
          /\ Total("telemetry_drops")' = Total("telemetry_drops")
      BY <2>1, Names
    <2>7. sequence' = sequence /\ Len(printed') = Len(printed)
      BY <1>5
    <2>3. CASE t = "sensor"
      <3>1. /\ SensorHas' = SensorHas /\ SensorOwes = 0
            /\ SensorOwes' = n
            /\ UNCHANGED <<ProcessorHas, ProcessorOwes, LoggerHas>>
        BY <1>1, <1>3, <1>4, <1>11, <2>3, Holdings, HoldingsNext, LabelsOf
      <3>2. /\ Queued("xSensorQueue")' = Queued("xSensorQueue") + SensorOwes'
            /\ Queued("xTelemetryQueue")' = Queued("xTelemetryQueue")
        BY <1>10, <2>2, <2>3, <3>1, Names
      <3> QED BY SMTT(60), <1>11, <2>5, <2>6, <2>7, <3>1, <3>2, Balances, BalancesNext DEF Amounts
    <2>4. CASE t = "processor"
      <3>1. /\ ProcessorHas' = ProcessorHas /\ ProcessorOwes = 0
            /\ ProcessorOwes' = n
            /\ UNCHANGED <<SensorHas, SensorOwes, LoggerHas>>
        BY <1>1, <1>3, <1>4, <1>11, <2>4, Holdings, HoldingsNext, LabelsOf
      <3>2. /\ Queued("xTelemetryQueue")' = Queued("xTelemetryQueue") + ProcessorOwes'
            /\ Queued("xSensorQueue")' = Queued("xSensorQueue")
        BY <1>10, <2>2, <2>4, <3>1, Names
      <3> QED BY SMTT(60), <1>11, <2>5, <2>6, <2>7, <3>1, <3>2, Balances, BalancesNext DEF Amounts
    <2> QED BY <2>3, <2>4
  <1> QED BY <1>4, <1>6, <1>7, <1>8, <1>9, TypePartsNext DEF IInv

\* An item is counted, as accepted or as refused.
LEMMA SettleStep ==
    ASSUME IInv, NEW t \in {"sensor", "processor"}, NEW a \in {"count", "drop"},
           NEW k, a = "count" => k = Accepted[t], a = "drop" => k = Refused[t],
           Settle(t, a, k)
    PROVE  IInv'
  <1>1. PcOK /\ QueueOK /\ TallyOK /\ EventsOK /\ PlainOK
    BY TypeParts DEF IInv
  <1>2. t \in Tasks /\ t \in Monitored /\ k \in Counters /\ Again(t) \in Labels[t]
    BY LabelsOf, Names DEF Again
  <1>3. /\ PcOK' /\ pc[t] = a /\ pc'[t] = Again(t)
        /\ \A u \in Tasks : u # t => pc'[u] = pc[u]
    BY <1>1, <1>2, StepMoves DEF Settle
  <1>4. UNCHANGED <<queue, flushed, printed, old, resetAt, fault_mode, events,
                    sequence, left, kick, ticks, at>>
    BY DEF Settle, sensor
  <1>5. TallyOK' /\ Total(k)' = Total(k) + 1 /\ \A j \in Counters : j # k => Total(j)' = Total(j)
    BY <1>1, <1>2, <1>4, CountOK DEF Settle
  <1>6. QueueOK' /\ PlainOK'
    <2>1. Blank \in Items
      BY DEF Blank, Items
    <2>2. hand' \in [Monitored -> Items]
      BY <1>1, <2>1 DEF Settle, Grab, QueueOK
    <2> QED BY <1>1, <1>4, <2>2 DEF QueueOK, PlainOK
  <1>7. EventsOK' /\ LeftInv' /\ AtInv' /\ BeatInv' /\ ResetInv'
    <2>1. pc'["sensor"] = "make" => left' > 0
      <3>1. CASE t = "sensor"
        BY <1>3, <1>4, <3>1 DEF Again
      <3>2. CASE t = "processor"
        BY <1>3, <1>4, <3>2, LabelsOf DEF LeftInv, IInv
      <3> QED BY <3>1, <3>2
    <2> QED BY <1>3, <1>4, <2>1, Rest, LabelsOf
  <1>8. Accounting'
    <2>1. Amounts /\ Accounting
      BY <1>1, AmountsNat DEF IInv
    <2>2. Queued("xSensorQueue")' = Queued("xSensorQueue")
          /\ Queued("xTelemetryQueue")' = Queued("xTelemetryQueue")
      BY <1>4 DEF Queued
    <2>3. sequence' = sequence /\ Len(printed') = Len(printed)
      BY <1>4
    <2>4. CASE t = "sensor"
      <3>1. /\ SensorHas = 1 /\ SensorHas' = 0 /\ SensorOwes' = 0
            /\ a = "count" => SensorOwes = 1
            /\ a = "drop" => SensorOwes = 0
            /\ UNCHANGED <<ProcessorHas, ProcessorOwes, LoggerHas>>
        BY <1>1, <1>3, <2>4, Holdings, HoldingsNext, LabelsOf DEF Again
      <3>2. /\ UNCHANGED <<Total("frames"), Total("telemetry_drops")>>
            /\ a = "count" => /\ Total("samples")' = Total("samples") + 1
                              /\ Total("sensor_drops")' = Total("sensor_drops")
            /\ a = "drop"  => /\ Total("samples")' = Total("samples")
                              /\ Total("sensor_drops")' = Total("sensor_drops") + 1
        BY <1>5, <2>4, Names
      <3> QED BY SMTT(60), <2>1, <2>2, <2>3, <3>1, <3>2, Balances, BalancesNext DEF Amounts
    <2>5. CASE t = "processor"
      <3>1. /\ ProcessorHas = 1 /\ ProcessorHas' = 0 /\ ProcessorOwes' = 0
            /\ a = "count" => ProcessorOwes = 1
            /\ a = "drop" => ProcessorOwes = 0
            /\ UNCHANGED <<SensorHas, SensorOwes, LoggerHas>>
        BY <1>1, <1>3, <2>5, Holdings, HoldingsNext, LabelsOf DEF Again
      <3>2. /\ UNCHANGED <<Total("samples"), Total("sensor_drops")>>
            /\ a = "count" => /\ Total("frames")' = Total("frames") + 1
                              /\ Total("telemetry_drops")' = Total("telemetry_drops")
            /\ a = "drop"  => /\ Total("frames")' = Total("frames")
                              /\ Total("telemetry_drops")' = Total("telemetry_drops") + 1
        BY <1>5, <2>5, Names
      <3> QED BY SMTT(60), <2>1, <2>2, <2>3, <3>1, <3>2, Balances, BalancesNext DEF Amounts
    <2> QED BY <2>4, <2>5
  <1> QED BY <1>3, <1>5, <1>6, <1>7, <1>8, TypePartsNext DEF IInv

LEMMA ReceiveStep ==
    ASSUME IInv, NEW t \in {"processor", "logger"}, xQueueReceive(t)
    PROVE  IInv'
  <1>1. PcOK /\ QueueOK /\ TallyOK /\ EventsOK /\ PlainOK
    BY TypeParts DEF IInv
  <1>2. t \in Tasks /\ t \in Monitored /\ From[t] \in Queues /\ "beat" \in Labels[t]
    BY LabelsOf, Names
  <1>3. PICK q \in Queues : q = From[t]
    BY <1>2
  <1>4. /\ Step(t, "receive", "beat")
        /\ hand' = [hand EXCEPT ![t] = Head(queue[q])]
        /\ queue' = [queue EXCEPT ![q] = Tail(@)]
    BY <1>3 DEF xQueueReceive, Grab, Oldest
  <1>5. /\ PcOK' /\ pc[t] = "receive" /\ pc'[t] = "beat"
        /\ \A u \in Tasks : u # t => pc'[u] = pc[u]
    BY <1>1, <1>2, <1>4, StepMoves
  <1>6. UNCHANGED <<flushed, printed, counter, old, resetAt, fault_mode, events,
                    sequence, left, kick, ticks, at>>
    BY DEF xQueueReceive, stats, sensor
  <1>7. /\ QueueOK' /\ Len(queue'[q]) = Len(queue[q]) - 1
        /\ \A p \in Queues : p # q => queue'[p] = queue[p]
    <2>1. queue[q] # <<>> /\ queue[q] \in Seq(Items)
      BY <1>1, <1>3, <1>4 DEF Step, Runs, Blocked, QueueOK
    <2>2. /\ Head(queue[q]) \in Items /\ Tail(queue[q]) \in Seq(Items)
          /\ Len(Tail(queue[q])) = Len(queue[q]) - 1 /\ Len(queue[q]) \in Nat
      BY <2>1
    <2>3. Len(Tail(queue[q])) <= Capacity
      BY <1>1, <2>2, FwAssumption DEF QueueOK
    <2> QED BY <1>1, <1>2, <1>4, <2>2, <2>3 DEF QueueOK
  <1>8. TallyOK' /\ PlainOK'
    BY <1>1, <1>6 DEF TallyOK, PlainOK
  <1>9. EventsOK' /\ LeftInv' /\ AtInv' /\ BeatInv' /\ ResetInv'
    BY <1>5, <1>6, Rest, LabelsOf DEF LeftInv, IInv
  <1>10. Accounting'
    <2>1. Amounts /\ Accounting
      BY <1>1, AmountsNat DEF IInv
    <2>2. \A p \in Queues : Queued(p) = Len(queue[p]) + flushed[p]
                            /\ Queued(p)' = Len(queue'[p]) + flushed[p]
      BY <1>6 DEF Queued
    <2>3. \A p \in Queues : Len(queue[p]) \in Nat /\ flushed[p] \in Nat
      BY <1>1, AmountsOK
    <2>4. Queued(q)' = Queued(q) - 1 /\ \A p \in Queues : p # q => Queued(p)' = Queued(p)
      BY <1>7, <2>2, <2>3
    <2>5. /\ UNCHANGED <<Total("samples"), Total("frames"), Total("sensor_drops"),
                         Total("telemetry_drops")>>
          /\ sequence' = sequence /\ Len(printed') = Len(printed)
      BY <1>6 DEF Total
    <2>6. CASE t = "processor"
      <3>1. /\ ProcessorHas = 0 /\ ProcessorHas' = 1
            /\ UNCHANGED <<SensorHas, SensorOwes, ProcessorOwes, LoggerHas>>
        BY <1>1, <1>5, <2>6, Holdings, HoldingsNext, LabelsOf
      <3>2. /\ Queued("xSensorQueue")' = Queued("xSensorQueue") - 1
            /\ Queued("xTelemetryQueue")' = Queued("xTelemetryQueue")
        BY <1>3, <2>4, <2>6, Names
      <3> QED BY SMTT(60), <2>1, <2>5, <3>1, <3>2, Balances, BalancesNext DEF Amounts
    <2>7. CASE t = "logger"
      <3>1. /\ LoggerHas = 0 /\ LoggerHas' = 1
            /\ UNCHANGED <<SensorHas, SensorOwes, ProcessorHas, ProcessorOwes>>
        BY <1>1, <1>5, <2>7, Holdings, HoldingsNext, LabelsOf
      <3>2. /\ Queued("xTelemetryQueue")' = Queued("xTelemetryQueue") - 1
            /\ Queued("xSensorQueue")' = Queued("xSensorQueue")
        BY <1>3, <2>4, <2>7, Names
      <3> QED BY SMTT(60), <2>1, <2>5, <3>1, <3>2, Balances, BalancesNext DEF Amounts
    <2> QED BY <2>6, <2>7
  <1> QED BY <1>5, <1>7, <1>8, <1>9, <1>10, TypePartsNext DEF IInv

LEMMA PrintStep == ASSUME IInv, prvPrintFrame PROVE IInv'
  <1>1. PcOK /\ QueueOK /\ TallyOK /\ EventsOK /\ PlainOK
    BY TypeParts DEF IInv
  <1>2. /\ PcOK' /\ pc["logger"] = "print" /\ pc'["logger"] = "receive"
        /\ \A u \in Tasks : u # "logger" => pc'[u] = pc[u]
    BY <1>1, StepMoves, LabelsOf DEF prvPrintFrame
  <1>3. /\ UNCHANGED <<queue, flushed, counter, old, resetAt, fault_mode, events,
                       sequence, left, kick, ticks, at>>
        /\ printed' = Append(printed, hand["logger"].seq)
        /\ hand' = [hand EXCEPT !["logger"] = Blank]
    BY DEF prvPrintFrame, stats, sensor, Grab
  <1>4. hand["logger"].seq \in Nat /\ printed \in Seq(Nat)
    BY <1>1, LabelsOf DEF QueueOK, TallyOK, Items
  <1>5. printed' \in Seq(Nat) /\ Len(printed') = Len(printed) + 1
    BY <1>3, <1>4
  <1>6. QueueOK' /\ TallyOK' /\ PlainOK'
    <2>1. Blank \in Items
      BY DEF Blank, Items
    <2> QED BY <1>1, <1>3, <1>5, <2>1 DEF QueueOK, TallyOK, PlainOK
  <1>7. EventsOK' /\ LeftInv' /\ AtInv' /\ BeatInv' /\ ResetInv'
    BY <1>2, <1>3, Rest, LabelsOf DEF LeftInv, IInv
  <1>8. Accounting'
    <2>1. Amounts /\ Accounting
      BY <1>1, AmountsNat DEF IInv
    <2>2. UNCHANGED <<Queued("xSensorQueue"), Queued("xTelemetryQueue"), Total("samples"),
                      Total("frames"), Total("sensor_drops"), Total("telemetry_drops")>>
      BY <1>3 DEF Queued, Total
    <2>3. /\ LoggerHas = 1 /\ LoggerHas' = 0
          /\ UNCHANGED <<SensorHas, SensorOwes, ProcessorHas, ProcessorOwes>>
      BY <1>1, <1>2, Holdings, HoldingsNext, LabelsOf
    <2> QED BY SMTT(60), <1>3, <1>5, <2>1, <2>2, <2>3, Balances, BalancesNext DEF Amounts
  <1> QED BY <1>2, <1>6, <1>7, <1>8, TypePartsNext DEF IInv

\* One of the two queues is flushed.
LEMMA FlushStep ==
    ASSUME IInv, NEW q \in Queues,
           NEW a \in {"reset_sensor", "reset_telemetry"},
           NEW b \in {"reset_telemetry", "reset_bits"}, xQueueReset(q, a, b)
    PROVE  IInv'
  <1>1. PcOK /\ QueueOK /\ TallyOK /\ EventsOK /\ PlainOK
    BY TypeParts DEF IInv
  <1>2. /\ PcOK' /\ UNCHANGED holdings /\ pc["diag"] = a
        /\ UNCHANGED <<pc["sensor"], pc["watchdog"]>>
    BY <1>1, QuietMove, StepMoves, LabelsOf DEF xQueueReset
  <1>3. /\ UNCHANGED <<hand, printed, counter, old, resetAt, fault_mode, events,
                       sequence, left, kick, ticks, at>>
        /\ queue' = [queue EXCEPT ![q] = <<>>]
        /\ flushed' = [flushed EXCEPT ![q] = @ + Len(queue[q])]
    BY DEF xQueueReset, stats, sensor
  <1>4. /\ QueueOK' /\ TallyOK' /\ PlainOK'
        /\ \A p \in Queues : Queued(p)' = Queued(p)
    <2>1. \A p \in Queues : Len(queue[p]) \in Nat /\ flushed[p] \in Nat
      BY <1>1, AmountsOK
    <2>2. <<>> \in Seq(Items) /\ Len(<<>>) = 0 /\ 0 <= Capacity
      BY FwAssumption
    <2>3. QueueOK'
      BY <1>1, <1>3, <2>2 DEF QueueOK
    <2>4. TallyOK' /\ PlainOK'
      BY <1>1, <1>3, <2>1 DEF TallyOK, PlainOK
    <2>5. \A p \in Queues : Queued(p)' = Queued(p)
      <3>1. queue'[q] = <<>> /\ flushed'[q] = flushed[q] + Len(queue[q])
            /\ \A p \in Queues : p # q => queue'[p] = queue[p] /\ flushed'[p] = flushed[p]
        BY <1>1, <1>3 DEF QueueOK, TallyOK
      <3>2. \A p \in Queues : Queued(p) = Len(queue[p]) + flushed[p]
                              /\ Queued(p)' = Len(queue'[p]) + flushed'[p]
        BY DEF Queued
      <3> QED BY <2>1, <2>2, <3>1, <3>2
    <2> QED BY <2>3, <2>4, <2>5
  <1>5. EventsOK' /\ LeftInv' /\ BeatInv' /\ ResetInv'
    BY <1>1, <1>2, <1>3 DEF events, EventsOK, LeftInv, BeatInv, HealthyMeansAllBeat,
       ResetInv, IInv
  <1>6. AtInv'
    BY <1>2, <1>3 DEF AtInv, IInv
  <1>7. Accounting'
    <2>1. Accounting
      BY DEF IInv
    <2>2. UNCHANGED <<Total("samples"), Total("frames"), Total("sensor_drops"),
                      Total("telemetry_drops"), sequence, Len(printed)>>
      BY <1>3 DEF Total
    <2> QED BY SMTT(60), <1>2, <1>4, <2>1, <2>2, Balances, BalancesNext, Names DEF holdings
  <1> QED BY <1>2, <1>4, <1>5, <1>6, <1>7, TypePartsNext DEF IInv

\* While the diagnostics task runs, the sensor task waits for its semaphore.
LEMMA DiagRunsLast == ASSUME PcOK, Runs("diag") PROVE pc["sensor"] = "take"
  <1>1. Blocked("sensor")
    BY LabelsOf DEF Runs, Priority
  <1>2. pc["sensor"] \in {"take", "beat", "mode", "make", "send", "count", "drop"}
    BY LabelsOf DEF PcOK
  <1> QED BY <1>1, <1>2 DEF Blocked

\* xStats is zeroed.
LEMMA ResetStatsStep == ASSUME IInv, prvResetStats PROVE IInv'
  <1>1. PcOK /\ QueueOK /\ TallyOK /\ EventsOK /\ PlainOK
    BY TypeParts DEF IInv
  <1>2. /\ PcOK' /\ UNCHANGED holdings /\ pc'["diag"] = "reset_sensor"
        /\ UNCHANGED <<pc["sensor"], pc["watchdog"]>>
    BY <1>1, QuietMove, StepMoves, LabelsOf DEF prvResetStats
  <1>3. /\ UNCHANGED <<hand, queue, flushed, printed, events, sequence, left, kick, ticks, at>>
        /\ counter' = [k \in Counters |-> 0] /\ fault_mode' = "none"
        /\ old' = [k \in Counters |-> old[k] + counter[k]] /\ resetAt' = sequence
        /\ at <= Len(Script)
    BY DEF prvResetStats, pipeline, sensor, Given
  <1>4. \A k \in Counters : counter[k] \in Nat /\ old[k] \in Nat
    BY <1>1, AmountsOK
  <1>5. QueueOK' /\ TallyOK' /\ PlainOK'
    BY <1>1, <1>3, <1>4 DEF QueueOK, TallyOK, PlainOK, FaultModes
  <1>6. \A k \in Counters : old'[k] = Total(k) /\ Total(k)' = Total(k)
    BY <1>3, <1>4 DEF Total
  <1>7. EventsOK' /\ LeftInv' /\ AtInv' /\ BeatInv'
    BY <1>1, <1>2, <1>3 DEF events, EventsOK, LeftInv, AtInv, BeatInv,
       HealthyMeansAllBeat, IInv
  <1>8. ResetInv'
    <2>1. SensorHas = 0
      BY <1>1, DiagRunsLast, Holdings DEF prvResetStats, Step
    <2>2. Amounts /\ Accounting
      BY <1>1, AmountsNat DEF IInv
    <2>3. sequence = Total("samples") + Total("sensor_drops")
      BY <2>1, <2>2, Balances DEF Amounts
    <2> QED BY <1>3, <1>6, <2>3, Names DEF ResetInv
  <1>9. Accounting'
    <2>1. Accounting
      BY DEF IInv
    <2>2. UNCHANGED <<Total("samples"), Total("frames"), Total("sensor_drops"),
                      Total("telemetry_drops"), sequence, Len(printed)>>
      BY <1>3, <1>6, Names
    <2>3. UNCHANGED <<Queued("xSensorQueue"), Queued("xTelemetryQueue")>>
      BY <1>3 DEF Queued
    <2> QED BY SMTT(60), <1>2, <2>1, <2>2, <2>3, Balances, BalancesNext DEF holdings
  <1> QED BY <1>2, <1>5, <1>7, <1>8, <1>9, TypePartsNext DEF IInv

-----------------------------------------------------------------------------
(* The invariant.                                                          *)

LEMMA InitIInv == Init => IInv
  <1> SUFFICES ASSUME Init PROVE IInv
    OBVIOUS
  <1>1. PcOK
    BY LabelsOf DEF Init, PcOK
  <1>2. QueueOK /\ TallyOK /\ EventsOK /\ PlainOK
    <2>1. Blank \in Items /\ <<>> \in Seq(Items) /\ <<>> \in Seq(Nat) /\ 0 <= Capacity
      BY FwAssumption DEF Blank, Items
    <2>2. 0 \in 0..BurstLen + 1 /\ 1 \in 1..Len(Script) + 1
          /\ 0 \in 0..MaxTicks /\ 0 \in 0..MaxTimeouts
      BY FwAssumption
    <2> QED BY <2>1, <2>2 DEF Init, QueueOK, TallyOK, EventsOK, PlainOK, FaultModes
  <1>3. LeftInv /\ AtInv /\ BeatInv /\ ResetInv
    BY Names DEF Init, LeftInv, AtInv, BeatInv, HealthyMeansAllBeat, ResetInv
  <1>4. Accounting
    <2>1. /\ SensorHas = 0 /\ SensorOwes = 0 /\ ProcessorHas = 0 /\ ProcessorOwes = 0
          /\ LoggerHas = 0
      BY <1>1, Holdings DEF Init
    <2>2. /\ \A k \in Counters : Total(k) = 0
          /\ \A q \in Queues : Queued(q) = 0
          /\ sequence = 0 /\ Len(printed) = 0
      BY DEF Init, Total, Queued
    <2> QED BY <2>1, <2>2, Balances, Names
  <1> QED BY <1>1, <1>2, <1>3, <1>4, TypeParts DEF IInv

LEMMA NextIInv == IInv /\ [Next]_vars => IInv'
  <1> SUFFICES ASSUME IInv, [Next]_vars PROVE IInv'
    OBVIOUS
  <1> USE DEF Producer
  <1>1. CASE prvSensorTask
    <2>1. CASE Send("sensor") \/ prvUpdateStats("sensor") \/ prvIncrementDrop("sensor")
      <3>1. CASE Send("sensor")
        BY <3>1, SendStep
      <3>2. CASE Settle("sensor", "count", Accepted["sensor"])
        BY <3>2, SettleStep
      <3>3. CASE Settle("sensor", "drop", Refused["sensor"])
        BY <3>3, SettleStep
      <3> QED BY <2>1, <3>1, <3>2, <3>3 DEF prvUpdateStats, prvIncrementDrop
    <2>2. CASE prvRecordHeartbeat("sensor")
      BY <2>2, HeartbeatStep, LabelsOf
    <2> QED BY <1>1, <2>1, <2>2, SensorPrepares, MakeStep DEF prvSensorTask
  <1>2. CASE prvProcessorTask
    <2>1. CASE Send("processor") \/ prvUpdateStats("processor") \/ prvIncrementDrop("processor")
      <3>1. CASE Send("processor")
        BY <3>1, SendStep
      <3>2. CASE Settle("processor", "count", Accepted["processor"])
        BY <3>2, SettleStep
      <3>3. CASE Settle("processor", "drop", Refused["processor"])
        BY <3>3, SettleStep
      <3> QED BY <2>1, <3>1, <3>2, <3>3 DEF prvUpdateStats, prvIncrementDrop
    <2>2. CASE prvRecordHeartbeat("processor")
      BY <2>2, HeartbeatStep, LabelsOf
    <2>3. CASE xQueueReceive("processor")
      BY <2>3, ReceiveStep
    <2> QED BY <1>2, <2>1, <2>2, <2>3, ProcessorLooks DEF prvProcessorTask
  <1>3. CASE prvLoggerTask
    <2>1. CASE prvRecordHeartbeat("logger")
      BY <2>1, HeartbeatStep, LabelsOf
    <2>2. CASE xQueueReceive("logger")
      BY <2>2, ReceiveStep
    <2> QED BY <1>3, <2>1, <2>2, PrintStep DEF prvLoggerTask
  <1>4. CASE prvDiagnosticsTask
    <2>1. CASE xQueueReset("xSensorQueue", "reset_sensor", "reset_telemetry")
               \/ xQueueReset("xTelemetryQueue", "reset_telemetry", "reset_bits")
      BY <2>1, FlushStep, Names
    <2>2. CASE prvResetStats
      BY <2>2, ResetStatsStep
    <2> QED BY <1>4, <2>1, <2>2, DiagQuiet DEF prvDiagnosticsTask
  <1>5. CASE Tick \/ WaitTimesOut \/ StallOver \/ DelayOver
    BY <1>5, SensorPrepares, TimeoutStep, ProcessorLooks, DiagQuiet
  <1>6. CASE UNCHANGED vars
    <2>1. UNCHANGED <<pc, hand, queue, flushed, printed, fault_mode, counter, old, resetAt,
                      bits, beaten, vouched, timeouts, kick, sequence, left, ticks, at>>
      BY <1>6 DEF vars, pipeline, stats, events, sensor
    <2>2. PcOK /\ QueueOK /\ TallyOK /\ EventsOK /\ PlainOK
      BY TypeParts DEF IInv
    <2>3. PcOK' /\ QueueOK' /\ TallyOK' /\ EventsOK' /\ PlainOK'
      BY <2>1, <2>2 DEF PcOK, QueueOK, TallyOK, EventsOK, PlainOK
    <2>4. LeftInv' /\ AtInv' /\ BeatInv' /\ ResetInv'
      BY <2>1 DEF LeftInv, AtInv, BeatInv, HealthyMeansAllBeat, ResetInv, IInv
    <2>5. UNCHANGED <<flow, holdings>> /\ counter' = counter
      BY <2>1, <2>2, <2>3, Holdings, HoldingsNext DEF flow, holdings
    <2>6. Accounting'
      BY <2>5, QuietAccounts DEF IInv
    <2> QED BY <2>3, <2>4, <2>6, TypePartsNext DEF IInv
  <1> QED BY <1>1, <1>2, <1>3, <1>4, <1>5, <1>6, WatchdogStep DEF Next, Exited

LEMMA SpecIInv == Spec => []IInv
  BY InitIInv, NextIInv, PTL DEF Spec

\* Every sample prvMakeSample makes is counted once, and every item that
\* entered a queue is queued, in a task's hands, counted, printed or flushed,
\* for queues and bursts of any size and any list of commands.
THEOREM NothingLost == Spec => []Accounting
  <1>1. IInv => Accounting
    BY DEF IInv
  <1> QED BY <1>1, SpecIInv, PTL

\* The watchdog task never reports healthy unless the three tasks have all
\* beaten since its last report.
THEOREM HealthyIsTrue == Spec => []HealthyMeansAllBeat
  <1>1. IInv => HealthyMeansAllBeat
    BY DEF IInv, BeatInv
  <1> QED BY <1>1, SpecIInv, PTL

\* No sample is halfway between its making and a counter when the task of the
\* lowest priority runs.
LEMMA StatusOfIInv == IInv => StatusExact
  <1> SUFFICES ASSUME IInv, Runs("diag")
               PROVE  counter["samples"] + counter["sensor_drops"] = sequence - resetAt
    BY DEF StatusExact
  <1>1. PcOK /\ QueueOK /\ TallyOK /\ PlainOK
    BY TypeParts DEF IInv
  <1>2. SensorHas = 0
    BY <1>1, DiagRunsLast, Holdings
  <1>3. sequence = Total("samples") + Total("sensor_drops")
    BY <1>1, <1>2, AmountsNat, Balances DEF Amounts, IInv
  <1>4. /\ old["samples"] \in Nat /\ old["sensor_drops"] \in Nat
        /\ counter["samples"] \in Nat /\ counter["sensor_drops"] \in Nat
    BY <1>1, AmountsOK, Names
  <1> QED BY <1>3, <1>4 DEF Total, ResetInv, IInv

\* What the status command prints, and prvResetStats zeroes, accounts for every
\* sample made since the last reset.
THEOREM StatusIsExact == Spec => []StatusExact
  BY StatusOfIInv, SpecIInv, PTL

-----------------------------------------------------------------------------
(* What prvPrintStats prints, without the mutex.                           *)

\* The samples read were not more than are counted now, and with the drops
\* counted now they make up for all that was made when they were read.
StatsInv == /\ shown \in [samples : Nat, made : Nat]
            /\ pc["diag"] = "stats" =>
                  /\ shown.samples <= counter["samples"]
                  /\ shown.made <= shown.samples + counter["sensor_drops"]

\* The other tasks do not zero a counter, nor do the ends of waits.
LEMMA OthersCountUp ==
    ASSUME IInv,
           \/ prvSensorTask \/ prvProcessorTask \/ prvLoggerTask \/ prvWatchdogTask
           \/ Tick \/ WaitTimesOut \/ StallOver \/ UNCHANGED vars
    PROVE  /\ shown' = shown /\ pc'["diag"] = pc["diag"]
           /\ counter' = counter \/ \E k \in Counters : Count(k)
  <1> USE LabelsOf, TypeParts DEF IInv, PcOK
  <1>1. ASSUME NEW t \in {"sensor", "processor"}, Producer(t)
        PROVE  /\ shown' = shown /\ pc'["diag"] = pc["diag"]
               /\ counter' = counter \/ \E k \in Counters : Count(k)
    <2>1. Accepted[t] \in Counters /\ Refused[t] \in Counters
      BY Names
    <2> QED BY <1>1, <2>1 DEF Producer, Send, prvUpdateStats, prvIncrementDrop, Settle, Step,
               stats
  <1>2. ASSUME NEW t \in Monitored, prvRecordHeartbeat(t)
        PROVE  shown' = shown /\ pc'["diag"] = pc["diag"] /\ counter' = counter
    BY <1>2 DEF prvRecordHeartbeat, stats
  <1>3. CASE SensorTake \/ SensorMode \/ prvMakeSample
    BY <1>3 DEF SensorTake, SensorMode, prvMakeSample, Step, stats
  <1>4. ASSUME NEW t \in {"processor", "logger"}, xQueueReceive(t)
        PROVE  shown' = shown /\ pc'["diag"] = pc["diag"] /\ counter' = counter
    BY <1>4 DEF xQueueReceive, Step, stats
  <1>5. CASE ProcessorCheck \/ ProcessorMode \/ prvPrintFrame
    BY <1>5, Names DEF ProcessorCheck, ProcessorMode, prvPrintFrame, Step, stats
  <1>6. CASE prvWatchdogTask
    BY <1>6, Names DEF prvWatchdogTask, WaitBits, AllBits, Healthy, Warn, Step, stats
  <1>7. CASE Tick \/ WaitTimesOut \/ StallOver \/ UNCHANGED vars
    BY <1>7 DEF Tick, WaitTimesOut, StallOver, vars, stats
  <1> QED BY <1>1, <1>2, <1>3, <1>4, <1>5, <1>6, <1>7
          DEF prvSensorTask, prvProcessorTask, prvLoggerTask

LEMMA NextStats == IInv /\ StatsInv /\ [Next]_vars => StatsInv'
  <1> SUFFICES ASSUME IInv, StatsInv, [Next]_vars PROVE StatsInv'
    OBVIOUS
  <1>1. /\ PcOK /\ counter["samples"] \in Nat /\ counter["sensor_drops"] \in Nat
        /\ counter \in [Counters -> Nat]
    BY TypeParts, Names DEF IInv, TallyOK
  <1>2. CASE \/ prvSensorTask \/ prvProcessorTask \/ prvLoggerTask \/ prvWatchdogTask
             \/ Tick \/ WaitTimesOut \/ StallOver \/ UNCHANGED vars
    <2>1. /\ shown' = shown /\ pc'["diag"] = pc["diag"]
          /\ counter' = counter \/ \E k \in Counters : Count(k)
      BY <1>2, OthersCountUp
    <2>2. /\ counter'["samples"] \in Nat /\ counter'["samples"] >= counter["samples"]
          /\ counter'["sensor_drops"] \in Nat
          /\ counter'["sensor_drops"] >= counter["sensor_drops"]
      BY <1>1, <2>1, Names DEF Count
    <2> QED BY <1>1, <2>1, <2>2 DEF StatsInv
  <1>3. CASE StatsSamples
    <2>1. shown' = [samples |-> counter["samples"], made |-> sequence - resetAt]
          /\ counter' = counter
      BY <1>3 DEF StatsSamples, stats
    <2>2. counter["samples"] + counter["sensor_drops"] = sequence - resetAt
      BY <1>3, StatusOfIInv DEF StatsSamples, Step, StatusExact
    <2> QED BY <1>1, <2>1, <2>2 DEF StatsInv
  <1>4. CASE StatsDrops
    BY <1>1, <1>4 DEF StatsDrops, Step, PcOK, Tasks, Nothing, StatsInv
  <1>5. CASE DelayOver \/ Show \/ (\E m \in FaultModes : prvSetFault(m)) \/ prvResetStats
             \/ xQueueReset("xSensorQueue", "reset_sensor", "reset_telemetry")
             \/ xQueueReset("xTelemetryQueue", "reset_telemetry", "reset_bits")
             \/ ClearBits \/ Exit
    <2>1. shown' = shown /\ pc'["diag"] # "stats"
      BY <1>1, <1>5 DEF DelayOver, Show, prvSetFault, prvResetStats, xQueueReset, ClearBits,
         Exit, Step, PcOK, Tasks
    <2> QED BY <2>1 DEF StatsInv
  <1> QED BY <1>2, <1>3, <1>4, <1>5 DEF Next, prvDiagnosticsTask, Exited

LEMMA InitStats == Init => StatsInv
  BY DEF Init, Nothing, StatsInv

LEMMA SpecStats == Spec => [](IInv /\ StatsInv)
  BY InitIInv, NextIInv, InitStats, NextStats, PTL DEF Spec

LEMMA StatsOfInv == IInv /\ StatsInv => StatsAddUp
  <1> SUFFICES ASSUME IInv, StatsInv, Runs("diag"), pc["diag"] = "stats"
               PROVE  shown.samples + counter["sensor_drops"]
                         \in shown.made..(sequence - resetAt)
    BY DEF StatsAddUp
  <1>1. counter["samples"] + counter["sensor_drops"] = sequence - resetAt
    BY StatusOfIInv DEF StatusExact
  <1>2. /\ counter["samples"] \in Nat /\ counter["sensor_drops"] \in Nat
        /\ sequence \in Nat /\ resetAt \in Nat
    BY TypeParts, Names DEF IInv, TallyOK, PlainOK
  <1>3. /\ shown.samples \in Nat /\ shown.made \in Nat
        /\ shown.samples <= counter["samples"]
        /\ shown.made <= shown.samples + counter["sensor_drops"]
    BY DEF StatsInv
  <1> QED BY <1>1, <1>2, <1>3

\* prvPrintStats reads xStats without the mutex while the other tasks count
\* on; the samples and drops it prints still add up to no fewer than had been
\* made at its first read and to no more than at its second.
THEOREM StatsAreSound == Spec => []StatsAddUp
  BY StatsOfInv, SpecStats, PTL

\* Every variable keeps its type and no queue grows past its capacity, so the
\* tasks of firmware/src/main.c are always at a place their loops have.
THEOREM TypeCorrect == Spec => []TypeOK
  <1>1. IInv /\ StatsInv => TypeOK
    BY TypeParts DEF IInv, StatsInv, TypeOK, PcOK, QueueOK, TallyOK, EventsOK, PlainOK
  <1> QED BY <1>1, SpecStats, PTL

-----------------------------------------------------------------------------
(***************************************************************************)
(* The order in which the firmware prints its frames.                      *)
(*                                                                         *)
(* The pipeline is five places in a row: what the sensor task is about to  *)
(* send, xSensorQueue, what the processor task is about to send,           *)
(* xTelemetryQueue, what the logger task is about to print.  OrderInv says *)
(* that whatever is further on was made earlier, and that what is printed  *)
(* was made before all of it.                                              *)
(***************************************************************************)
Within(q) == {queue[q][i] : i \in DOMAIN queue[q]}

Carries == [sensor    |-> {"send"},
            processor |-> {"beat", "check", "mode", "stall", "send"},
            logger    |-> {"beat", "print"}]
With(t) == IF pc[t] \in Carries[t] THEN {hand[t]} ELSE {}

Pipeline == With("sensor") \cup Within("xSensorQueue") \cup With("processor")
            \cup Within("xTelemetryQueue") \cup With("logger")

Increasing(s) == \A i, j \in DOMAIN s : i < j => s[i].seq < s[j].seq
Ahead(X, Y)   == \A x \in X, y \in Y : x.seq < y.seq

\* Five places, from the logger back to the sensor.
InOrder(L, T, P, S, N) == /\ Ahead(L, T \cup P \cup S \cup N)
                          /\ Ahead(T, P \cup S \cup N)
                          /\ Ahead(P, S \cup N)
                          /\ Ahead(S, N)

QueuesInOrder == Increasing(queue["xSensorQueue"]) /\ Increasing(queue["xTelemetryQueue"])
PlacesInOrder == InOrder(With("logger"), Within("xTelemetryQueue"), With("processor"),
                         Within("xSensorQueue"), With("sensor"))
MadeByNow     == /\ \A s \in Pipeline : s.seq <= sequence
                 /\ \A i \in DOMAIN printed : printed[i] <= sequence
PrintedBefore == \A s \in Pipeline : \A i \in DOMAIN printed : printed[i] < s.seq

OrderInv == QueuesInOrder /\ PlacesInOrder /\ MadeByNow /\ PrintedBefore /\ PrintedInOrder

LEMMA CarriesOf ==
    /\ Carries["sensor"] = {"send"}
    /\ Carries["processor"] = {"beat", "check", "mode", "stall", "send"}
    /\ Carries["logger"] = {"beat", "print"}
  BY DEF Carries

-----------------------------------------------------------------------------
(* Queues in order.                                                        *)

\* An item put behind all others.
LEMMA AppendInOrder ==
    ASSUME NEW s \in Seq(Items), Increasing(s), NEW v \in Items,
           \A i \in DOMAIN s : s[i].seq < v.seq
    PROVE  /\ Increasing(Append(s, v))
           /\ {Append(s, v)[i] : i \in DOMAIN Append(s, v)}
                 = {s[i] : i \in DOMAIN s} \cup {v}
  <1> DEFINE a == Append(s, v)
  <1>1. /\ DOMAIN s = 1..Len(s) /\ DOMAIN a = 1..(Len(s) + 1) /\ Len(s) \in Nat
        /\ \A i \in DOMAIN s : a[i] = s[i]
        /\ a[Len(s) + 1] = v
    OBVIOUS
  <1> HIDE DEF a
  <1>2. Increasing(a)
    <2> SUFFICES ASSUME NEW i \in DOMAIN a, NEW j \in DOMAIN a, i < j
                 PROVE  a[i].seq < a[j].seq
      BY DEF Increasing
    <2>1. i \in DOMAIN s
      BY <1>1
    <2>2. CASE j \in DOMAIN s
      BY <1>1, <2>1, <2>2 DEF Increasing
    <2>3. CASE j = Len(s) + 1
      BY <1>1, <2>1, <2>3
    <2> QED BY <1>1, <2>2, <2>3
  <1>3. {a[i] : i \in DOMAIN a} = {s[i] : i \in DOMAIN s} \cup {v}
    <2>1. ASSUME NEW i \in DOMAIN a PROVE a[i] \in {s[k] : k \in DOMAIN s} \cup {v}
      BY <1>1
    <2>2. ASSUME NEW i \in DOMAIN s PROVE s[i] \in {a[k] : k \in DOMAIN a}
      BY <1>1
    <2>3. v \in {a[k] : k \in DOMAIN a}
      <3>1. Len(s) + 1 \in DOMAIN a
        BY <1>1
      <3> QED BY <1>1, <3>1
    <2> QED BY <2>1, <2>2, <2>3
  <1> QED BY <1>2, <1>3 DEF a

\* The head was ahead of the rest.
LEMMA TailInOrder ==
    ASSUME NEW s \in Seq(Items), Increasing(s), s # <<>>
    PROVE  /\ Increasing(Tail(s))
           /\ Head(s) \in {s[i] : i \in DOMAIN s}
           /\ {Tail(s)[i] : i \in DOMAIN Tail(s)} \subseteq {s[i] : i \in DOMAIN s}
           /\ Ahead({Head(s)}, {Tail(s)[i] : i \in DOMAIN Tail(s)})
  <1> DEFINE r == Tail(s)
  <1>1. /\ DOMAIN s = 1..Len(s) /\ Len(s) \in Nat /\ Len(s) # 0 /\ Head(s) = s[1]
        /\ DOMAIN r = 1..(Len(s) - 1)
        /\ \A i \in DOMAIN r : r[i] = s[i + 1]
    OBVIOUS
  <1> HIDE DEF r
  <1>2. 1 \in DOMAIN s /\ \A i \in DOMAIN r : i + 1 \in DOMAIN s /\ 1 < i + 1
    BY <1>1
  <1>3. Increasing(r)
    <2> SUFFICES ASSUME NEW i \in DOMAIN r, NEW j \in DOMAIN r, i < j
                 PROVE  r[i].seq < r[j].seq
      BY DEF Increasing
    <2>1. i + 1 < j + 1
      BY <1>1
    <2> QED BY <1>1, <1>2, <2>1 DEF Increasing
  <1>4. \A i \in DOMAIN r : s[1].seq < r[i].seq
    BY <1>1, <1>2 DEF Increasing
  <1> QED BY <1>1, <1>2, <1>3, <1>4 DEF Ahead, r

-----------------------------------------------------------------------------
(* One lemma per kind of step.                                             *)

LEMMA PipelineTyped ==
    ASSUME IInv
    PROVE  /\ \A q \in Queues : queue[q] \in Seq(Items) /\ Within(q) \subseteq Items
           /\ \A t \in Monitored : hand[t] \in Items
           /\ Pipeline \subseteq Items
           /\ sequence \in Nat /\ printed \in Seq(Nat)
  <1>1. /\ \A q \in Queues : queue[q] \in Seq(Items)
        /\ \A t \in Monitored : hand[t] \in Items
        /\ sequence \in Nat /\ printed \in Seq(Nat)
    BY TypeParts DEF IInv, QueueOK, PlainOK, TallyOK
  <1>2. \A q \in Queues : Within(q) \subseteq Items
    BY <1>1 DEF Within
  <1>3. Pipeline \subseteq Items
    BY <1>1, <1>2, Names, LabelsOf DEF Pipeline, With
  <1> QED BY <1>1, <1>2, <1>3

\* Nothing that t carries after the step is new to it.
Kept(t) == pc'[t] \in Carries[t] => pc[t] \in Carries[t] /\ hand'[t] = hand[t]

\* Steps that hand nothing on: at most they take items out.
LEMMA NothingMoves ==
    ASSUME OrderInv, \A t \in Monitored : Kept(t),
           \A q \in Queues : queue'[q] = queue[q] \/ queue'[q] = <<>>,
           sequence' = sequence, printed' = printed
    PROVE  OrderInv'
  <1>1. \A t \in Monitored : With(t)' \subseteq With(t)
    BY DEF Kept, With
  <1>2. ASSUME NEW q \in Queues
        PROVE  Within(q)' \subseteq Within(q)
               /\ (Increasing(queue[q]) => Increasing(queue'[q]))
    BY DEF Within, Increasing
  <1>3. /\ With("sensor")' \subseteq With("sensor")
        /\ With("processor")' \subseteq With("processor")
        /\ With("logger")' \subseteq With("logger")
        /\ Within("xSensorQueue")' \subseteq Within("xSensorQueue")
        /\ Within("xTelemetryQueue")' \subseteq Within("xTelemetryQueue")
    BY <1>1, <1>2, Names, LabelsOf
  <1>4. Pipeline' \subseteq Pipeline
    BY <1>3 DEF Pipeline
  <1>5. QueuesInOrder'
    BY <1>2, Names DEF OrderInv, QueuesInOrder
  <1>6. PlacesInOrder'
    BY <1>3 DEF OrderInv, PlacesInOrder, InOrder, Ahead
  <1>7. MadeByNow' /\ PrintedBefore' /\ PrintedInOrder'
    BY <1>4 DEF OrderInv, MadeByNow, PrintedBefore, PrintedInOrder
  <1> QED BY <1>5, <1>6, <1>7 DEF OrderInv

\* A step that leaves all items where they were or one place further on.
LEMMA NothingNew ==
    ASSUME OrderInv, QueuesInOrder', PlacesInOrder', Pipeline' \subseteq Pipeline,
           sequence' = sequence, printed' = printed
    PROVE  OrderInv'
  BY DEF OrderInv, MadeByNow, PrintedBefore, PrintedInOrder

\* xQueueSend, by the sensor task or by the processor task.
LEMMA SendKeepsOrder ==
    ASSUME IInv, OrderInv, NEW t \in {"sensor", "processor"}, Send(t)
    PROVE  OrderInv'
  <1>1. /\ sequence' = sequence /\ printed' = printed /\ hand' = hand
        /\ t \in Tasks /\ t \in Monitored /\ Into[t] \in Queues
    BY LabelsOf, Names DEF Send, sensor
  <1>2. PcOK /\ queue \in [Queues -> Seq(Items)]
    BY TypeParts DEF IInv, QueueOK
  <1>3. CASE ~Room(Into[t])
    <2>1. Step(t, "send", "drop") /\ queue' = queue
      BY <1>3 DEF Send
    <2>2. pc'[t] = "drop" /\ \A u \in Tasks : u # t => pc'[u] = pc[u]
      <3>1. "drop" \in Labels[t]
        BY LabelsOf
      <3> QED BY <2>1, <1>1, <1>2, <3>1, StepMoves
    <2>3. \A u \in Monitored : Kept(u)
      BY <1>1, <2>2, LabelsOf, CarriesOf DEF Kept
    <2> QED BY <1>1, <2>1, <2>3, NothingMoves
  <1>4. CASE Room(Into[t])
    <2> DEFINE q == Into[t]
    <2>1. Step(t, "send", "count") /\ queue' = [queue EXCEPT ![q] = Append(@, hand[t])]
      BY <1>4 DEF Send
    <2>2. /\ pc[t] = "send" /\ pc'[t] = "count"
          /\ \A u \in Tasks : u # t => pc'[u] = pc[u]
      <3>1. "count" \in Labels[t]
        BY LabelsOf
      <3> QED BY <2>1, <1>1, <1>2, <3>1, StepMoves
    <2>3. /\ queue[q] \in Seq(Items) /\ hand[t] \in Items
      BY <1>1, PipelineTyped
    <2>4. /\ queue'[q] = Append(queue[q], hand[t])
          /\ \A r \in Queues : r # q => queue'[r] = queue[r]
      BY <1>1, <1>2, <2>1
    <2>5. /\ With(t) = {hand[t]} /\ With(t)' = {}
          /\ \A u \in Monitored : u # t => With(u)' = With(u)
      BY <1>1, <2>2, LabelsOf, CarriesOf DEF With
    <2>6. Increasing(queue[q]) /\ \A i \in DOMAIN queue[q] : queue[q][i].seq < hand[t].seq
      <3>1. Ahead(Within(q), With(t)) /\ Increasing(queue[q])
        BY Names DEF OrderInv, QueuesInOrder, PlacesInOrder, InOrder, Ahead
      <3> QED BY <2>5, <3>1 DEF Ahead, Within
    <2>7. Increasing(queue'[q]) /\ Within(q)' = Within(q) \cup {hand[t]}
      <3>1. /\ Increasing(Append(queue[q], hand[t]))
            /\ {Append(queue[q], hand[t])[i] : i \in DOMAIN Append(queue[q], hand[t])}
                  = Within(q) \cup {hand[t]}
        BY <2>3, <2>6, AppendInOrder DEF Within
      <3>2. Within(q)' = {queue'[q][i] : i \in DOMAIN queue'[q]}
        BY DEF Within
      <3> QED BY <2>4, <3>1, <3>2
    <2>8. \A r \in Queues : r # q => Within(r)' = Within(r)
      BY <2>4 DEF Within
    <2>9. QueuesInOrder'
      BY <2>4, <2>7, Names DEF OrderInv, QueuesInOrder
    <2>10. CASE t = "sensor"
      <3>1. /\ With("sensor")' = {} /\ With("processor")' = With("processor")
            /\ With("logger")' = With("logger")
            /\ Within("xSensorQueue")' = Within("xSensorQueue") \cup With("sensor")
            /\ Within("xTelemetryQueue")' = Within("xTelemetryQueue")
        BY <2>5, <2>7, <2>8, <2>10, Names, LabelsOf
      <3>2. Pipeline' \subseteq Pipeline
        BY <3>1 DEF Pipeline
      <3>3. PlacesInOrder'
        BY <3>1 DEF OrderInv, PlacesInOrder, InOrder, Ahead
      <3> QED BY <1>1, <2>9, <3>2, <3>3, NothingNew
    <2>11. CASE t = "processor"
      <3>1. /\ With("processor")' = {} /\ With("sensor")' = With("sensor")
            /\ With("logger")' = With("logger")
            /\ Within("xTelemetryQueue")' = Within("xTelemetryQueue") \cup With("processor")
            /\ Within("xSensorQueue")' = Within("xSensorQueue")
        BY <2>5, <2>7, <2>8, <2>11, Names, LabelsOf
      <3>2. Pipeline' \subseteq Pipeline
        BY <3>1 DEF Pipeline
      <3>3. PlacesInOrder'
        BY <3>1 DEF OrderInv, PlacesInOrder, InOrder, Ahead
      <3> QED BY <1>1, <2>9, <3>2, <3>3, NothingNew
    <2> QED BY <2>10, <2>11
  <1> QED BY <1>3, <1>4

\* xQueueReceive, by the processor task or by the logger task.
LEMMA ReceiveKeepsOrder ==
    ASSUME IInv, OrderInv, NEW t \in {"processor", "logger"}, xQueueReceive(t)
    PROVE  OrderInv'
  <1> DEFINE q == From[t]
  <1>1. /\ sequence' = sequence /\ printed' = printed
        /\ t \in Tasks /\ t \in Monitored /\ q \in Queues
        /\ Step(t, "receive", "beat")
        /\ hand' = [hand EXCEPT ![t] = Head(queue[q])]
        /\ queue' = [queue EXCEPT ![q] = Tail(@)]
    BY LabelsOf, Names DEF xQueueReceive, Grab, Oldest, sensor
  <1>2. PcOK /\ queue \in [Queues -> Seq(Items)] /\ hand \in [Monitored -> Items]
    BY TypeParts DEF IInv, QueueOK
  <1>3. /\ pc[t] = "receive" /\ pc'[t] = "beat"
        /\ \A u \in Tasks : u # t => pc'[u] = pc[u]
    BY <1>1, <1>2, StepMoves, LabelsOf
  <1>4. queue[q] # <<>> /\ queue[q] \in Seq(Items)
    <2>1. ~Blocked(t)
      BY <1>1 DEF Step, Runs
    <2> QED BY <1>1, <1>2, <1>3, <2>1 DEF Blocked
  <1>5. /\ queue'[q] = Tail(queue[q]) /\ \A r \in Queues : r # q => queue'[r] = queue[r]
        /\ hand'[t] = Head(queue[q]) /\ \A u \in Monitored : u # t => hand'[u] = hand[u]
    BY <1>1, <1>2
  <1>6. /\ With(t) = {} /\ With(t)' = {hand'[t]}
        /\ \A u \in Monitored : u # t => With(u)' = With(u)
    <2>1. "receive" \notin Carries[t] /\ "beat" \in Carries[t]
      BY CarriesOf
    <2>2. \A u \in Monitored : u # t => pc'[u] = pc[u] /\ hand'[u] = hand[u]
      BY <1>3, <1>5, LabelsOf
    <2> QED BY <1>3, <2>1, <2>2 DEF With
  <1>7. Increasing(queue[q])
    BY Names DEF OrderInv, QueuesInOrder
  <1>8. /\ Increasing(queue'[q]) /\ hand'[t] \in Within(q)
        /\ Within(q)' \subseteq Within(q) /\ Ahead({hand'[t]}, Within(q)')
    <2>1. /\ Increasing(Tail(queue[q])) /\ Head(queue[q]) \in Within(q)
          /\ {Tail(queue[q])[i] : i \in DOMAIN Tail(queue[q])} \subseteq Within(q)
          /\ Ahead({Head(queue[q])}, {Tail(queue[q])[i] : i \in DOMAIN Tail(queue[q])})
      BY <1>4, <1>7, TailInOrder DEF Within
    <2>2. Within(q)' = {queue'[q][i] : i \in DOMAIN queue'[q]}
      BY DEF Within
    <2> QED BY <1>5, <2>1, <2>2
  <1>9. \A r \in Queues : r # q => Within(r)' = Within(r)
    BY <1>5 DEF Within
  <1>10. QueuesInOrder'
    BY <1>5, <1>8, Names DEF OrderInv, QueuesInOrder
  <1>11. CASE t = "processor"
    <2>1. /\ With("processor") = {} /\ With("processor")' = {hand'[t]}
          /\ hand'[t] \in Within("xSensorQueue")
          /\ Within("xSensorQueue")' \subseteq Within("xSensorQueue")
          /\ Ahead({hand'[t]}, Within("xSensorQueue")')
          /\ With("sensor")' = With("sensor") /\ With("logger")' = With("logger")
          /\ Within("xTelemetryQueue")' = Within("xTelemetryQueue")
      BY <1>6, <1>8, <1>9, <1>11, Names, LabelsOf
    <2>2. Pipeline' \subseteq Pipeline
      BY <2>1 DEF Pipeline
    <2>3. PlacesInOrder'
      BY <2>1 DEF OrderInv, PlacesInOrder, InOrder, Ahead
    <2> QED BY <1>1, <1>10, <2>2, <2>3, NothingNew
  <1>12. CASE t = "logger"
    <2>1. /\ With("logger") = {} /\ With("logger")' = {hand'[t]}
          /\ hand'[t] \in Within("xTelemetryQueue")
          /\ Within("xTelemetryQueue")' \subseteq Within("xTelemetryQueue")
          /\ Ahead({hand'[t]}, Within("xTelemetryQueue")')
          /\ With("sensor")' = With("sensor") /\ With("processor")' = With("processor")
          /\ Within("xSensorQueue")' = Within("xSensorQueue")
      BY <1>6, <1>8, <1>9, <1>12, Names, LabelsOf
    <2>2. Pipeline' \subseteq Pipeline
      BY <2>1 DEF Pipeline
    <2>3. PlacesInOrder'
      BY <2>1 DEF OrderInv, PlacesInOrder, InOrder, Ahead
    <2> QED BY <1>1, <1>10, <2>2, <2>3, NothingNew
  <1> QED BY <1>11, <1>12

\* prvPrintFrame: what is printed is ahead of all that is left.
LEMMA PrintKeepsOrder == ASSUME IInv, OrderInv, prvPrintFrame PROVE OrderInv'
  <1>1. /\ sequence' = sequence /\ queue' = queue
        /\ printed' = Append(printed, hand["logger"].seq)
        /\ Step("logger", "print", "receive")
        /\ hand' = [hand EXCEPT !["logger"] = Blank]
    BY DEF prvPrintFrame, Grab, sensor
  <1>2. PcOK /\ hand \in [Monitored -> Items]
    BY TypeParts DEF IInv, QueueOK
  <1>3. /\ pc["logger"] = "print" /\ pc'["logger"] = "receive"
        /\ \A u \in Tasks : u # "logger" => pc'[u] = pc[u]
    BY <1>1, <1>2, StepMoves, LabelsOf
  <1>4. /\ With("logger") = {hand["logger"]} /\ With("logger")' = {}
        /\ With("sensor")' = With("sensor") /\ With("processor")' = With("processor")
    BY <1>1, <1>2, <1>3, LabelsOf, CarriesOf DEF With
  <1>5. \A q \in Queues : Within(q)' = Within(q)
    BY <1>1 DEF Within
  <1>6. Pipeline' \subseteq Pipeline /\ hand["logger"] \in Pipeline
    BY <1>4, <1>5, Names DEF Pipeline
  <1>7. QueuesInOrder' /\ PlacesInOrder'
    BY <1>1, <1>4, <1>5, Names DEF OrderInv, QueuesInOrder, PlacesInOrder, InOrder, Ahead
  <1>8. \A s \in Pipeline' : hand["logger"].seq < s.seq
    BY <1>4, <1>5, Names DEF OrderInv, PlacesInOrder, InOrder, Ahead, Pipeline
  <1> DEFINE n == hand["logger"].seq
  <1>9. /\ n \in Nat /\ n <= sequence /\ \A i \in DOMAIN printed : printed[i] < n
        /\ printed \in Seq(Nat)
    BY <1>6, PipelineTyped DEF OrderInv, MadeByNow, PrintedBefore, Items
  <1>10. /\ DOMAIN printed = 1..Len(printed) /\ DOMAIN printed' = 1..(Len(printed) + 1)
         /\ Len(printed) \in Nat /\ printed'[Len(printed) + 1] = n
         /\ \A i \in DOMAIN printed : printed'[i] = printed[i]
    BY <1>1, <1>9
  <1>11. MadeByNow' /\ PrintedBefore'
    BY <1>1, <1>6, <1>8, <1>9, <1>10 DEF OrderInv, MadeByNow, PrintedBefore
  <1>12. PrintedInOrder'
    <2> SUFFICES ASSUME NEW i \in DOMAIN printed', NEW j \in DOMAIN printed', i < j
                 PROVE  printed'[i] < printed'[j]
      BY DEF PrintedInOrder
    <2>1. i \in DOMAIN printed
      BY <1>10
    <2>2. CASE j \in DOMAIN printed
      BY <1>10, <2>1, <2>2 DEF OrderInv, PrintedInOrder
    <2>3. CASE j = Len(printed) + 1
      BY <1>9, <1>10, <2>1, <2>3
    <2> QED BY <1>10, <2>2, <2>3
  <1> QED BY <1>7, <1>11, <1>12 DEF OrderInv

\* prvMakeSample: the new sample is behind all others.
LEMMA MakeKeepsOrder == ASSUME IInv, OrderInv, prvMakeSample PROVE OrderInv'
  <1>1. /\ sequence' = sequence + 1 /\ queue' = queue /\ printed' = printed
        /\ Step("sensor", "make", "send")
        /\ hand' = [hand EXCEPT !["sensor"] =
                       [seq |-> sequence + 1, bad |-> fault_mode = "sensor"]]
    BY DEF prvMakeSample, Grab
  <1>2. PcOK /\ hand \in [Monitored -> Items]
    BY TypeParts DEF IInv, QueueOK
  <1>3. /\ pc["sensor"] = "make" /\ pc'["sensor"] = "send"
        /\ \A u \in Tasks : u # "sensor" => pc'[u] = pc[u]
    BY <1>1, <1>2, StepMoves, LabelsOf
  <1>4. /\ With("sensor") = {} /\ With("sensor")' = {hand'["sensor"]}
        /\ With("logger")' = With("logger") /\ With("processor")' = With("processor")
        /\ hand'["sensor"].seq = sequence + 1
    BY <1>1, <1>2, <1>3, LabelsOf, CarriesOf DEF With
  <1>5. \A q \in Queues : Within(q)' = Within(q)
    BY <1>1 DEF Within
  <1>6. Pipeline' \subseteq Pipeline \cup {hand'["sensor"]}
    BY <1>4, <1>5, Names DEF Pipeline
  <1>7. /\ sequence \in Nat /\ \A s \in Pipeline : s.seq \in Nat /\ s.seq < sequence + 1
        /\ \A i \in DOMAIN printed : printed[i] \in Nat /\ printed[i] < sequence + 1
    BY PipelineTyped DEF OrderInv, MadeByNow, Items
  <1>8. PlacesInOrder'
    BY <1>4, <1>5, <1>7, Names DEF OrderInv, PlacesInOrder, InOrder, Ahead, Pipeline
  <1>9. QueuesInOrder' /\ PrintedInOrder'
    BY <1>1 DEF OrderInv, QueuesInOrder, PrintedInOrder
  <1>10. MadeByNow' /\ PrintedBefore'
    BY <1>1, <1>4, <1>6, <1>7 DEF OrderInv, MadeByNow, PrintedBefore
  <1> QED BY <1>8, <1>9, <1>10 DEF OrderInv

\* Every other step hands nothing on and prints nothing.
LEMMA OthersKeepOrder ==
    ASSUME IInv, OrderInv,
           \/ \E t \in Monitored : prvRecordHeartbeat(t)
           \/ \E t \in {"sensor", "processor"} : prvUpdateStats(t) \/ prvIncrementDrop(t)
           \/ SensorTake \/ SensorMode \/ ProcessorCheck \/ ProcessorMode
           \/ prvWatchdogTask \/ prvDiagnosticsTask
           \/ Tick \/ WaitTimesOut \/ StallOver \/ DelayOver \/ UNCHANGED vars
    PROVE  OrderInv'
  <1>0. /\ DOMAIN pc = Tasks /\ hand \in [Monitored -> Items]
        /\ queue \in [Queues -> Seq(Items)]
        /\ Tasks = Monitored \cup {"watchdog", "diag"}
        /\ Monitored = {"sensor", "processor", "logger"}
    BY TypeParts DEF IInv, PcOK, QueueOK, Tasks, Monitored
  <1> DEFINE Still == /\ \A t \in Monitored : Kept(t)
                      /\ \A q \in Queues : queue'[q] = queue[q] \/ queue'[q] = <<>>
                      /\ sequence' = sequence /\ printed' = printed
  <1>1. ASSUME NEW t \in Monitored, prvRecordHeartbeat(t) PROVE Still
    <2>1. /\ UNCHANGED <<hand, queue, sequence, printed>> /\ pc[t] = "beat"
          /\ \A u \in Monitored : u # t => pc'[u] = pc[u]
          /\ pc'[t] = AfterBeat[t]
      BY <1>0, <1>1 DEF prvRecordHeartbeat, pipeline, sensor
    <2>2. AfterBeat["sensor"] = "mode"
      BY DEF AfterBeat
    <2> QED BY <1>0, <2>1, <2>2, CarriesOf DEF Kept
  <1>2. ASSUME NEW t \in {"sensor", "processor"}, prvUpdateStats(t) \/ prvIncrementDrop(t)
        PROVE  Still
    <2>1. /\ UNCHANGED <<queue, sequence, printed>>
          /\ hand' = [hand EXCEPT ![t] = Blank] /\ pc' = [pc EXCEPT ![t] = Again(t)]
      BY <1>2 DEF prvUpdateStats, prvIncrementDrop, Settle, Grab, Step, sensor
    <2>2. Again("processor") = "receive" /\ Again("sensor") \in {"make", "take"}
      BY DEF Again
    <2> QED BY <1>0, <2>1, <2>2, CarriesOf DEF Kept
  <1>3. ASSUME SensorTake \/ SensorMode PROVE Still
    <2>1. /\ UNCHANGED <<hand, queue, sequence, printed>>
          /\ \E b \in {"beat", "make"} : pc' = [pc EXCEPT !["sensor"] = b]
      BY <1>3 DEF SensorTake, SensorMode, Step, pipeline
    <2> QED BY <1>0, <2>1, CarriesOf DEF Kept
  <1>4. ASSUME ProcessorCheck \/ ProcessorMode \/ StallOver PROVE Still
    <2>1. /\ UNCHANGED <<hand, queue, sequence, printed>>
          /\ pc["processor"] \in {"check", "mode", "stall"}
          /\ \E b : pc' = [pc EXCEPT !["processor"] = b]
      BY <1>4 DEF ProcessorCheck, ProcessorMode, StallOver, Step, pipeline, sensor
    <2> QED BY <1>0, <2>1, CarriesOf DEF Kept
  <1>5. ASSUME prvWatchdogTask \/ WaitTimesOut \/ DelayOver PROVE Still
    <2>1. /\ UNCHANGED <<hand, queue, sequence, printed>>
          /\ \E t \in {"watchdog", "diag"} : \E b : pc' = [pc EXCEPT ![t] = b]
      BY <1>5 DEF prvWatchdogTask, WaitBits, AllBits, Healthy, Warn, WaitTimesOut, DelayOver,
                  Step, pipeline, sensor
    <2> QED BY <1>0, <2>1 DEF Kept
  <1>6. ASSUME prvDiagnosticsTask PROVE Still
    <2>1. /\ UNCHANGED <<hand, sequence, printed>>
          /\ \E b : pc' = [pc EXCEPT !["diag"] = b]
          /\ queue' = queue \/ \E q \in Queues : queue' = [queue EXCEPT ![q] = <<>>]
      BY <1>6, Names DEF prvDiagnosticsTask, Show, StatsSamples, StatsDrops, prvSetFault,
                  prvResetStats, xQueueReset, ClearBits, Exit, Step, pipeline, sensor
    <2> QED BY <1>0, <2>1 DEF Kept
  <1>7. ASSUME Tick \/ UNCHANGED vars PROVE Still
    BY <1>7 DEF Tick, vars, pipeline, sensor, Kept
  <1>8. Still
    BY <1>1, <1>2, <1>3, <1>4, <1>5, <1>6, <1>7
  <1> QED BY <1>8, NothingMoves

LEMMA NextOrder == ASSUME IInv, OrderInv, [Next]_vars PROVE OrderInv'
  <1>1. \/ \E t \in {"sensor", "processor"} : Send(t)
        \/ \E t \in {"processor", "logger"} : xQueueReceive(t)
        \/ prvPrintFrame \/ prvMakeSample
        \/ \E t \in Monitored : prvRecordHeartbeat(t)
        \/ \E t \in {"sensor", "processor"} : prvUpdateStats(t) \/ prvIncrementDrop(t)
        \/ SensorTake \/ SensorMode \/ ProcessorCheck \/ ProcessorMode
        \/ prvWatchdogTask \/ prvDiagnosticsTask
        \/ Tick \/ WaitTimesOut \/ StallOver \/ DelayOver \/ UNCHANGED vars
    BY LabelsOf DEF Next, prvSensorTask, prvProcessorTask, prvLoggerTask, Producer, Exited
  <1> QED BY <1>1, SendKeepsOrder, ReceiveKeepsOrder, PrintKeepsOrder, MakeKeepsOrder,
             OthersKeepOrder

LEMMA InitOrder == Init => OrderInv
  <1> SUFFICES ASSUME Init PROVE OrderInv
    OBVIOUS
  <1>1. /\ queue["xSensorQueue"] = <<>> /\ queue["xTelemetryQueue"] = <<>>
        /\ pc["sensor"] = "take" /\ pc["processor"] = "receive" /\ pc["logger"] = "receive"
        /\ printed = <<>>
    BY Names DEF Init
  <1>2. With("sensor") = {} /\ With("processor") = {} /\ With("logger") = {}
    BY <1>1, CarriesOf DEF With
  <1>3. Within("xSensorQueue") = {} /\ Within("xTelemetryQueue") = {}
    BY <1>1 DEF Within
  <1>4. Pipeline = {}
    BY <1>2, <1>3 DEF Pipeline
  <1>5. DOMAIN printed = {}
    BY <1>1
  <1> QED BY <1>1, <1>2, <1>3, <1>4, <1>5
          DEF OrderInv, QueuesInOrder, PlacesInOrder, MadeByNow, PrintedBefore,
              PrintedInOrder, InOrder, Ahead, Increasing

LEMMA SpecOrderInv == Spec => [](IInv /\ OrderInv)
  <1>1. IInv /\ OrderInv /\ [Next]_vars => OrderInv'
    BY NextOrder
  <1> QED BY <1>1, InitOrder, SpecIInv, PTL DEF Spec

\* prvPrintFrame prints frames in the order of their samples, each at most once,
\* through drops, stalls, preemption and resets.
THEOREM PrintsInOrder == Spec => []PrintedInOrder
  <1>1. OrderInv => PrintedInOrder
    BY DEF OrderInv
  <1> QED BY <1>1, SpecOrderInv, PTL
=============================================================================
