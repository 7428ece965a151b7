----------------------------- MODULE Lm3sProofs -----------------------------
(***************************************************************************)
(* Theorems about Lm3s, for every capacity of at least 3 and every number  *)
(* of commands.                                                            *)
(*                                                                         *)
(* TypeOK and TokenHasItem together are inductive: a token and its sample  *)
(* come and go together, and a sample that is dropped finds Capacity       *)
(* others, while there are never more than two tokens and one owed.        *)
(*                                                                         *)
(* On top of them: LagInv, which gives LagNeedsRecovery; MatchInv, which   *)
(* gives VerdictMatchesData; AsleepInv, ClockInv and StallInv, which give  *)
(* StallReported; and with BeatsInv and RecentInv, NoFalseAlarm.           *)
(***************************************************************************)
EXTENDS Lm3s, TLAPS

IInv == TypeOK /\ TokenHasItem

-----------------------------------------------------------------------------
(* What the helpers do.                                                    *)

\* A task's kernel call moves that task and keeps every one in its code.
LEMMA StepMoves ==
    ASSUME TypeOK, NEW t \in Beating, NEW a, NEW b \in Labels[t], Step(t, a, b)
    PROVE  /\ DOMAIN pc' = Beating /\ \A u \in Beating : pc'[u] \in Labels[u]
           /\ pc[t] = a /\ pc'[t] = b
           /\ \A u \in Beating : u # t => pc'[u] = pc[u]
  BY DEF TypeOK, Step

\* xQueueSend adds the item or drops it, and the queue keeps to its capacity.
LEMMA SentBounds ==
    ASSUME NEW S, NEW q \in Seq(S), NEW item \in S, Len(q) <= Capacity
    PROVE  /\ Sent(q, item) \in Seq(S) /\ Len(Sent(q, item)) <= Capacity
           /\ Len(Sent(q, item)) = Len(q) + 1 \/ (Len(Sent(q, item)) = Len(q) /\ Len(q) = Capacity)
  BY Lm3sAssumption DEF Sent, Room

\* A clock that is set stays among the waits of the program.
LEMMA ClockSet ==
    ASSUME due \in [Clocks -> 0..Delay], NEW c \in Clocks, NEW n \in 0..Delay
    PROVE  [due EXCEPT ![c] = n] \in [Clocks -> 0..Delay]
  OBVIOUS

LEMMA ClockValues ==
    /\ {"timer", "sensor", "health", "diag"} = Clocks
    /\ Period \in 0..Delay /\ Watch \in 0..Delay /\ Delay \in 0..Delay
  BY DEF Clocks, Period, Watch, Delay

\* Setting a bit keeps bits and clocks what they are.
LEMMA SetBitsTypes ==
    ASSUME TypeOK, NEW t \in Beating, xEventGroupSetBits(t)
    PROVE  xHeartbeatEvents' \subseteq Beating /\ due' \in [Clocks -> 0..Delay]
  <1>1. [due EXCEPT !["health"] = Watch] \in [Clocks -> 0..Delay]
    BY ClockSet, ClockValues DEF TypeOK
  <1> QED BY <1>1 DEF TypeOK, xEventGroupSetBits

LEMMA LabelsOf ==
    /\ Beating = {"sensor", "proc", "telem"}
    /\ Labels["sensor"] = {"take", "delay", "send", "give", "beat"}
    /\ Labels["proc"] = {"take", "receive", "send", "beat"}
    /\ Labels["telem"] = {"receive", "beat"}
  BY DEF Labels, Beating

\* What a start or a restart leaves.
LEMMA StartTypes ==
    /\ DOMAIN StartPc = Beating /\ \A t \in Beating : StartPc[t] \in Labels[t]
    /\ DOMAIN StartHand = {"proc", "telem"}
    /\ StartHand["proc"] \in Samples /\ StartHand["telem"] \in Frames
    /\ StartDue \in [Clocks -> 0..Delay]
  BY LabelsOf DEF StartPc, StartHand, StartDue, Samples, Frames, Clocks, Delay, Watch,
                  Boot, Period

LEMMA InitIInv == Init => IInv
  <1> SUFFICES ASSUME Init PROVE IInv
    OBVIOUS
  <1>1. TypeOK
    <2>1. \A S : <<>> \in Seq(S) /\ Len(<<>>) = 0
      OBVIOUS
    <2>2. 0 <= Capacity /\ 0 \in 0..MaxCommands
      BY Lm3sAssumption
    <2> QED BY <2>1, <2>2, StartTypes DEF Init, TypeOK, Faults
  <1>2. TokenHasItem
    BY DEF Init, TokenHasItem, Tokens, Owed, StartPc
  <1> QED BY <1>1, <1>2 DEF IInv

-----------------------------------------------------------------------------
(* One lemma per task.                                                     *)

LEMMA SensorIInv == IInv /\ (sensor_task \/ SensorDelayOver) => IInv'
  <1> SUFFICES ASSUME IInv, sensor_task \/ SensorDelayOver PROVE IInv'
    OBVIOUS
  <1> USE DEF IInv
  <1>0. TypeOK /\ TokenHasItem
    OBVIOUS
  <1>1. CASE SensorTake
    <2>1. PICK b \in {"delay", "send"} : Step("sensor", "take", b)
      BY <1>1 DEF SensorTake
    <2>2. /\ DOMAIN pc' = Beating /\ \A u \in Beating : pc'[u] \in Labels[u]
          /\ pc["sensor"] = "take" /\ pc'["sensor"] = b /\ pc'["proc"] = pc["proc"]
      BY <2>1, <1>0, StepMoves, LabelsOf
    <2>3. TypeOK'
      <3>1. [due EXCEPT !["sensor"] = Delay] \in [Clocks -> 0..Delay]
        BY <1>0, ClockSet, ClockValues DEF TypeOK
      <3>2. /\ due' \in [Clocks -> 0..Delay] /\ warned' \in Nat /\ recent' \in BOOLEAN
            /\ xSensorKickSem' \in BOOLEAN
        <4>1. CASE g_active_fault = "process"
          <5>1. due' = [due EXCEPT !["sensor"] = Delay] /\ warned' = 0 /\ recent' = TRUE
            BY <1>1, <4>1 DEF SensorTake
          <5>2. xSensorKickSem' = FALSE
            BY <1>1 DEF SensorTake
          <5> QED BY <3>1, <5>1, <5>2
        <4>2. CASE g_active_fault # "process"
          <5>1. due' = due /\ warned' = warned /\ recent' = recent
            BY <1>1, <4>2 DEF SensorTake
          <5>2. xSensorKickSem' = FALSE
            BY <1>1 DEF SensorTake
          <5> QED BY <1>0, <5>1, <5>2 DEF TypeOK
        <4> QED BY <4>1, <4>2
      <3>3. UNCHANGED <<hand, xSensorQueue, xTelemetryQueue, xDataReadySem,
                        xHeartbeatEvents, g_active_fault, commands, recoveries>>
        BY <1>1 DEF SensorTake, queues, control
      <3> QED BY <1>0, <2>2, <3>2, <3>3 DEF TypeOK
    <2>4. TokenHasItem'
      BY <1>0, <1>1, <2>2 DEF SensorTake, TokenHasItem, Tokens, Owed, queues
    <2> QED BY <2>3, <2>4
  <1>2. CASE SensorSend
    <2>1. /\ DOMAIN pc' = Beating /\ \A u \in Beating : pc'[u] \in Labels[u]
          /\ pc["sensor"] = "send" /\ pc'["sensor"] = "give" /\ pc'["proc"] = pc["proc"]
      BY <1>0, <1>2, StepMoves, LabelsOf DEF SensorSend
    <2>2. PICK data \in Samples : xSensorQueue' = Sent(xSensorQueue, data)
      BY <1>2 DEF SensorSend, Samples
    <2>3. /\ xSensorQueue' \in Seq(Samples) /\ Len(xSensorQueue') <= Capacity
          /\ \/ Len(xSensorQueue') = Len(xSensorQueue) + 1
             \/ Len(xSensorQueue') = Len(xSensorQueue) /\ Len(xSensorQueue) = Capacity
      BY <1>0, <2>2, SentBounds DEF TypeOK
    <2>4. TypeOK'
      BY <1>0, <1>2, <2>1, <2>3 DEF SensorSend, TypeOK, sems, health, control, delays
    <2>5. TokenHasItem'
      <3>1. Tokens \in 0..2 /\ Tokens' = Tokens /\ Owed = 0 /\ Owed' = 1
        BY <1>2, <2>1 DEF SensorSend, Tokens, Owed, sems
      <3>2. Len(xSensorQueue) \in Nat
        BY <1>0 DEF TypeOK
      <3> QED BY <1>0, <2>3, <3>1, <3>2, Lm3sAssumption DEF TokenHasItem
    <2> QED BY <2>4, <2>5
  <1>3. CASE SensorGive
    <2>1. /\ DOMAIN pc' = Beating /\ \A u \in Beating : pc'[u] \in Labels[u]
          /\ pc["sensor"] = "give" /\ pc'["sensor"] = "beat" /\ pc'["proc"] = pc["proc"]
      BY <1>0, <1>3, StepMoves, LabelsOf DEF SensorGive
    <2>2. TypeOK'
      BY <1>0, <1>3, <2>1 DEF SensorGive, TypeOK, queues, health, control, delays
    <2>3. TokenHasItem'
      <3>1. Tokens' <= Tokens + 1 /\ Tokens \in Nat /\ Tokens' \in Nat /\ Owed = 1 /\ Owed' = 0
        BY <1>3, <2>1 DEF SensorGive, Tokens, Owed
      <3>2. Len(xSensorQueue) \in Nat /\ xSensorQueue' = xSensorQueue
        BY <1>0, <1>3 DEF TypeOK, SensorGive, queues
      <3> QED BY <1>0, <3>1, <3>2 DEF TokenHasItem
    <2> QED BY <2>2, <2>3
  <1>4. CASE SensorBeat
    <2>1. /\ DOMAIN pc' = Beating /\ \A u \in Beating : pc'[u] \in Labels[u]
          /\ pc["sensor"] = "beat" /\ pc'["sensor"] = "take" /\ pc'["proc"] = pc["proc"]
      BY <1>0, <1>4, StepMoves, LabelsOf DEF SensorBeat
    <2>2. TypeOK'
      BY <1>0, <1>4, <2>1, SetBitsTypes, LabelsOf DEF SensorBeat, TypeOK, queues, sems, control, delays
    <2>3. TokenHasItem'
      BY <1>0, <1>4, <2>1 DEF SensorBeat, TokenHasItem, Tokens, Owed, queues, sems
    <2> QED BY <2>2, <2>3
  <1>5. CASE SensorDelayOver
    <2>1. /\ DOMAIN pc' = Beating /\ \A u \in Beating : pc'[u] \in Labels[u]
          /\ pc["sensor"] = "delay" /\ pc'["sensor"] = "send" /\ pc'["proc"] = pc["proc"]
      BY <1>0, <1>5, LabelsOf DEF SensorDelayOver, TypeOK
    <2>2. TypeOK'
      BY <1>0, <1>5, <2>1 DEF SensorDelayOver, TypeOK, queues, sems, health, control
    <2>3. TokenHasItem'
      BY <1>0, <1>5, <2>1 DEF SensorDelayOver, TokenHasItem, Tokens, Owed, queues, sems
    <2> QED BY <2>2, <2>3
  <1> QED BY <1>1, <1>2, <1>3, <1>4, <1>5 DEF sensor_task

LEMMA ProcessingIInv == IInv /\ processing_task => IInv'
  <1> SUFFICES ASSUME IInv, processing_task PROVE IInv'
    OBVIOUS
  <1>0. TypeOK /\ TokenHasItem
    BY DEF IInv
  <1>1. CASE ProcTake
    <2>1. /\ DOMAIN pc' = Beating /\ \A u \in Beating : pc'[u] \in Labels[u]
          /\ pc["proc"] = "take" /\ pc'["proc"] = "receive" /\ pc'["sensor"] = pc["sensor"]
      BY <1>0, <1>1, StepMoves, LabelsOf DEF ProcTake
    <2>2. xDataReadySem
      BY <1>1, <2>1 DEF ProcTake, Step, Runs, Blocked
    <2>3. TypeOK'
      BY <1>0, <1>1, <2>1 DEF ProcTake, TypeOK, queues, health, control, delays
    <2>4. TokenHasItem'
      BY <1>0, <1>1, <2>1, <2>2 DEF ProcTake, TokenHasItem, Tokens, Owed, queues
    <2> QED BY <2>3, <2>4 DEF IInv
  <1>2. CASE ProcReceive
    <2>1. PICK b \in {"beat", "send"} : Step("proc", "receive", b)
      BY <1>2 DEF ProcReceive
    <2>2. /\ DOMAIN pc' = Beating /\ \A u \in Beating : pc'[u] \in Labels[u]
          /\ pc["proc"] = "receive" /\ pc'["proc"] = b /\ pc'["sensor"] = pc["sensor"]
      BY <1>0, <2>1, StepMoves, LabelsOf
    <2>3. Tokens' = Tokens - 1 /\ Tokens \in 1..2 /\ Owed' = Owed /\ Owed \in Nat
      BY <1>2, <2>2 DEF ProcReceive, Tokens, Owed, sems
    <2>4. /\ xSensorQueue # <<>>
          /\ xSensorQueue \in Seq(Samples) /\ Len(xSensorQueue) \in Nat
      BY <1>0, <2>3 DEF TokenHasItem, TypeOK
    <2>5. /\ Tail(xSensorQueue) \in Seq(Samples) /\ Head(xSensorQueue) \in Samples
          /\ Len(Tail(xSensorQueue)) = Len(xSensorQueue) - 1
      BY <2>4
    <2>6. TypeOK'
      BY <1>0, <1>2, <2>2, <2>4, <2>5, Lm3sAssumption
         DEF ProcReceive, TypeOK, sems, health, control, delays
    <2>7. TokenHasItem'
      BY <1>0, <1>2, <2>3, <2>4, <2>5 DEF ProcReceive, TokenHasItem
    <2> QED BY <2>6, <2>7 DEF IInv
  <1>3. CASE ProcSend
    <2>1. /\ DOMAIN pc' = Beating /\ \A u \in Beating : pc'[u] \in Labels[u]
          /\ pc["proc"] = "send" /\ pc'["proc"] = "beat" /\ pc'["sensor"] = pc["sensor"]
      BY <1>0, <1>3, StepMoves, LabelsOf DEF ProcSend
    <2>2. Judged(hand["proc"]) \in Frames
      BY <1>0 DEF Judged, Frames, TypeOK
    <2>3. xTelemetryQueue' \in Seq(Frames) /\ Len(xTelemetryQueue') <= Capacity
      BY <1>0, <1>3, <2>2, SentBounds DEF ProcSend, TypeOK
    <2>4. TypeOK'
      BY <1>0, <1>3, <2>1, <2>3 DEF ProcSend, TypeOK, sems, health, control, delays
    <2>5. TokenHasItem'
      BY <1>0, <1>3, <2>1 DEF ProcSend, TokenHasItem, Tokens, Owed, sems
    <2> QED BY <2>4, <2>5 DEF IInv
  <1>4. CASE ProcBeat
    <2>1. /\ DOMAIN pc' = Beating /\ \A u \in Beating : pc'[u] \in Labels[u]
          /\ pc["proc"] = "beat" /\ pc'["proc"] = "take" /\ pc'["sensor"] = pc["sensor"]
      BY <1>0, <1>4, StepMoves, LabelsOf DEF ProcBeat
    <2>2. TypeOK'
      BY <1>0, <1>4, <2>1, SetBitsTypes, LabelsOf DEF ProcBeat, TypeOK, queues, sems, control, delays
    <2>3. TokenHasItem'
      BY <1>0, <1>4, <2>1 DEF ProcBeat, TokenHasItem, Tokens, Owed, queues, sems
    <2> QED BY <2>2, <2>3 DEF IInv
  <1> QED BY <1>1, <1>2, <1>3, <1>4 DEF processing_task

LEMMA TelemetryIInv == IInv /\ telemetry_task => IInv'
  <1> SUFFICES ASSUME IInv, telemetry_task PROVE IInv'
    OBVIOUS
  <1>0. TypeOK /\ TokenHasItem
    BY DEF IInv
  <1>1. CASE TelemReceive
    <2>1. /\ DOMAIN pc' = Beating /\ \A u \in Beating : pc'[u] \in Labels[u]
          /\ pc["telem"] = "receive" /\ pc'["sensor"] = pc["sensor"] /\ pc'["proc"] = pc["proc"]
      BY <1>0, <1>1, StepMoves, LabelsOf DEF TelemReceive
    <2>2. xTelemetryQueue # <<>> /\ xTelemetryQueue \in Seq(Frames)
      BY <1>0, <1>1, <2>1 DEF TelemReceive, Step, Runs, Blocked, TypeOK
    <2>3. /\ Tail(xTelemetryQueue) \in Seq(Frames) /\ Head(xTelemetryQueue) \in Frames
          /\ Len(Tail(xTelemetryQueue)) = Len(xTelemetryQueue) - 1
      BY <2>2
    <2>4. TypeOK'
      BY <1>0, <1>1, <2>1, <2>2, <2>3, Lm3sAssumption
         DEF TelemReceive, TypeOK, sems, health, control, delays
    <2>5. TokenHasItem'
      BY <1>0, <1>1, <2>1 DEF TelemReceive, TokenHasItem, Tokens, Owed, sems
    <2> QED BY <2>4, <2>5 DEF IInv
  <1>2. CASE TelemBeat
    <2>1. /\ DOMAIN pc' = Beating /\ \A u \in Beating : pc'[u] \in Labels[u]
          /\ pc'["sensor"] = pc["sensor"] /\ pc'["proc"] = pc["proc"]
      BY <1>0, <1>2, StepMoves, LabelsOf DEF TelemBeat
    <2>2. TypeOK'
      BY <1>0, <1>2, <2>1, SetBitsTypes, LabelsOf DEF TelemBeat, TypeOK, queues, sems, control, delays
    <2>3. TokenHasItem'
      BY <1>0, <1>2, <2>1 DEF TelemBeat, TokenHasItem, Tokens, Owed, queues, sems
    <2> QED BY <2>2, <2>3 DEF IInv
  <1> QED BY <1>1, <1>2 DEF telemetry_task

LEMMA CommandIInv == IInv /\ do_cmd => IInv'
  <1> SUFFICES ASSUME IInv, do_cmd PROVE IInv'
    OBVIOUS
  <1>0. TypeOK /\ TokenHasItem
    BY DEF IInv
  <1>1. ASSUME NEW f \in Faults, fault_inject(f) PROVE IInv'
    <2>1. TypeOK'
      BY <1>0, <1>1, Lm3sAssumption DEF fault_inject, TypeOK, queues, sems, health, delays
    <2>2. TokenHasItem'
      BY <1>0, <1>1 DEF fault_inject, TokenHasItem, Tokens, Owed, queues, sems
    <2> QED BY <2>1, <2>2 DEF IInv
  <1>2. CASE SystemReset
    <2>1. TypeOK'
      <3>1. \A S : <<>> \in Seq(S) /\ Len(<<>>) = 0
        OBVIOUS
      <3>2. 0 <= Capacity /\ 0 \in 0..MaxCommands
        BY Lm3sAssumption
      <3> QED BY <1>2, <3>1, <3>2, StartTypes DEF SystemReset, TypeOK, Faults
    <2>2. TokenHasItem'
      BY <1>2 DEF SystemReset, TokenHasItem, Tokens, Owed, StartPc
    <2> QED BY <2>1, <2>2 DEF IInv
  <1> QED BY <1>1, <1>2 DEF do_cmd

LEMMA ClockIInv == IInv /\ (Pass \/ prvSensorTimerCallback \/ HealthTimeout) => IInv'
  <1> SUFFICES ASSUME IInv, Pass \/ prvSensorTimerCallback \/ HealthTimeout PROVE IInv'
    OBVIOUS
  <1>0. TypeOK /\ TokenHasItem
    BY DEF IInv
  <1>1. TypeOK'
    <2>1. CASE Pass
      <3>1. due' \in [Clocks -> 0..Delay]
        <4>1. ASSUME NEW c \in Clocks
              PROVE  (IF due[c] > 0 THEN due[c] - 1 ELSE 0) \in 0..Delay
          <5>1. due[c] \in 0..Delay
            BY <1>0 DEF TypeOK
          <5> QED BY <5>1 DEF Delay
        <4> QED BY <2>1, <4>1 DEF Pass
      <3>2. recent' \in BOOLEAN
        BY <2>1 DEF Pass
      <3> QED BY <1>0, <2>1, <3>1, <3>2 DEF Pass, TypeOK, queues, sems, health, control
    <2>2. CASE prvSensorTimerCallback
      <3>1. due' \in [Clocks -> 0..Delay]
        BY <1>0, <2>2, ClockSet, ClockValues DEF prvSensorTimerCallback, TypeOK
      <3> QED BY <1>0, <2>2, <3>1
              DEF prvSensorTimerCallback, TypeOK, queues, health, control, delays
    <2>3. CASE HealthTimeout
      <3>1. due' \in [Clocks -> 0..Delay]
        BY <1>0, <2>3, ClockSet, ClockValues DEF HealthTimeout, TypeOK
      <3> QED BY <1>0, <2>3, <3>1 DEF HealthTimeout, TypeOK, queues, sems, control, delays
    <2> QED BY <2>1, <2>2, <2>3
  <1>2. TokenHasItem'
    BY <1>0 DEF Pass, prvSensorTimerCallback, HealthTimeout, TokenHasItem, Tokens, Owed,
                queues, sems
  <1> QED BY <1>1, <1>2 DEF IInv

-----------------------------------------------------------------------------
LEMMA NextIInv == IInv /\ [Next]_vars => IInv'
  <1>1. CASE UNCHANGED vars
    <2>1. TypeOK /\ UNCHANGED vars => TypeOK'
      BY DEF vars, queues, sems, health, control, delays, TypeOK
    <2>2. TokenHasItem /\ UNCHANGED vars => TokenHasItem'
      BY DEF vars, queues, sems, TokenHasItem, Tokens, Owed
    <2> QED BY <1>1, <2>1, <2>2 DEF IInv
  <1> QED BY <1>1, SensorIInv, ProcessingIInv, TelemetryIInv, CommandIInv, ClockIInv DEF Next

LEMMA SpecIInv == Spec => []IInv
  BY InitIInv, NextIInv, PTL DEF Spec

\* Every task stays in its code, no queue outgrows its capacity and no clock the
\* longest wait, under any commands.
THEOREM TypeCorrect == Spec => []TypeOK
  BY SpecIInv, PTL DEF IInv

\* The receive of processing_task, which does not wait, never comes back with
\* nothing: each token of xDataReadySem has a sample behind it, whatever the
\* capacity from 3 on, however many samples are dropped and tokens merged.
THEOREM TokensHaveItems == Spec => []TokenHasItem
  BY SpecIInv, PTL DEF IInv

-----------------------------------------------------------------------------
(***************************************************************************)
(* The later theorems: samples that lag behind, verdicts, and the health   *)
(* monitor.  Each conjunct below is kept by every step that starts in a    *)
(* state of IInv and of the conjuncts before it.                           *)
(***************************************************************************)
\* Samples nobody has been told of.
Lag == Len(xSensorQueue) - Tokens - Owed

\* The next token the sensor gives will be lost, for one is given already: the
\* sensor is on its way to a second sample, or has a tick in store and starts at
\* once.
MergeAhead ==
    \/ /\ xSensorKickSem /\ g_active_fault # "process"
       /\ \/ pc["sensor"] \in {"send", "give", "beat"}
          \/ pc["sensor"] = "take" /\ xDataReadySem
    \/ pc["sensor"] \in {"send", "give"} /\ xDataReadySem

\* Once the first of two samples has no taker yet, no third one is in store; and
\* what lags behind, or is about to, was left by a recovery.
LagInv ==
    /\ pc["sensor"] \in {"send", "give"} /\ xDataReadySem => ~xSensorKickSem
    /\ Lag + (IF MergeAhead THEN 1 ELSE 0) <= recoveries

\* The processing and the telemetry task have nothing to do.
AtRest == /\ pc["proc"] = "take" /\ ~xDataReadySem
          /\ pc["telem"] = "receive" /\ xTelemetryQueue = <<>>

\* Time passes in a delay only when the other tasks are at rest.
AsleepInv == pc["sensor"] = "delay" /\ due["sensor"] < Delay => AtRest

ClockInv == due["health"] <= Watch /\ due["timer"] <= Period

\* In a delay nothing stops the health monitor's wait: what has passed of the
\* delay has passed of its waits too.
StallInv == pc["sensor"] = "delay" =>
                Delay - due["sensor"] + due["health"] <= Watch * (warned + 1)

SensorWillSend  == \/ pc["sensor"] \in {"send", "give"}
                   \/ pc["sensor"] = "take" /\ xSensorKickSem
ProcWillReceive == SensorWillSend \/ xDataReadySem \/ pc["proc"] = "receive"

\* Task t sets its bit before it waits again.
WillBeat(t) ==
    CASE t = "sensor" -> SensorWillSend \/ pc["sensor"] = "beat"
      [] t = "proc"   -> ProcWillReceive \/ pc["proc"] \in {"send", "beat"}
      [] t = "telem"  -> \/ ProcWillReceive \/ pc["proc"] = "send"
                         \/ xTelemetryQueue # <<>> \/ pc["telem"] = "beat"

\* From one tick of the timer to the end of the round it starts, each task has
\* set its bit or is going to.
BeatsInv == /\ xHeartbeatEvents # Beating
            /\ pc["sensor"] # "delay" =>
                  \/ due["health"] = Watch \/ due["timer"] = 0
                  \/ \A t \in Beating : t \in xHeartbeatEvents \/ WillBeat(t)

\* Out of a delay, the health monitor's wait is never older than one tick.
RecentInv == /\ pc["sensor"] = "delay" => recent
             /\ ~recent => due["health"] >= Watch - 1

\* A sample that a fault explains.
Fits(data, fault) == (data = "sentinel") = (fault = "sensor")

\* Until something lags behind, no command comes between a sample and its frame.
MatchInv == recoveries = 0 =>
                /\ \A i \in DOMAIN xSensorQueue : Fits(xSensorQueue[i], g_active_fault)
                /\ pc["proc"] = "send" => Fits(hand["proc"], g_active_fault)
                /\ VerdictMatchesData

-----------------------------------------------------------------------------
(* Who waits when a task of low priority runs, and when time passes.       *)

LEMMA Priorities ==
    /\ DOMAIN Priority = {"sensor", "proc", "telem", "timer", "diag"}
    /\ Priority["sensor"] = 3 /\ Priority["proc"] = 3 /\ Priority["telem"] = 2
    /\ Priority["timer"] = 2 /\ Priority["diag"] = 1
  BY DEF Priority

\* Each wait, spelt out.
LEMMA Waits ==
    /\ Blocked("sensor") <=> (pc["sensor"] = "delay" \/ (pc["sensor"] = "take" /\ ~xSensorKickSem))
    /\ Blocked("proc") <=> (pc["proc"] = "take" /\ ~xDataReadySem)
    /\ Blocked("telem") <=> (pc["telem"] = "receive" /\ xTelemetryQueue = <<>>)
    /\ Blocked("timer") <=> (due["timer"] > 0)
  <1>1. Blocked("sensor") <=> (pc["sensor"] = "delay" \/ (pc["sensor"] = "take" /\ ~xSensorKickSem))
    BY DEF Blocked
  <1>2. Blocked("proc") <=> (pc["proc"] = "take" /\ ~xDataReadySem)
    BY DEF Blocked
  <1>3. Blocked("telem") <=> (pc["telem"] = "receive" /\ xTelemetryQueue = <<>>)
    BY DEF Blocked
  <1>4. Blocked("timer") <=> (due["timer"] > 0)
    BY DEF Blocked
  <1> QED BY <1>1, <1>2, <1>3, <1>4

SensorWaits == pc["sensor"] = "delay" \/ (pc["sensor"] = "take" /\ ~xSensorKickSem)

LEMMA TimerRuns ==
    ASSUME TypeOK, Runs("timer")
    PROVE  due["timer"] = 0 /\ SensorWaits /\ pc["proc"] = "take" /\ ~xDataReadySem
  <1>1. Blocked("sensor") /\ Blocked("proc") /\ ~Blocked("timer")
    BY Priorities DEF Runs
  <1>2. due["timer"] \in 0..Delay
    BY DEF TypeOK, Clocks
  <1>3. ~(due["timer"] > 0)
    BY <1>1, Waits
  <1>4. due["timer"] = 0
    BY <1>2, <1>3 DEF Delay
  <1> QED BY <1>1, <1>4, Waits DEF SensorWaits

LEMMA DiagRuns ==
    ASSUME Runs("diag")
    PROVE  SensorWaits /\ AtRest
  <1>1. Blocked("sensor") /\ Blocked("proc") /\ Blocked("telem")
    BY Priorities DEF Runs
  <1> QED BY <1>1, Waits DEF SensorWaits, AtRest

LEMMA PassWaits ==
    ASSUME TypeOK, Pass
    PROVE  SensorWaits /\ AtRest /\ due["timer"] \in 1..Delay /\ due["health"] \in 1..Delay
  <1>1. Blocked("sensor") /\ Blocked("proc") /\ Blocked("telem") /\ Blocked("timer")
    BY DEF Pass, Beating
  <1>2. due["timer"] \in 0..Delay /\ due["health"] \in 0..Delay /\ due["health"] > 0
    BY DEF TypeOK, Clocks, Pass
  <1> QED BY <1>1, <1>2, Waits DEF SensorWaits, AtRest, Delay

\* Time takes one from every clock that runs.
LEMMA PassClocks ==
    ASSUME TypeOK, Pass, NEW c \in Clocks
    PROVE  due[c] \in 0..Delay /\ due'[c] = IF due[c] > 0 THEN due[c] - 1 ELSE 0
  BY DEF TypeOK, Pass

\* Setting a bit: the set is complete and the health monitor waits anew, or it
\* is not and the clocks go on.
LEMMA SetBits ==
    ASSUME TypeOK, NEW t \in Beating, xEventGroupSetBits(t)
    PROVE  /\ xHeartbeatEvents' # Beating
           /\ due'["sensor"] = due["sensor"] /\ due'["timer"] = due["timer"]
           /\ \/ due'["health"] = Watch
              \/ due' = due /\ xHeartbeatEvents' = xHeartbeatEvents \cup {t}
  <1>1. CASE xHeartbeatEvents \cup {t} = Beating
    <2>1. xHeartbeatEvents' = {} /\ due' = [due EXCEPT !["health"] = Watch]
      BY <1>1 DEF xEventGroupSetBits
    <2>2. DOMAIN due = Clocks
      BY DEF TypeOK
    <2> QED BY <2>1, <2>2 DEF Beating, Clocks
  <1>2. CASE xHeartbeatEvents \cup {t} # Beating
    BY <1>2 DEF xEventGroupSetBits
  <1> QED BY <1>1, <1>2

LEMMA StartFields ==
    /\ StartPc["sensor"] = "take" /\ StartPc["proc"] = "take" /\ StartPc["telem"] = "receive"
    /\ StartDue["sensor"] = 0 /\ StartDue["timer"] = Period /\ StartDue["health"] = Watch
  BY DEF StartPc, StartDue

\* Where each action of a task takes it, and what it waited for.
LEMMA SensorMoves ==
    ASSUME TypeOK, sensor_task
    PROVE  /\ pc'["proc"] = pc["proc"] /\ pc'["telem"] = pc["telem"]
           /\ SensorTake => /\ pc["sensor"] = "take" /\ xSensorKickSem
                            /\ g_active_fault = "process" => pc'["sensor"] = "delay"
                            /\ g_active_fault # "process" => pc'["sensor"] = "send"
           /\ SensorSend => pc["sensor"] = "send" /\ pc'["sensor"] = "give"
           /\ SensorGive => pc["sensor"] = "give" /\ pc'["sensor"] = "beat"
           /\ SensorBeat => pc["sensor"] = "beat" /\ pc'["sensor"] = "take"
  <1>1. ASSUME NEW a \in Labels["sensor"], NEW b \in Labels["sensor"], Step("sensor", a, b)
        PROVE  /\ pc["sensor"] = a /\ pc'["sensor"] = b /\ ~Blocked("sensor")
               /\ pc'["proc"] = pc["proc"] /\ pc'["telem"] = pc["telem"]
    BY <1>1, StepMoves, LabelsOf DEF Step, Runs
  <1>2. CASE SensorTake
    <2>1. CASE g_active_fault = "process"
      <3>1. Step("sensor", "take", "delay")
        BY <1>2, <2>1 DEF SensorTake
      <3> QED BY <1>1, <2>1, <3>1, LabelsOf, Waits DEF SensorSend, SensorGive, SensorBeat, Step
    <2>2. CASE g_active_fault # "process"
      <3>1. Step("sensor", "take", "send")
        BY <1>2, <2>2 DEF SensorTake
      <3> QED BY <1>1, <2>2, <3>1, LabelsOf, Waits DEF SensorSend, SensorGive, SensorBeat, Step
    <2> QED BY <2>1, <2>2
  <1>3. CASE SensorSend
    <2>1. Step("sensor", "send", "give")
      BY <1>3 DEF SensorSend
    <2> QED BY <1>1, <2>1, LabelsOf DEF SensorTake, SensorGive, SensorBeat, Step
  <1>4. CASE SensorGive
    <2>1. Step("sensor", "give", "beat")
      BY <1>4 DEF SensorGive
    <2> QED BY <1>1, <2>1, LabelsOf DEF SensorTake, SensorSend, SensorBeat, Step
  <1>5. CASE SensorBeat
    <2>1. Step("sensor", "beat", "take")
      BY <1>5 DEF SensorBeat
    <2> QED BY <1>1, <2>1, LabelsOf DEF SensorTake, SensorSend, SensorGive, Step
  <1> QED BY <1>2, <1>3, <1>4, <1>5 DEF sensor_task

\* The receive of the processing task finds a sample.
LEMMA ProcMoves ==
    ASSUME IInv, processing_task
    PROVE  /\ pc'["sensor"] = pc["sensor"] /\ pc'["telem"] = pc["telem"]
           /\ ProcTake => pc["proc"] = "take" /\ pc'["proc"] = "receive" /\ xDataReadySem
           /\ ProcReceive => /\ pc["proc"] = "receive" /\ pc'["proc"] = "send"
                             /\ xSensorQueue # <<>>
           /\ ProcSend => pc["proc"] = "send" /\ pc'["proc"] = "beat"
           /\ ProcBeat => pc["proc"] = "beat" /\ pc'["proc"] = "take"
  <1>0. TypeOK /\ TokenHasItem
    BY DEF IInv
  <1>1. ASSUME NEW a \in Labels["proc"], NEW b \in Labels["proc"], Step("proc", a, b)
        PROVE  /\ pc["proc"] = a /\ pc'["proc"] = b /\ ~Blocked("proc")
               /\ pc'["sensor"] = pc["sensor"] /\ pc'["telem"] = pc["telem"]
    BY <1>0, <1>1, StepMoves, LabelsOf DEF Step, Runs
  <1>2. CASE ProcTake
    <2>1. Step("proc", "take", "receive")
      BY <1>2 DEF ProcTake
    <2> QED BY <1>1, <2>1, LabelsOf, Waits DEF ProcReceive, ProcSend, ProcBeat, Step
  <1>3. CASE ProcReceive
    <2>1. pc["proc"] = "receive"
      BY <1>3 DEF ProcReceive, Step
    <2>2. xSensorQueue # <<>>
      <3>1. Tokens >= 1 /\ Owed >= 0
        BY <2>1 DEF Tokens, Owed
      <3>2. Tokens \in Int /\ Owed \in Int /\ Len(xSensorQueue) \in Nat
        BY <1>0 DEF Tokens, Owed, TypeOK
      <3> QED BY <1>0, <3>1, <3>2 DEF TokenHasItem
    <2>3. Step("proc", "receive", "send")
      BY <1>3, <2>2 DEF ProcReceive
    <2> QED BY <1>1, <2>2, <2>3, LabelsOf DEF ProcTake, ProcSend, ProcBeat, Step
  <1>4. CASE ProcSend
    <2>1. Step("proc", "send", "beat")
      BY <1>4 DEF ProcSend
    <2> QED BY <1>1, <2>1, LabelsOf DEF ProcTake, ProcReceive, ProcBeat, Step
  <1>5. CASE ProcBeat
    <2>1. Step("proc", "beat", "take")
      BY <1>5 DEF ProcBeat
    <2> QED BY <1>1, <2>1, LabelsOf DEF ProcTake, ProcReceive, ProcSend, Step
  <1> QED BY <1>2, <1>3, <1>4, <1>5 DEF processing_task

LEMMA TelemMoves ==
    ASSUME TypeOK, telemetry_task
    PROVE  /\ pc'["sensor"] = pc["sensor"] /\ pc'["proc"] = pc["proc"]
           /\ TelemReceive => /\ pc["telem"] = "receive" /\ pc'["telem"] = "beat"
                              /\ xTelemetryQueue # <<>>
           /\ TelemBeat => pc["telem"] = "beat" /\ pc'["telem"] = "receive"
  <1>1. ASSUME NEW a \in Labels["telem"], NEW b \in Labels["telem"], Step("telem", a, b)
        PROVE  /\ pc["telem"] = a /\ pc'["telem"] = b /\ ~Blocked("telem")
               /\ pc'["sensor"] = pc["sensor"] /\ pc'["proc"] = pc["proc"]
    BY <1>1, StepMoves, LabelsOf DEF Step, Runs
  <1>2. CASE TelemReceive
    <2>1. Step("telem", "receive", "beat")
      BY <1>2 DEF TelemReceive
    <2> QED BY <1>1, <2>1, LabelsOf, Waits DEF TelemBeat, Step
  <1>3. CASE TelemBeat
    <2>1. Step("telem", "beat", "receive")
      BY <1>3 DEF TelemBeat
    <2> QED BY <1>1, <2>1, LabelsOf DEF TelemReceive, Step
  <1> QED BY <1>2, <1>3 DEF telemetry_task

\* What the timer task, the health monitor's timeout and a delay do to clocks.
LEMMA ClockMoves ==
    ASSUME TypeOK
    PROVE  /\ prvSensorTimerCallback =>
                /\ due'["timer"] = Period /\ due'["health"] = due["health"]
                /\ due'["sensor"] = due["sensor"]
           /\ HealthTimeout =>
                /\ due'["timer"] = due["timer"] /\ due'["health"] = Watch
                /\ due'["sensor"] = due["sensor"]
           /\ SensorTake =>
                /\ due'["timer"] = due["timer"] /\ due'["health"] = due["health"]
                /\ g_active_fault = "process" => due'["sensor"] = Delay
  BY DEF TypeOK, Clocks, prvSensorTimerCallback, HealthTimeout, SensorTake

LEMMA ClockRanges ==
    ASSUME TypeOK
    PROVE  due["timer"] \in 0..Delay /\ due["sensor"] \in 0..Delay /\ due["health"] \in 0..Delay
  BY DEF TypeOK, Clocks

\* What a delay's end and commands do to the tasks.
LEMMA OtherMoves ==
    ASSUME TypeOK
    PROVE  /\ SensorDelayOver => /\ pc["sensor"] = "delay" /\ pc'["sensor"] = "send"
                                 /\ pc'["proc"] = pc["proc"] /\ pc'["telem"] = pc["telem"]
           /\ SystemReset => /\ pc'["sensor"] = "take" /\ pc'["proc"] = "take"
                             /\ pc'["telem"] = "receive"
  BY StartFields DEF TypeOK, Beating, SensorDelayOver, SystemReset

-----------------------------------------------------------------------------
(* The conjuncts, one lemma each.                                          *)

LEMMA AsleepStep == IInv /\ AsleepInv /\ [Next]_vars => AsleepInv'
  <1> SUFFICES ASSUME IInv, AsleepInv, [Next]_vars PROVE AsleepInv'
    OBVIOUS
  <1>0. TypeOK
    BY DEF IInv
  <1>1. CASE UNCHANGED vars
    BY <1>1 DEF vars, queues, sems, AsleepInv, AtRest
  <1>2. CASE sensor_task
    <2>1. SensorTake /\ g_active_fault = "process" => due'["sensor"] = Delay
      BY <1>0, ClockMoves
    <2>2. (g_active_fault = "process" /\ SensorTake) \/ pc'["sensor"] # "delay"
      BY <1>0, <1>2, SensorMoves DEF sensor_task
    <2> QED BY <2>1, <2>2 DEF AsleepInv, Delay
  <1>3. CASE processing_task
    <2>1. due'["sensor"] = due["sensor"]
      BY <1>0, <1>3, SetBits, LabelsOf
         DEF processing_task, ProcTake, ProcReceive, ProcSend, ProcBeat
    <2>2. ~AtRest
      BY <1>3, ProcMoves DEF processing_task, AtRest
    <2> QED BY <1>3, <2>1, <2>2, ProcMoves DEF AsleepInv
  <1>4. CASE telemetry_task
    <2>1. due'["sensor"] = due["sensor"]
      BY <1>0, <1>4, SetBits, LabelsOf DEF telemetry_task, TelemReceive, TelemBeat
    <2>2. ~AtRest
      BY <1>0, <1>4, TelemMoves DEF telemetry_task, AtRest
    <2> QED BY <1>0, <1>4, <2>1, <2>2, TelemMoves DEF AsleepInv
  <1>5. CASE do_cmd
    <2>1. CASE SystemReset
      BY <1>0, <2>1, OtherMoves DEF AsleepInv
    <2>2. ASSUME NEW f \in Faults, fault_inject(f) PROVE AsleepInv'
      BY <2>2 DEF fault_inject, queues, sems, AsleepInv, AtRest
    <2> QED BY <1>5, <2>1, <2>2 DEF do_cmd
  <1>6. CASE Pass
    BY <1>0, <1>6, PassWaits DEF Pass, queues, sems, AsleepInv, AtRest
  <1>7. CASE prvSensorTimerCallback
    BY <1>0, <1>7, ClockMoves DEF prvSensorTimerCallback, queues, AsleepInv, AtRest
  <1>8. CASE HealthTimeout
    BY <1>0, <1>8, ClockMoves DEF HealthTimeout, queues, sems, AsleepInv, AtRest
  <1>9. CASE SensorDelayOver
    BY <1>0, <1>9, OtherMoves DEF AsleepInv
  <1> QED BY <1>1, <1>2, <1>3, <1>4, <1>5, <1>6, <1>7, <1>8, <1>9 DEF Next

LEMMA ClockStep == IInv /\ ClockInv /\ [Next]_vars => ClockInv'
  <1> SUFFICES ASSUME IInv, ClockInv, [Next]_vars PROVE ClockInv'
    OBVIOUS
  <1>0. TypeOK
    BY DEF IInv
  <1> DEFINE Kept == UNCHANGED <<due["health"], due["timer"]>>
             Anew == due'["health"] = Watch /\ UNCHANGED due["timer"]
  <1>1. Kept \/ Anew => ClockInv'
    BY DEF ClockInv, Watch
  <1>2. CASE UNCHANGED vars
    BY <1>1, <1>2 DEF vars
  <1>3. CASE sensor_task
    BY <1>0, <1>1, <1>3, ClockMoves, SetBits, LabelsOf
       DEF sensor_task, SensorSend, SensorGive, SensorBeat
  <1>4. CASE processing_task
    BY <1>0, <1>1, <1>4, SetBits, LabelsOf
       DEF processing_task, ProcTake, ProcReceive, ProcSend, ProcBeat
  <1>5. CASE telemetry_task
    BY <1>0, <1>1, <1>5, SetBits, LabelsOf DEF telemetry_task, TelemReceive, TelemBeat
  <1>6. CASE do_cmd
    <2>1. CASE SystemReset
      BY <2>1, StartFields DEF SystemReset, ClockInv, Watch, Period
    <2>2. ASSUME NEW f \in Faults, fault_inject(f) PROVE ClockInv'
      BY <1>1, <2>2 DEF fault_inject
    <2> QED BY <1>6, <2>1, <2>2 DEF do_cmd
  <1>7. CASE Pass
    <2>1. /\ due["timer"] \in 0..Delay /\ due["health"] \in 0..Delay
          /\ due'["timer"] <= due["timer"] /\ due'["health"] <= due["health"]
          /\ due'["timer"] \in Int /\ due'["health"] \in Int
      BY <1>0, <1>7, PassClocks, ClockRanges DEF Clocks, Delay
    <2> QED BY <2>1 DEF ClockInv, Watch, Period, Delay
  <1>8. CASE prvSensorTimerCallback
    BY <1>0, <1>8, ClockMoves DEF ClockInv, Period
  <1>9. CASE HealthTimeout
    BY <1>0, <1>1, <1>9, ClockMoves
  <1>10. CASE SensorDelayOver
    BY <1>1, <1>10 DEF SensorDelayOver
  <1> QED BY <1>2, <1>3, <1>4, <1>5, <1>6, <1>7, <1>8, <1>9, <1>10 DEF Next

LEMMA StallStep ==
    IInv /\ AsleepInv /\ ClockInv /\ StallInv /\ [Next]_vars => StallInv'
  <1> SUFFICES ASSUME IInv, AsleepInv, ClockInv, StallInv, [Next]_vars,
                      pc'["sensor"] = "delay"
               PROVE  Delay - due'["sensor"] + due'["health"] <= Watch * (warned' + 1)
    BY DEF StallInv
  <1>0. TypeOK
    BY DEF IInv
  <1>a. /\ due["sensor"] \in 0..Delay /\ due["health"] \in 0..Delay /\ warned \in Nat
    BY <1>0, ClockRanges DEF TypeOK
  <1> DEFINE Kept == pc["sensor"] = "delay" /\ UNCHANGED <<due["health"], due["sensor"], warned>>
  <1>1. CASE Kept
    BY <1>1 DEF StallInv
  <1>2. CASE UNCHANGED vars
    BY <1>1, <1>2 DEF vars, health
  <1>3. CASE sensor_task
    <2>1. SensorTake /\ g_active_fault = "process"
      BY <1>0, <1>3, SensorMoves DEF sensor_task
    <2>2. due'["sensor"] = Delay /\ due'["health"] = due["health"] /\ warned' = 0
      BY <1>0, <2>1, ClockMoves DEF SensorTake
    <2> QED BY <1>a, <2>2 DEF ClockInv, Watch, Delay
  <1> DEFINE Anew == /\ pc["sensor"] = "delay" /\ due["sensor"] = Delay
                     /\ due'["health"] = Watch /\ UNCHANGED <<due["sensor"], warned>>
  <1>4. CASE Anew
    BY <1>a, <1>4 DEF Watch, Delay
  <1>5. CASE processing_task
    <2>1. pc["sensor"] = "delay" /\ ~AtRest
      BY <1>5, ProcMoves DEF processing_task, AtRest
    <2>2. due["sensor"] = Delay
      BY <1>a, <2>1 DEF AsleepInv, Delay
    <2> QED BY <1>0, <1>1, <1>4, <1>5, <2>1, <2>2, SetBits, LabelsOf
            DEF processing_task, ProcTake, ProcReceive, ProcSend, ProcBeat, health
  <1>6. CASE telemetry_task
    <2>1. pc["sensor"] = "delay" /\ ~AtRest
      BY <1>0, <1>6, TelemMoves DEF telemetry_task, AtRest
    <2>2. due["sensor"] = Delay
      BY <1>a, <2>1 DEF AsleepInv, Delay
    <2> QED BY <1>0, <1>1, <1>4, <1>6, <2>1, <2>2, SetBits, LabelsOf
            DEF telemetry_task, TelemReceive, TelemBeat, health
  <1>7. CASE do_cmd
    <2>1. ~SystemReset
      BY <1>0, OtherMoves
    <2>2. PICK f \in Faults : fault_inject(f)
      BY <1>7, <2>1 DEF do_cmd
    <2> QED BY <1>1, <2>2 DEF fault_inject, health
  <1>8. CASE Pass
    <2>1. pc["sensor"] = "delay" /\ due["sensor"] > 0 /\ due["health"] > 0 /\ warned' = warned
      BY <1>8 DEF Pass, health
    <2>2. due'["sensor"] = due["sensor"] - 1 /\ due'["health"] = due["health"] - 1
      BY <1>0, <1>8, <2>1, PassClocks DEF Clocks
    <2> QED BY <1>a, <2>1, <2>2 DEF StallInv, Watch, Delay
  <1>9. CASE prvSensorTimerCallback
    BY <1>0, <1>1, <1>9, ClockMoves DEF prvSensorTimerCallback, health
  <1>10. CASE HealthTimeout
    <2>1. /\ pc["sensor"] = "delay" /\ due["health"] = 0 /\ due'["health"] = Watch
          /\ due'["sensor"] = due["sensor"] /\ warned' = warned + 1
      BY <1>0, <1>10, ClockMoves DEF HealthTimeout
    <2> QED BY <1>a, <2>1 DEF StallInv, Watch, Delay
  <1>11. CASE SensorDelayOver
    BY <1>0, <1>11, OtherMoves
  <1> QED BY <1>2, <1>3, <1>5, <1>6, <1>7, <1>8, <1>9, <1>10, <1>11 DEF Next

LEMMA LagStep == IInv /\ AsleepInv /\ LagInv /\ [Next]_vars => LagInv'
  <1> SUFFICES ASSUME IInv, AsleepInv, LagInv, [Next]_vars PROVE LagInv'
    OBVIOUS
  <1>0. TypeOK /\ IInv'
    BY NextIInv DEF IInv
  <1>a. /\ Len(xSensorQueue) \in Nat /\ Len(xSensorQueue') \in Nat /\ recoveries \in Nat
        /\ Tokens \in 0..2 /\ Owed \in 0..1 /\ Tokens' \in 0..2 /\ Owed' \in 0..1
    BY <1>0 DEF IInv, TypeOK, Tokens, Owed
  <1> DEFINE Calm == /\ Lag' <= Lag /\ recoveries' = recoveries
                     /\ MergeAhead' => MergeAhead
                     /\ pc'["sensor"] \in {"send", "give"} /\ xDataReadySem' => ~xSensorKickSem'
  <1>b. CASE Calm
    BY <1>a, <1>b DEF LagInv, Lag
  <1>1. CASE UNCHANGED vars
    BY <1>a, <1>1 DEF vars, queues, sems, control, delays, LagInv, Lag, MergeAhead, Tokens, Owed
  <1>2. CASE SensorTake
    <2>1. /\ pc["sensor"] = "take" /\ pc'["sensor"] # "give" /\ pc'["proc"] = pc["proc"]
          /\ pc'["sensor"] # "take" /\ pc'["sensor"] # "beat" /\ xSensorKickSem /\ ~xSensorKickSem'
          /\ g_active_fault = "process" => pc'["sensor"] # "send"
      BY <1>0, <1>2, SensorMoves DEF sensor_task, SensorTake
    <2>2. UNCHANGED <<xSensorQueue, xDataReadySem, g_active_fault, recoveries>>
      BY <1>2 DEF SensorTake, queues, control
    <2>3. Lag' = Lag
      BY <2>1, <2>2 DEF Lag, Tokens, Owed
    <2>4. MergeAhead' => MergeAhead
      BY <2>1, <2>2 DEF MergeAhead
    <2> QED BY <1>a, <1>b, <2>1, <2>2, <2>3, <2>4 DEF Lag
  <1>3. CASE SensorSend
    <2>1. /\ pc["sensor"] = "send" /\ pc'["sensor"] = "give" /\ pc'["proc"] = pc["proc"]
      BY <1>0, <1>3, SensorMoves DEF sensor_task
    <2>2. UNCHANGED <<sems, g_active_fault, recoveries>>
      BY <1>3 DEF SensorSend, control, delays
    <2>3. Len(xSensorQueue') <= Len(xSensorQueue) + 1
      <3>1. PICK data \in Samples : xSensorQueue' = Sent(xSensorQueue, data)
        BY <1>3 DEF SensorSend, Samples
      <3>2. xSensorQueue \in Seq(Samples) /\ Len(xSensorQueue) <= Capacity
        BY <1>0 DEF TypeOK
      <3> QED BY <1>a, <3>1, <3>2, SentBounds
    <2>4. Lag' <= Lag
      <3>1. Owed = 0 /\ Owed' = 1 /\ Tokens' = Tokens
        BY <2>1, <2>2 DEF Owed, Tokens, sems
      <3> QED BY <1>a, <2>3, <3>1 DEF Lag
    <2>5. MergeAhead' => MergeAhead
      BY <2>1, <2>2 DEF MergeAhead, sems
    <2>6. xDataReadySem' => ~xSensorKickSem'
      BY <2>1, <2>2 DEF LagInv, sems
    <2> QED BY <1>b, <2>2, <2>4, <2>5, <2>6
  <1>4. CASE SensorGive
    <2>1. /\ pc["sensor"] = "give" /\ pc'["sensor"] = "beat" /\ pc'["proc"] = pc["proc"]
      BY <1>0, <1>4, SensorMoves DEF sensor_task
    <2>2. /\ UNCHANGED <<xSensorQueue, xSensorKickSem, g_active_fault, recoveries>>
          /\ xDataReadySem' = TRUE /\ Owed = 1 /\ Owed' = 0
      BY <1>4, <2>1 DEF SensorGive, queues, control, delays, Owed
    <2>3. CASE xDataReadySem
      <3>1. Tokens' = Tokens
        BY <2>1, <2>2, <2>3 DEF Tokens
      <3>2. MergeAhead /\ ~xSensorKickSem
        BY <2>1, <2>3 DEF MergeAhead, LagInv
      <3>3. ~MergeAhead'
        BY <2>1, <2>2, <3>2 DEF MergeAhead
      <3> QED BY <1>a, <2>1, <2>2, <3>1, <3>2, <3>3 DEF LagInv, Lag
    <2>4. CASE ~xDataReadySem
      <3>1. Tokens' = Tokens + 1
        BY <2>1, <2>2, <2>4 DEF Tokens
      <3>2. MergeAhead' => MergeAhead
        BY <2>1, <2>2, <2>4 DEF MergeAhead
      <3>3. Lag' <= Lag
        BY <1>a, <2>2, <3>1 DEF Lag
      <3> QED BY <1>b, <2>1, <2>2, <3>2, <3>3
    <2> QED BY <2>3, <2>4
  <1>5. CASE SensorBeat
    <2>1. /\ pc["sensor"] = "beat" /\ pc'["sensor"] = "take" /\ pc'["proc"] = pc["proc"]
      BY <1>0, <1>5, SensorMoves DEF sensor_task
    <2>2. UNCHANGED <<xSensorQueue, sems, g_active_fault, recoveries>>
      BY <1>5 DEF SensorBeat, queues, control, delays
    <2>3. Lag' = Lag
      BY <2>1, <2>2 DEF Lag, Tokens, Owed, sems
    <2>4. MergeAhead' => MergeAhead
      BY <2>1, <2>2 DEF MergeAhead, sems
    <2> QED BY <1>a, <1>b, <2>1, <2>2, <2>3, <2>4 DEF Lag
  <1>6. CASE processing_task
    <2>1. pc'["sensor"] = pc["sensor"] /\ UNCHANGED <<xSensorKickSem, g_active_fault, recoveries>>
      BY <1>6, ProcMoves DEF processing_task, ProcTake, ProcReceive, ProcSend, ProcBeat,
                             sems, control, delays
    <2>2. xDataReadySem' => xDataReadySem
      BY <1>6 DEF processing_task, ProcTake, ProcReceive, ProcSend, ProcBeat, sems
    <2>3. Lag' = Lag
      <3>1. Owed' = Owed
        BY <2>1 DEF Owed
      <3>2. CASE ProcTake
        <4>1. Tokens' = Tokens
          <5>1. pc["proc"] = "take" /\ pc'["proc"] = "receive" /\ xDataReadySem
            BY <1>6, <3>2, ProcMoves
          <5>2. xDataReadySem' = FALSE
            BY <3>2 DEF ProcTake
          <5> QED BY <5>1, <5>2 DEF Tokens
        <4>2. xSensorQueue' = xSensorQueue
          BY <3>2 DEF ProcTake, queues
        <4> QED BY <3>1, <4>1, <4>2 DEF Lag
      <3>3. CASE ProcReceive
        <4>1. Tokens' = Tokens - 1
          BY <1>6, <3>3, ProcMoves DEF ProcReceive, sems, Tokens
        <4>2. xSensorQueue # <<>> /\ xSensorQueue' = Tail(xSensorQueue)
          BY <1>6, <3>3, ProcMoves DEF ProcReceive
        <4>3. Len(xSensorQueue') = Len(xSensorQueue) - 1
          BY <1>0, <4>2 DEF TypeOK
        <4> QED BY <1>a, <3>1, <4>1, <4>3 DEF Lag
      <3>4. CASE ProcSend \/ ProcBeat
        <4>1. Tokens' = Tokens /\ xSensorQueue' = xSensorQueue
          BY <1>6, <3>4, ProcMoves DEF ProcSend, ProcBeat, sems, queues, Tokens
        <4> QED BY <3>1, <4>1 DEF Lag
      <3> QED BY <1>6, <3>2, <3>3, <3>4 DEF processing_task
    <2>4. MergeAhead' => MergeAhead
      BY <2>1, <2>2 DEF MergeAhead
    <2> QED BY <1>a, <1>b, <2>1, <2>2, <2>3, <2>4 DEF LagInv, Lag
  <1>7. CASE telemetry_task
    <2>1. /\ pc'["sensor"] = pc["sensor"] /\ pc'["proc"] = pc["proc"]
          /\ UNCHANGED <<xSensorQueue, sems, g_active_fault, recoveries>>
      BY <1>0, <1>7, TelemMoves DEF telemetry_task, TelemReceive, TelemBeat, queues, control, delays
    <2> QED BY <1>a, <2>1 DEF LagInv, Lag, MergeAhead, Tokens, Owed, sems
  <1>8. CASE do_cmd
    <2>1. CASE SystemReset
      <3>1. pc'["sensor"] = "take" /\ pc'["proc"] = "take"
        BY <1>0, <2>1, OtherMoves
      <3>2. /\ xSensorQueue' = <<>> /\ ~xSensorKickSem' /\ ~xDataReadySem'
            /\ recoveries' = 0
        BY <2>1 DEF SystemReset
      <3>3. Lag' = 0
        BY <3>1, <3>2 DEF Lag, Tokens, Owed
      <3>4. ~MergeAhead'
        BY <3>1, <3>2 DEF MergeAhead
      <3> QED BY <3>2, <3>3, <3>4 DEF LagInv
    <2>2. ASSUME NEW f \in Faults, fault_inject(f) PROVE LagInv'
      <3>1. SensorWaits /\ AtRest
        BY <2>2, DiagRuns DEF fault_inject
      <3>2. UNCHANGED <<pc, xSensorQueue, sems, recoveries>>
        BY <2>2 DEF fault_inject, queues, delays
      <3>3. ~MergeAhead'
        BY <3>1, <3>2 DEF SensorWaits, AtRest, MergeAhead, sems
      <3>4. Lag' = Lag
        BY <3>2 DEF Lag, Tokens, Owed, sems
      <3> QED BY <1>a, <1>b, <3>1, <3>2, <3>3, <3>4 DEF AtRest, sems, Lag
    <2> QED BY <1>8, <2>1, <2>2 DEF do_cmd
  <1>9. CASE Pass
    BY <1>a, <1>9 DEF Pass, queues, sems, control, LagInv, Lag, MergeAhead, Tokens, Owed
  <1>10. CASE prvSensorTimerCallback
    <2>1. SensorWaits /\ pc["proc"] = "take" /\ ~xDataReadySem
      BY <1>0, <1>10, TimerRuns DEF prvSensorTimerCallback
    <2>2. UNCHANGED <<pc, xSensorQueue, xDataReadySem, recoveries>>
      BY <1>10 DEF prvSensorTimerCallback, queues, delays
    <2>3. ~MergeAhead'
      BY <2>1, <2>2 DEF SensorWaits, MergeAhead
    <2>4. Lag' = Lag
      BY <2>2 DEF Lag, Tokens, Owed
    <2> QED BY <1>a, <1>b, <2>1, <2>2, <2>3, <2>4 DEF Lag
  <1>11. CASE HealthTimeout
    BY <1>a, <1>11 DEF HealthTimeout, queues, sems, control, delays, LagInv, Lag, MergeAhead,
                       Tokens, Owed
  <1>12. CASE SensorDelayOver
    <2>1. /\ pc["sensor"] = "delay" /\ pc'["sensor"] = "send" /\ pc'["proc"] = pc["proc"]
          /\ UNCHANGED <<xSensorQueue, sems, g_active_fault>>
      BY <1>0, <1>12, OtherMoves DEF SensorDelayOver, queues, control
    <2>2. ~xDataReadySem
      BY <1>12, <2>1 DEF SensorDelayOver, AsleepInv, AtRest, Delay
    <2>3. Lag' = Lag /\ ~MergeAhead
      BY <2>1, <2>2 DEF Lag, MergeAhead, Tokens, Owed, sems
    <2>4. CASE g_active_fault = "process"
      <3>1. ~MergeAhead' /\ recoveries' = recoveries
        BY <1>12, <2>1, <2>2, <2>4 DEF SensorDelayOver, MergeAhead, sems
      <3> QED BY <1>a, <1>b, <2>1, <2>2, <2>3, <3>1 DEF Lag, sems
    <2>5. CASE g_active_fault # "process"
      <3>1. recoveries' = recoveries + 1
        BY <1>12, <2>5 DEF SensorDelayOver
      <3> QED BY <1>a, <2>1, <2>2, <2>3, <3>1 DEF LagInv, Lag, sems
    <2> QED BY <2>4, <2>5
  <1> QED BY <1>1, <1>2, <1>3, <1>4, <1>5, <1>6, <1>7, <1>8, <1>9, <1>10, <1>11, <1>12
          DEF Next, sensor_task

\* A completed or a lasting bit: what setting the bit of t means for BeatsInv.
LEMMA BeatSet ==
    ASSUME TypeOK, NEW t \in Beating, xEventGroupSetBits(t),
           \/ due["health"] = Watch \/ due["timer"] = 0
           \/ \A u \in Beating : u \in xHeartbeatEvents \/ WillBeat(u),
           \A u \in Beating \ {t} : WillBeat(u) => WillBeat(u)'
    PROVE  \/ due'["health"] = Watch \/ due'["timer"] = 0
           \/ \A u \in Beating : u \in xHeartbeatEvents' \/ WillBeat(u)'
  BY SetBits

\* WillBeat, task by task, before and after a step.
LEMMA WillBeatOf ==
    /\ WillBeat("sensor") <=> (SensorWillSend \/ pc["sensor"] = "beat")
    /\ WillBeat("proc") <=> (ProcWillReceive \/ pc["proc"] \in {"send", "beat"})
    /\ WillBeat("telem") <=> (\/ ProcWillReceive \/ pc["proc"] = "send"
                              \/ xTelemetryQueue # <<>> \/ pc["telem"] = "beat")
  <1>1. WillBeat("sensor") <=> (SensorWillSend \/ pc["sensor"] = "beat")
    BY DEF WillBeat
  <1>2. WillBeat("proc") <=> (ProcWillReceive \/ pc["proc"] \in {"send", "beat"})
    BY DEF WillBeat
  <1>3. WillBeat("telem") <=> (\/ ProcWillReceive \/ pc["proc"] = "send"
                               \/ xTelemetryQueue # <<>> \/ pc["telem"] = "beat")
    BY DEF WillBeat
  <1> QED BY <1>1, <1>2, <1>3

LEMMA WillBeatNext ==
    /\ WillBeat("sensor")' <=> (SensorWillSend' \/ pc'["sensor"] = "beat")
    /\ WillBeat("proc")' <=> (ProcWillReceive' \/ pc'["proc"] \in {"send", "beat"})
    /\ WillBeat("telem")' <=> (\/ ProcWillReceive' \/ pc'["proc"] = "send"
                               \/ xTelemetryQueue' # <<>> \/ pc'["telem"] = "beat")
  <1>1. WillBeat("sensor")' <=> (SensorWillSend' \/ pc'["sensor"] = "beat")
    BY DEF WillBeat
  <1>2. WillBeat("proc")' <=> (ProcWillReceive' \/ pc'["proc"] \in {"send", "beat"})
    BY DEF WillBeat
  <1>3. WillBeat("telem")' <=> (\/ ProcWillReceive' \/ pc'["proc"] = "send"
                                \/ xTelemetryQueue' # <<>> \/ pc'["telem"] = "beat")
    BY DEF WillBeat
  <1> QED BY <1>1, <1>2, <1>3

LEMMA BeatsStep == IInv /\ ClockInv /\ BeatsInv /\ [Next]_vars => BeatsInv'
  <1> SUFFICES ASSUME IInv, ClockInv, BeatsInv, [Next]_vars PROVE BeatsInv'
    OBVIOUS
  <1>0. TypeOK
    BY DEF IInv
  <1> DEFINE Round == \/ due["health"] = Watch \/ due["timer"] = 0
                      \/ \A t \in Beating : t \in xHeartbeatEvents \/ WillBeat(t)
             Same  == UNCHANGED <<xHeartbeatEvents, due>>
             Grow  == \A t \in Beating : WillBeat(t) => WillBeat(t)'
  <1>a. pc["sensor"] # "delay" => Round
    BY DEF BeatsInv
  <1>b. ASSUME Same, Grow, pc["sensor"] # "delay" PROVE BeatsInv'
    BY <1>b, <1>a DEF BeatsInv
  <1>1. CASE UNCHANGED vars
    BY <1>1 DEF vars, queues, sems, health, BeatsInv, WillBeat, SensorWillSend, ProcWillReceive
  <1>2. CASE SensorTake
    <2>1. pc'["sensor"] \in {"delay", "send"}
      BY <1>0, <1>2, SensorMoves DEF sensor_task
    <2>2. pc'["sensor"] # "delay" => \A t \in Beating : WillBeat(t)'
      BY <2>1, WillBeatNext, LabelsOf DEF SensorWillSend, ProcWillReceive
    <2> QED BY <1>2, <2>2 DEF BeatsInv, SensorTake
  <1>3. CASE SensorSend
    <2>1. pc["sensor"] = "send" /\ pc'["sensor"] = "give"
      BY <1>0, <1>3, SensorMoves DEF sensor_task
    <2>2. Grow
      BY <2>1, WillBeatNext, LabelsOf DEF SensorWillSend, ProcWillReceive
    <2> QED BY <1>3, <1>b, <2>1, <2>2 DEF SensorSend, health
  <1>4. CASE SensorGive
    <2>1. pc["sensor"] = "give" /\ pc'["sensor"] = "beat"
      BY <1>0, <1>4, SensorMoves DEF sensor_task
    <2>2. xDataReadySem' /\ Same
      BY <1>4 DEF SensorGive, health
    <2>3. Grow
      BY <2>1, <2>2, WillBeatNext, LabelsOf DEF ProcWillReceive
    <2> QED BY <1>b, <2>1, <2>2, <2>3
  <1>5. CASE SensorBeat
    <2>1. /\ pc["sensor"] = "beat" /\ pc'["sensor"] = "take"
          /\ pc'["proc"] = pc["proc"] /\ pc'["telem"] = pc["telem"]
      BY <1>0, <1>5, SensorMoves DEF sensor_task
    <2>2. UNCHANGED <<queues, sems>> /\ xEventGroupSetBits("sensor")
      BY <1>5 DEF SensorBeat
    <2>3. \A u \in Beating \ {"sensor"} : WillBeat(u) => WillBeat(u)'
      <3>1. ProcWillReceive => ProcWillReceive'
        BY <2>1, <2>2 DEF ProcWillReceive, SensorWillSend, sems
      <3> QED BY <2>1, <2>2, <3>1, WillBeatOf, WillBeatNext, LabelsOf DEF queues
    <2>4. Round
      BY <1>a, <2>1
    <2>5. Round'
      BY <1>0, <2>2, <2>3, <2>4, BeatSet, LabelsOf
    <2> QED BY <1>0, <2>2, <2>5, SetBits, LabelsOf DEF BeatsInv
  <1>6. CASE processing_task
    <2>0. pc'["sensor"] = pc["sensor"] /\ pc'["telem"] = pc["telem"] /\ xSensorKickSem' = xSensorKickSem
      BY <1>6, ProcMoves DEF processing_task, ProcTake, ProcReceive, ProcSend, ProcBeat, sems
    <2>a. SensorWillSend' <=> SensorWillSend
      BY <2>0 DEF SensorWillSend
    <2>b. CASE pc["sensor"] = "delay"
      <3>1. xHeartbeatEvents' # Beating
        BY <1>0, <1>6, SetBits, LabelsOf
           DEF BeatsInv, processing_task, ProcTake, ProcReceive, ProcSend, ProcBeat, health
      <3> QED BY <2>0, <2>b, <3>1 DEF BeatsInv
    <2>c. CASE pc["sensor"] # "delay"
      <3>1. CASE ProcTake
        <4>1. pc'["proc"] = "receive"
          BY <1>6, <3>1, ProcMoves
        <4>2. Grow
          BY <2>0, <2>a, <4>1, WillBeatOf, WillBeatNext, LabelsOf DEF ProcWillReceive
        <4> QED BY <1>b, <2>c, <3>1, <4>2 DEF ProcTake, health
      <3>2. CASE ProcReceive
        <4>1. pc'["proc"] = "send"
          BY <1>6, <3>2, ProcMoves
        <4>2. Grow
          BY <2>0, <2>a, <4>1, WillBeatOf, WillBeatNext, LabelsOf
        <4> QED BY <1>b, <2>c, <3>2, <4>2 DEF ProcReceive, health
      <3>3. CASE ProcSend
        <4>1. /\ pc["proc"] = "send" /\ pc'["proc"] = "beat"
          BY <1>6, <3>3, ProcMoves
        <4>2. xTelemetryQueue' # <<>>
          <5>1. Judged(hand["proc"]) \in Frames
            BY <1>0 DEF Judged, Frames, TypeOK
          <5>2. Len(xTelemetryQueue') >= 1
            <6>1. /\ xTelemetryQueue \in Seq(Frames) /\ Len(xTelemetryQueue) <= Capacity
                  /\ Len(xTelemetryQueue) \in Nat
              BY <1>0 DEF TypeOK
            <6>2. xTelemetryQueue' = Sent(xTelemetryQueue, Judged(hand["proc"]))
              BY <3>3 DEF ProcSend
            <6>3. \/ Len(xTelemetryQueue') = Len(xTelemetryQueue) + 1
                  \/ Len(xTelemetryQueue') = Len(xTelemetryQueue) /\ Len(xTelemetryQueue) = Capacity
              BY <5>1, <6>1, <6>2, SentBounds
            <6> QED BY <6>1, <6>3, Lm3sAssumption
          <5> QED BY <5>2
        <4>3. Grow
          BY <2>0, <2>a, <4>1, <4>2, WillBeatOf, WillBeatNext, LabelsOf
        <4> QED BY <1>b, <2>c, <3>3, <4>3 DEF ProcSend, health
      <3>4. CASE ProcBeat
        <4>1. pc["proc"] = "beat" /\ pc'["proc"] = "take"
          BY <1>6, <3>4, ProcMoves
        <4>2. UNCHANGED <<queues, sems>> /\ xEventGroupSetBits("proc")
          BY <3>4 DEF ProcBeat
        <4>3. \A u \in Beating \ {"proc"} : WillBeat(u) => WillBeat(u)'
          <5>1. ProcWillReceive => ProcWillReceive'
            BY <2>a, <4>1, <4>2 DEF ProcWillReceive, sems
          <5> QED BY <2>0, <2>a, <4>1, <4>2, <5>1, WillBeatOf, WillBeatNext, LabelsOf DEF queues
        <4>4. Round'
          BY <1>0, <1>a, <2>c, <4>2, <4>3, BeatSet, LabelsOf
        <4> QED BY <1>0, <4>2, <4>4, SetBits, LabelsOf DEF BeatsInv
      <3> QED BY <1>6, <3>1, <3>2, <3>3, <3>4 DEF processing_task
    <2> QED BY <2>b, <2>c
  <1>7. CASE telemetry_task
    <2>0. /\ pc'["sensor"] = pc["sensor"] /\ pc'["proc"] = pc["proc"] /\ UNCHANGED sems
      BY <1>0, <1>7, TelemMoves DEF telemetry_task, TelemReceive, TelemBeat
    <2>a. (ProcWillReceive' <=> ProcWillReceive) /\ (SensorWillSend' <=> SensorWillSend)
      BY <2>0 DEF SensorWillSend, ProcWillReceive, sems
    <2>b. CASE pc["sensor"] = "delay"
      <3>1. xHeartbeatEvents' # Beating
        BY <1>0, <1>7, SetBits, LabelsOf
           DEF BeatsInv, telemetry_task, TelemReceive, TelemBeat, health
      <3> QED BY <2>0, <2>b, <3>1 DEF BeatsInv
    <2>c. CASE pc["sensor"] # "delay"
      <3>1. CASE TelemReceive
        <4>1. pc'["telem"] = "beat"
          BY <1>0, <1>7, <3>1, TelemMoves
        <4>2. Grow
          BY <2>0, <2>a, <4>1, WillBeatOf, WillBeatNext, LabelsOf
        <4> QED BY <1>b, <2>c, <3>1, <4>2 DEF TelemReceive, health
      <3>2. CASE TelemBeat
        <4>1. xEventGroupSetBits("telem")
          BY <3>2 DEF TelemBeat
        <4>2. \A u \in Beating \ {"telem"} : WillBeat(u) => WillBeat(u)'
          BY <2>0, <2>a, WillBeatOf, WillBeatNext, LabelsOf
        <4>3. Round'
          BY <1>0, <1>a, <2>c, <4>1, <4>2, BeatSet, LabelsOf
        <4> QED BY <1>0, <4>1, <4>3, SetBits, LabelsOf DEF BeatsInv
      <3> QED BY <1>7, <3>1, <3>2 DEF telemetry_task
    <2> QED BY <2>b, <2>c
  <1>8. CASE do_cmd
    <2>1. CASE SystemReset
      BY <2>1, StartFields, LabelsOf DEF SystemReset, BeatsInv
    <2>2. ASSUME NEW f \in Faults, fault_inject(f) PROVE BeatsInv'
      BY <2>2 DEF fault_inject, queues, sems, health, BeatsInv, WillBeat, SensorWillSend,
                  ProcWillReceive
    <2> QED BY <1>8, <2>1, <2>2 DEF do_cmd
  <1>9. CASE Pass
    <2>1. /\ SensorWaits /\ AtRest /\ due["timer"] \in 1..Delay
          /\ UNCHANGED <<pc, xHeartbeatEvents>>
      BY <1>0, <1>9, PassWaits DEF Pass, health
    <2>2. due'["timer"] = 0
      <3>1. due["timer"] = 1
        BY <2>1 DEF ClockInv, Period, Delay
      <3> QED BY <1>0, <1>9, <3>1, PassClocks DEF Clocks
    <2> QED BY <2>1, <2>2 DEF BeatsInv
  <1>10. CASE prvSensorTimerCallback
    <2>1. SensorWaits /\ xSensorKickSem' /\ UNCHANGED <<pc, xHeartbeatEvents>>
      BY <1>0, <1>10, TimerRuns DEF prvSensorTimerCallback, health
    <2>2. pc'["sensor"] # "delay" => \A t \in Beating : WillBeat(t)'
      BY <2>1, WillBeatNext, LabelsOf DEF SensorWaits, SensorWillSend, ProcWillReceive
    <2> QED BY <2>1, <2>2 DEF BeatsInv
  <1>11. CASE HealthTimeout
    BY <1>0, <1>11, ClockMoves DEF HealthTimeout, BeatsInv
  <1>12. CASE SensorDelayOver
    <2>1. pc'["sensor"] = "send" /\ UNCHANGED xHeartbeatEvents
      BY <1>0, <1>12, OtherMoves DEF SensorDelayOver, health
    <2>2. \A t \in Beating : WillBeat(t)'
      BY <2>1, WillBeatNext, LabelsOf DEF SensorWillSend, ProcWillReceive
    <2> QED BY <2>1, <2>2 DEF BeatsInv
  <1> QED BY <1>1, <1>2, <1>3, <1>4, <1>5, <1>6, <1>7, <1>8, <1>9, <1>10, <1>11, <1>12
          DEF Next, sensor_task

LEMMA RecentStep == IInv /\ ClockInv /\ BeatsInv /\ RecentInv /\ [Next]_vars => RecentInv'
  <1> SUFFICES ASSUME IInv, ClockInv, BeatsInv, RecentInv, [Next]_vars PROVE RecentInv'
    OBVIOUS
  <1>0. TypeOK
    BY DEF IInv
  <1>a. due["health"] \in 0..Delay
    BY <1>0, ClockRanges
  <1> DEFINE Kept == /\ pc'["sensor"] = "delay" => pc["sensor"] = "delay"
                     /\ recent' = recent
                     /\ due'["health"] = due["health"] \/ due'["health"] = Watch
  <1>1. CASE Kept
    BY <1>a, <1>1 DEF RecentInv, Watch
  <1>2. CASE UNCHANGED vars
    BY <1>1, <1>2 DEF vars, delays
  <1>3. CASE SensorTake
    <2>1. CASE g_active_fault = "process"
      BY <1>3, <2>1 DEF SensorTake, RecentInv
    <2>2. CASE g_active_fault # "process"
      <3>1. pc'["sensor"] = "send"
        BY <1>0, <1>3, <2>2, SensorMoves DEF sensor_task
      <3> QED BY <1>1, <1>3, <2>2, <3>1 DEF SensorTake
    <2> QED BY <2>1, <2>2
  <1>4. CASE SensorSend \/ SensorGive \/ SensorBeat
    <2>1. pc'["sensor"] # "delay"
      BY <1>0, <1>4, SensorMoves DEF sensor_task
    <2> QED BY <1>0, <1>1, <1>4, <2>1, SetBits, LabelsOf
            DEF SensorSend, SensorGive, SensorBeat, delays
  <1>5. CASE processing_task
    BY <1>0, <1>1, <1>5, ProcMoves, SetBits, LabelsOf
       DEF processing_task, ProcTake, ProcReceive, ProcSend, ProcBeat, delays
  <1>6. CASE telemetry_task
    BY <1>0, <1>1, <1>6, TelemMoves, SetBits, LabelsOf
       DEF telemetry_task, TelemReceive, TelemBeat, delays
  <1>7. CASE do_cmd
    <2>1. CASE SystemReset
      <3>1. pc'["sensor"] = "take" /\ due'["health"] = Watch
        BY <1>0, <2>1, OtherMoves, StartFields DEF SystemReset
      <3> QED BY <3>1 DEF RecentInv, Watch
    <2>2. ASSUME NEW f \in Faults, fault_inject(f) PROVE RecentInv'
      BY <1>1, <2>2 DEF fault_inject, delays
    <2> QED BY <1>7, <2>1, <2>2 DEF do_cmd
  <1>8. CASE Pass
    <2>1. UNCHANGED pc /\ recent' = (pc["sensor"] = "delay")
      BY <1>8 DEF Pass
    <2>2. CASE pc["sensor"] = "delay"
      BY <2>1, <2>2 DEF RecentInv
    <2>3. CASE pc["sensor"] # "delay"
      <3>1. /\ pc["sensor"] = "take" /\ ~xSensorKickSem /\ AtRest /\ due["timer"] \in 1..Delay
        BY <1>0, <1>8, <2>3, PassWaits DEF SensorWaits
      <3>2. ~WillBeat("sensor") /\ ~WillBeat("proc") /\ ~WillBeat("telem")
        BY <3>1, WillBeatOf DEF AtRest, SensorWillSend, ProcWillReceive
      <3>3. due["health"] = Watch
        <4>1. ~\A t \in Beating : t \in xHeartbeatEvents \/ WillBeat(t)
          <5>1. PICK t \in Beating : t \notin xHeartbeatEvents
            BY <1>0 DEF BeatsInv, TypeOK
          <5>2. ~WillBeat(t)
            BY <3>2, LabelsOf
          <5> QED BY <5>1, <5>2
        <4>2. due["timer"] # 0
          BY <3>1
        <4> QED BY <2>3, <4>1, <4>2 DEF BeatsInv
      <3>4. due'["health"] = Watch - 1
        <4>1. "health" \in Clocks
          BY DEF Clocks
        <4> QED BY <1>0, <1>8, <3>3, <4>1, PassClocks DEF Watch
      <3> QED BY <2>1, <2>3, <3>4 DEF RecentInv, Watch
    <2> QED BY <2>2, <2>3
  <1>9. CASE prvSensorTimerCallback
    BY <1>0, <1>1, <1>9, ClockMoves DEF prvSensorTimerCallback, delays
  <1>10. CASE HealthTimeout
    BY <1>0, <1>1, <1>10, ClockMoves DEF HealthTimeout, delays
  <1>11. CASE SensorDelayOver
    BY <1>0, <1>1, <1>11, OtherMoves DEF SensorDelayOver
  <1> QED BY <1>2, <1>3, <1>4, <1>5, <1>6, <1>7, <1>8, <1>9, <1>10, <1>11 DEF Next, sensor_task

-----------------------------------------------------------------------------
(* Samples and verdicts.                                                   *)

\* What xQueueSend appends comes last.
LEMMA SentItems ==
    ASSUME NEW S, NEW q \in Seq(S), NEW item \in S, Len(q) <= Capacity
    PROVE  \A i \in DOMAIN Sent(q, item) :
               (i \in DOMAIN q /\ Sent(q, item)[i] = q[i]) \/ Sent(q, item)[i] = item
  BY DEF Sent, Room

LEMMA TailItems ==
    ASSUME NEW S, NEW q \in Seq(S), q # <<>>
    PROVE  /\ Head(q) = q[1] /\ 1 \in DOMAIN q
           /\ \A i \in DOMAIN Tail(q) : i + 1 \in DOMAIN q /\ Tail(q)[i] = q[i + 1]
  OBVIOUS

Sound(f) == f.valid = (f.data = "good")

\* VerdictMatchesData, frame by frame.
LEMMA JudgementsSound ==
    ASSUME TRUE
    PROVE  (\A f \in Judgements : f.valid = (f.data = "good"))
             <=> /\ \A i \in DOMAIN xTelemetryQueue : Sound(xTelemetryQueue[i])
                 /\ pc["telem"] = "beat" => Sound(hand["telem"])
  BY DEF Judgements, Sound

MatchParts == recoveries = 0 =>
                  /\ \A i \in DOMAIN xSensorQueue : Fits(xSensorQueue[i], g_active_fault)
                  /\ pc["proc"] = "send" => Fits(hand["proc"], g_active_fault)
                  /\ \A i \in DOMAIN xTelemetryQueue : Sound(xTelemetryQueue[i])
                  /\ pc["telem"] = "beat" => Sound(hand["telem"])

LEMMA MatchIsParts == MatchInv <=> MatchParts
  BY JudgementsSound DEF MatchInv, MatchParts, VerdictMatchesData

LEMMA MatchStep == IInv /\ LagInv /\ MatchParts /\ [Next]_vars => MatchParts'
  <1> SUFFICES ASSUME IInv, LagInv, MatchParts, [Next]_vars, recoveries' = 0
               PROVE  /\ \A i \in DOMAIN xSensorQueue' : Fits(xSensorQueue'[i], g_active_fault')
                      /\ pc'["proc"] = "send" => Fits(hand'["proc"], g_active_fault')
                      /\ \A i \in DOMAIN xTelemetryQueue' : Sound(xTelemetryQueue'[i])
                      /\ pc'["telem"] = "beat" => Sound(hand'["telem"])
    BY DEF MatchParts, Sound, Fits
  <1>0. TypeOK
    BY DEF IInv
  <1>t. /\ xSensorQueue \in Seq(Samples) /\ Len(xSensorQueue) <= Capacity
        /\ xTelemetryQueue \in Seq(Frames) /\ Len(xTelemetryQueue) <= Capacity
        /\ hand["proc"] \in Samples
    BY <1>0 DEF TypeOK
  <1> DEFINE Kept == UNCHANGED <<queues, pc["proc"], pc["telem"], g_active_fault, recoveries>>
  <1>1. CASE Kept
    BY <1>1 DEF queues, MatchParts, Sound, Fits
  <1>2. CASE UNCHANGED vars
    BY <1>1, <1>2 DEF vars, control, delays
  <1>3. CASE SensorSend
    <2>1. PICK data \in Samples : xSensorQueue' = Sent(xSensorQueue, data) /\ Fits(data, g_active_fault)
      BY <1>3 DEF SensorSend, Samples, Fits
    <2>2. UNCHANGED <<hand, xTelemetryQueue, g_active_fault, recoveries, pc["proc"], pc["telem"]>>
      BY <1>0, <1>3, SensorMoves DEF sensor_task, SensorSend, control, delays
    <2>3. \A i \in DOMAIN xSensorQueue' : Fits(xSensorQueue'[i], g_active_fault)
      BY <1>t, <2>1, <2>2, SentItems DEF MatchParts
    <2> QED BY <2>2, <2>3 DEF MatchParts, Fits, Sound
  <1>4. CASE SensorTake \/ SensorGive \/ SensorBeat
    BY <1>0, <1>1, <1>4, SensorMoves
       DEF sensor_task, SensorTake, SensorGive, SensorBeat, control, delays
  <1>5. CASE ProcTake \/ ProcBeat
    <2>1. UNCHANGED <<queues, g_active_fault, recoveries, pc["telem"]>> /\ pc'["proc"] # "send"
      BY <1>5, ProcMoves DEF processing_task, ProcTake, ProcBeat, control, delays
    <2> QED BY <2>1 DEF queues, MatchParts, Sound, Fits
  <1>6. CASE ProcReceive
    <2>1. xSensorQueue # <<>> /\ UNCHANGED pc["telem"]
      BY <1>6, ProcMoves DEF processing_task
    <2>2. /\ hand' = [hand EXCEPT !["proc"] = Head(xSensorQueue)]
          /\ xSensorQueue' = Tail(xSensorQueue)
          /\ UNCHANGED <<xTelemetryQueue, g_active_fault, recoveries>>
      BY <1>6, <2>1 DEF ProcReceive, control, delays
    <2>3. hand'["proc"] = xSensorQueue[1] /\ 1 \in DOMAIN xSensorQueue /\ UNCHANGED hand["telem"]
      BY <1>0, <1>t, <2>1, <2>2, TailItems DEF TypeOK
    <2>4. \A i \in DOMAIN xSensorQueue' : Fits(xSensorQueue'[i], g_active_fault)
      BY <1>t, <2>1, <2>2, TailItems DEF MatchParts
    <2> QED BY <2>1, <2>2, <2>3, <2>4 DEF MatchParts, Fits, Sound
  <1>7. CASE ProcSend
    <2>1. /\ pc["proc"] = "send" /\ pc'["proc"] = "beat" /\ UNCHANGED pc["telem"]
      BY <1>7, ProcMoves DEF processing_task
    <2>2. /\ xTelemetryQueue' = Sent(xTelemetryQueue, Judged(hand["proc"]))
          /\ UNCHANGED <<hand, xSensorQueue, g_active_fault, recoveries>>
      BY <1>7 DEF ProcSend, control, delays
    <2>3. Sound(Judged(hand["proc"])) /\ Judged(hand["proc"]) \in Frames
      <3>1. Fits(hand["proc"], g_active_fault)
        BY <2>1, <2>2 DEF MatchParts
      <3> QED BY <1>t, <3>1 DEF Sound, Judged, Fits, Frames
    <2>4. \A i \in DOMAIN xTelemetryQueue' : Sound(xTelemetryQueue'[i])
      BY <1>t, <2>2, <2>3, SentItems DEF MatchParts
    <2> QED BY <2>1, <2>2, <2>4 DEF MatchParts, Fits, Sound
  <1>8. CASE TelemReceive
    <2>1. xTelemetryQueue # <<>> /\ UNCHANGED pc["proc"]
      BY <1>0, <1>8, TelemMoves DEF telemetry_task
    <2>2. /\ hand' = [hand EXCEPT !["telem"] = Head(xTelemetryQueue)]
          /\ xTelemetryQueue' = Tail(xTelemetryQueue)
          /\ UNCHANGED <<xSensorQueue, g_active_fault, recoveries>>
      BY <1>8 DEF TelemReceive, control, delays
    <2>3. /\ hand'["telem"] = xTelemetryQueue[1] /\ 1 \in DOMAIN xTelemetryQueue
          /\ UNCHANGED hand["proc"]
      BY <1>0, <1>t, <2>1, <2>2, TailItems DEF TypeOK
    <2>4. \A i \in DOMAIN xTelemetryQueue' : Sound(xTelemetryQueue'[i])
      BY <1>t, <2>1, <2>2, TailItems DEF MatchParts
    <2> QED BY <2>1, <2>2, <2>3, <2>4 DEF MatchParts, Fits, Sound
  <1>9. CASE TelemBeat
    <2>1. /\ UNCHANGED <<queues, g_active_fault, recoveries, pc["proc"]>>
          /\ pc'["telem"] = "receive"
      BY <1>0, <1>9, TelemMoves DEF telemetry_task, TelemBeat, control, delays
    <2> QED BY <2>1 DEF queues, MatchParts, Sound, Fits
  <1>10. CASE SystemReset
    <2>1. pc'["proc"] = "take" /\ pc'["telem"] = "receive"
      BY <1>0, <1>10, OtherMoves
    <2>2. xSensorQueue' = <<>> /\ xTelemetryQueue' = <<>>
      BY <1>10 DEF SystemReset
    <2> QED BY <2>1, <2>2
  <1>11. ASSUME NEW f \in Faults, fault_inject(f)
         PROVE  /\ \A i \in DOMAIN xSensorQueue' : Fits(xSensorQueue'[i], g_active_fault')
                /\ pc'["proc"] = "send" => Fits(hand'["proc"], g_active_fault')
                /\ \A i \in DOMAIN xTelemetryQueue' : Sound(xTelemetryQueue'[i])
                /\ pc'["telem"] = "beat" => Sound(hand'["telem"])
    <2>1. UNCHANGED <<pc, queues, recoveries>> /\ SensorWaits /\ AtRest
      BY <1>11, DiagRuns DEF fault_inject, delays
    <2>2. Tokens = 0 /\ Owed = 0
      BY <2>1 DEF SensorWaits, AtRest, Tokens, Owed
    <2>3. Len(xSensorQueue) = 0
      <3>1. Len(xSensorQueue) \in Nat /\ recoveries = 0
        BY <1>t, <2>1
      <3>2. Lag = Len(xSensorQueue)
        BY <2>2, <3>1 DEF Lag
      <3> QED BY <3>1, <3>2 DEF LagInv
    <2>4. DOMAIN xSensorQueue = {} /\ DOMAIN xTelemetryQueue = {}
      BY <1>t, <2>1, <2>3 DEF AtRest
    <2> QED BY <2>1, <2>4 DEF AtRest, queues
  <1>12. CASE Pass \/ prvSensorTimerCallback \/ HealthTimeout
    BY <1>1, <1>12 DEF Pass, prvSensorTimerCallback, HealthTimeout, control, delays
  <1>13. CASE SensorDelayOver
    <2>1. recoveries' = recoveries
      BY <1>0, <1>13 DEF SensorDelayOver, TypeOK
    <2> QED BY <1>0, <1>1, <1>13, <2>1, OtherMoves DEF SensorDelayOver, control
  <1> QED BY <1>2, <1>3, <1>4, <1>5, <1>6, <1>7, <1>8, <1>9, <1>10, <1>11, <1>12, <1>13
          DEF Next, sensor_task, processing_task, telemetry_task, do_cmd

-----------------------------------------------------------------------------
LaterInv == /\ LagInv /\ AsleepInv /\ ClockInv /\ StallInv /\ BeatsInv /\ RecentInv
            /\ MatchParts

LEMMA InitLater == Init => LaterInv
  <1> SUFFICES ASSUME Init PROVE LaterInv
    OBVIOUS
  <1>1. /\ pc["sensor"] = "take" /\ pc["proc"] = "take" /\ pc["telem"] = "receive"
        /\ due["timer"] = Period /\ due["health"] = Watch /\ recoveries = 0
        /\ xSensorQueue = <<>> /\ xTelemetryQueue = <<>> /\ xHeartbeatEvents = {}
        /\ xSensorKickSem = FALSE /\ xDataReadySem = FALSE
    BY StartFields DEF Init
  <1>2. LagInv
    <2>1. Lag = 0 /\ ~MergeAhead
      BY <1>1 DEF Lag, MergeAhead, Tokens, Owed
    <2> QED BY <1>1, <2>1 DEF LagInv
  <1>3. AsleepInv /\ ClockInv /\ StallInv
    BY <1>1 DEF AsleepInv, ClockInv, StallInv, Watch, Period
  <1>4. BeatsInv /\ RecentInv
    BY <1>1, LabelsOf DEF BeatsInv, RecentInv, Watch
  <1>5. MatchParts
    BY <1>1 DEF MatchParts
  <1> QED BY <1>2, <1>3, <1>4, <1>5 DEF LaterInv

LEMMA NextLater == IInv /\ LaterInv /\ [Next]_vars => LaterInv'
  BY LagStep, AsleepStep, ClockStep, StallStep, BeatsStep, RecentStep, MatchStep DEF LaterInv

LEMMA SpecLater == Spec => [](IInv /\ LaterInv)
  <1>1. Init => IInv /\ LaterInv
    BY InitIInv, InitLater
  <1>2. (IInv /\ LaterInv) /\ [Next]_vars => (IInv /\ LaterInv)'
    BY NextIInv, NextLater
  <1> QED BY <1>1, <1>2, PTL DEF Spec

\* Samples without a token wait in xSensorQueue for good, but no more of them
\* than delays ended after their fault was lifted; nothing else leaves one.
THEOREM LagIsRecovery == Spec => []LagNeedsRecovery
  <1>1. IInv /\ LaterInv => LagNeedsRecovery
    <2> SUFFICES ASSUME IInv, LagInv, Runs("diag")
                 PROVE  Len(xSensorQueue) <= recoveries
      BY DEF LaterInv, LagNeedsRecovery
    <2>1. SensorWaits /\ AtRest
      BY DiagRuns
    <2>2. Tokens = 0 /\ Owed = 0
      BY <2>1 DEF SensorWaits, AtRest, Tokens, Owed
    <2>3. Len(xSensorQueue) \in Nat /\ recoveries \in Nat
      BY DEF IInv, TypeOK
    <2> QED BY <2>1, <2>2, <2>3 DEF AtRest, LagInv, Lag
  <1> QED BY <1>1, SpecLater, PTL

\* Until a first recovery, the verdict of processing_task agrees with the sample
\* the sensor task made: commands come only when both are done with it.
THEOREM VerdictsAgree == Spec => []VerdictMatchesData
  <1>1. LaterInv => VerdictMatchesData
    <2>1. LaterInv => MatchInv
      BY MatchIsParts DEF LaterInv
    <2>2. MatchInv => VerdictMatchesData
      BY DEF MatchInv, VerdictMatchesData
    <2> QED BY <2>1, <2>2
  <1> QED BY <1>1, SpecLater, PTL

\* FAULT_TASK_DELAY holds the sensor task long enough for two warnings of the
\* health monitor, and nothing in the delay starts its wait anew.
THEOREM StallsReported == Spec => StallReported
  <1>1. IInv /\ LaterInv /\ [Next]_vars =>
            [pc["sensor"] = "delay" /\ pc'["sensor"] = "send" => warned >= 2]_vars
    <2> SUFFICES ASSUME IInv, StallInv, [Next]_vars,
                        pc["sensor"] = "delay", pc'["sensor"] = "send"
                 PROVE  warned >= 2
      BY DEF LaterInv
    <2>0. TypeOK
      BY DEF IInv
    <2>1. SensorDelayOver
      <3>1. ~(UNCHANGED vars)
        BY DEF vars
      <3>2. ~sensor_task
        BY <2>0, SensorMoves DEF sensor_task
      <3>3. ~processing_task /\ ~telemetry_task
        BY <2>0, ProcMoves, TelemMoves
      <3>4. ~do_cmd
        BY <2>0, OtherMoves DEF do_cmd, fault_inject
      <3> QED BY <3>1, <3>2, <3>3, <3>4
              DEF Next, Pass, prvSensorTimerCallback, HealthTimeout
    <2>2. due["sensor"] = 0 /\ due["health"] \in 0..Delay /\ warned \in Nat
      BY <2>0, <2>1, ClockRanges DEF SensorDelayOver, TypeOK
    <2> QED BY <2>2 DEF StallInv, Watch, Delay
  <1> QED BY <1>1, SpecLater, PTL DEF Spec, StallReported

\* The health monitor warns only in a delay or at the moment one ended: between
\* two ticks every task beats, for the sensor's queue, its semaphore and the
\* telemetry queue hand the round on to the end.
THEOREM WarningsMean == Spec => NoFalseAlarm
  <1>1. IInv /\ LaterInv /\ [Next]_vars => [warned' > warned => recent]_vars
    <2> SUFFICES ASSUME IInv, RecentInv, [Next]_vars, warned' > warned PROVE recent
      BY DEF LaterInv
    <2>0. TypeOK /\ warned \in Nat
      BY DEF IInv, TypeOK
    <2>1. HealthTimeout
      <3>1. warned' = warned \/ warned' = 0 \/ HealthTimeout
        BY DEF Next, vars, sensor_task, processing_task, telemetry_task, do_cmd, SensorTake,
               SensorSend, SensorGive, SensorBeat, ProcTake, ProcReceive, ProcSend, ProcBeat,
               TelemReceive, TelemBeat, fault_inject, SystemReset, Pass,
               prvSensorTimerCallback, SensorDelayOver, health
      <3> QED BY <2>0, <3>1
    <2>2. due["health"] = 0
      BY <2>1 DEF HealthTimeout
    <2> QED BY <2>2 DEF RecentInv, Watch
  <1> QED BY <1>1, SpecLater, PTL DEF Spec, NoFalseAlarm
=============================================================================
