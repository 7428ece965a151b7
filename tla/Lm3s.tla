-------------------------------- MODULE Lm3s --------------------------------
(***************************************************************************)
(* The LM3S6965 firmware, src/main.c with ipc, tasks and fault: a timer    *)
(* kicks the sensor task, which queues a sample and gives a second binary  *)
(* semaphore for the processing task; the telemetry task prints; a health  *)
(* monitor waits for three heartbeat bits; the diagnostics task reads      *)
(* commands.                                                               *)
(*                                                                         *)
(* Scheduling.  One core, fixed priorities, preemption and time slicing: a *)
(* task takes a step only when every task of higher priority is blocked.   *)
(* The timer service is a task too, of priority 2.                         *)
(*                                                                         *)
(* Time.  The unit is 100 ms.  Nothing but waiting takes time, so Pass     *)
(* needs every task blocked but the diagnostics task, whose commands come  *)
(* when they come.  What falls due at one moment happens in any order the  *)
(* priorities allow.                                                       *)
(*                                                                         *)
(* Grain.  A kernel call is one action, with the computation before it; so *)
(* is a section under xUartMutex, whose holder inherits the priority of    *)
(* who waits.  The health monitor has the highest priority of all: it is   *)
(* always back in its wait before another task moves.                      *)
(*                                                                         *)
(* Data.  A sample is good, too hot, or the sentinel of a failed sensor.   *)
(* Left out: xSystemEventGroup, which nobody reads, and what is only       *)
(* printed.                                                                *)
(***************************************************************************)
EXTENDS Integers, Sequences, FiniteSets

CONSTANTS Capacity,     (* of each queue; 10                               *)
          MaxCommands   (* bound: commands between two restarts            *)

ASSUME Lm3sAssumption ==
    /\ Capacity \in Nat /\ Capacity >= 3
    /\ MaxCommands \in Nat

Faults  == {"none", "process", "overflow", "sensor"}
Samples == {"good", "hot", "sentinel"}
Frames  == [data : Samples, valid : BOOLEAN]

VARIABLES pc,           (* pc[t]: where task t is                          *)
          hand,         (* hand[t]: the sample or frame task t works on    *)
          xSensorQueue, xTelemetryQueue,
          xSensorKickSem, xDataReadySem,  (* whether each is given         *)
          xHeartbeatEvents,               (* the tasks whose bit is set    *)
          g_active_fault,
          due,          (* due[c]: time until clock c expires              *)
          (* Ghosts: nothing in the program reads them.                    *)
          commands,     (* commands since the start: for the bound         *)
          recoveries,   (* delays that ended after their fault was lifted  *)
          warned,       (* health warnings since the latest delay began    *)
          recent        (* whether a delay ended, or goes on, at this time *)

queues == <<hand, xSensorQueue, xTelemetryQueue>>
sems   == <<xSensorKickSem, xDataReadySem>>
health == <<xHeartbeatEvents, warned>>
control == <<g_active_fault, commands>>
delays == <<recoveries, recent>>
vars == <<pc, queues, sems, health, control, delays, due>>

Beating == {"sensor", "proc", "telem"}
Clocks  == {"timer", "sensor", "health", "diag"}

Period == 1            \* of the sensor timer, 100 ms
Watch_Long == 20       \* Mutant: the health monitor waits two seconds.
Watch  == 10           \* of the health monitor, 1000 ms
Delay  == 30           \* FAULT_TASK_DELAY, 3000 ms
Boot   == 5            \* before the first command, 500 ms

-----------------------------------------------------------------------------
(***************************************************************************)
(* FreeRTOS: who runs                                                      *)
(***************************************************************************)
\* Mutant: the diagnostics task has the sensor's priority.
Priority_DiagHigh == [sensor |-> 3, proc |-> 3, telem |-> 2, timer |-> 2, diag |-> 3]
Priority == [sensor |-> 3, proc |-> 3, telem |-> 2, timer |-> 2, diag |-> 1]

\* A task in a kernel call that cannot return yet.
Blocked(t) == CASE t = "sensor" -> \/ pc[t] = "delay"
                                   \/ pc[t] = "take" /\ ~xSensorKickSem
                [] t = "proc"   -> pc[t] = "take" /\ ~xDataReadySem
                [] t = "telem"  -> pc[t] = "receive" /\ xTelemetryQueue = <<>>
                [] OTHER        -> due[t] > 0

Runs(t) == ~Blocked(t) /\ \A u \in DOMAIN Priority \ {"diag"} :
                             Priority[u] > Priority[t] => Blocked(u)

Step(t, a, b) == Runs(t) /\ pc[t] = a /\ pc' = [pc EXCEPT ![t] = b]

\* Reset_Handler, main and ipc_init, up to the scheduler's start.
StartPc   == [sensor |-> "take", proc |-> "take", telem |-> "receive"]
StartHand == [proc |-> "good", telem |-> [data |-> "good", valid |-> TRUE]]
StartDue  == [timer |-> Period, sensor |-> 0, health |-> Watch, diag |-> Boot]

Init == /\ pc = StartPc /\ hand = StartHand /\ due = StartDue
        /\ xSensorQueue = <<>> /\ xTelemetryQueue = <<>>
        /\ xSensorKickSem = FALSE /\ xDataReadySem = FALSE
        /\ xHeartbeatEvents = {} /\ g_active_fault = "none"
        /\ commands = 0 /\ recoveries = 0 /\ warned = 0 /\ recent = FALSE

(***************************************************************************)
(* Time and the health monitor                                             *)
(***************************************************************************)
\* Time goes on once everything due has happened.
Pass == /\ \A t \in Beating \cup {"timer"} : Blocked(t)
        /\ due["health"] > 0 /\ (pc["sensor"] = "delay" => due["sensor"] > 0)
        /\ due' = [c \in Clocks |-> IF due[c] > 0 THEN due[c] - 1 ELSE 0]
        /\ recent' = (pc["sensor"] = "delay")
        /\ UNCHANGED <<pc, queues, sems, health, control, recoveries>>

\* prvSensorTimerCallback, in the timer task.  A semaphore that is already given
\* stays given: the tick is lost.
prvSensorTimerCallback ==
    /\ Runs("timer")
    /\ xSensorKickSem' = TRUE
    /\ due' = [due EXCEPT !["timer"] = Period]
    /\ UNCHANGED <<pc, queues, xDataReadySem, health, control, delays>>

\* xEventGroupSetBits, and what a set that is complete sets off: the health
\* monitor preempts, prints "OK" and waits anew, the bits cleared.
xEventGroupSetBits(t) ==
    IF xHeartbeatEvents \cup {t} = Beating
    THEN xHeartbeatEvents' = {} /\ due' = [due EXCEPT !["health"] = Watch]
    ELSE xHeartbeatEvents' = xHeartbeatEvents \cup {t} /\ UNCHANGED due

\* The wait of 1000 ms is over: a warning, and the wait anew.  The bits that are
\* set stay set.
HealthTimeout ==
    /\ due["health"] = 0
    /\ due' = [due EXCEPT !["health"] = Watch]
    /\ warned' = warned + 1
    /\ UNCHANGED <<pc, queues, sems, xHeartbeatEvents, control, delays>>

(***************************************************************************)
(* The sensor task                                                         *)
(***************************************************************************)
SensorTake ==
    /\ Step("sensor", "take", IF g_active_fault = "process" THEN "delay" ELSE "send")
    /\ xSensorKickSem' = FALSE
    /\ IF g_active_fault = "process"
       THEN due' = [due EXCEPT !["sensor"] = Delay] /\ warned' = 0 /\ recent' = TRUE
       ELSE UNCHANGED <<due, warned, recent>>
    /\ UNCHANGED <<queues, xDataReadySem, xHeartbeatEvents, control, recoveries>>

\* vTaskDelay returns.
SensorDelayOver ==
    /\ pc["sensor"] = "delay" /\ due["sensor"] = 0
    /\ pc' = [pc EXCEPT !["sensor"] = "send"]
    /\ recoveries' = IF g_active_fault = "process" THEN recoveries ELSE recoveries + 1
    /\ UNCHANGED <<queues, sems, health, control, recent, due>>

\* Whether xQueueSend without waiting finds room.
\* Mutant: the queue is full one item late.
Room_OneTooMany(q) == Len(q) <= Capacity
Room(q) == Len(q) < Capacity

\* What is sent to a full queue is lost: nobody looks at the result.
Sent(q, item) == IF Room(q) THEN Append(q, item) ELSE q

SensorSend ==
    /\ Step("sensor", "send", "give")
    /\ \E data \in IF g_active_fault = "sensor" THEN {"sentinel"} ELSE {"good", "hot"} :
           xSensorQueue' = Sent(xSensorQueue, data)
    /\ UNCHANGED <<hand, xTelemetryQueue, sems, health, control, delays, due>>

\* Mutant: the semaphore is not given.
SensorGive_Not == /\ Step("sensor", "give", "beat")
                  /\ UNCHANGED <<queues, sems, health, control, delays, due>>

\* A semaphore already given stays given: two samples, one token.
SensorGive == /\ Step("sensor", "give", "beat")
              /\ xDataReadySem' = TRUE
              /\ UNCHANGED <<queues, xSensorKickSem, health, control, delays, due>>

SensorBeat == /\ Step("sensor", "beat", "take")
              /\ xEventGroupSetBits("sensor")
              /\ UNCHANGED <<queues, sems, warned, control, delays>>

(***************************************************************************)
(* The processing task                                                     *)
(***************************************************************************)
\* Mutant: the take does not consume the token.
ProcTake_Keep == /\ Step("proc", "take", "receive")
                 /\ UNCHANGED <<queues, sems, health, control, delays, due>>
ProcTake == /\ Step("proc", "take", "receive")
            /\ xDataReadySem' = FALSE
            /\ UNCHANGED <<queues, xSensorKickSem, health, control, delays, due>>

\* Mutant: the sample is peeked at, and stays queued.
ProcReceive_Peek ==
    /\ xSensorQueue # <<>>
    /\ Step("proc", "receive", "send")
    /\ hand' = [hand EXCEPT !["proc"] = Head(xSensorQueue)]
    /\ UNCHANGED <<xSensorQueue, xTelemetryQueue, sems, health, control, delays, due>>

\* xQueueReceive without waiting; with nothing there the task only beats.
ProcReceive ==
    /\ Step("proc", "receive", IF xSensorQueue = <<>> THEN "beat" ELSE "send")
    /\ IF xSensorQueue = <<>> THEN UNCHANGED <<hand, xSensorQueue>>
       ELSE /\ hand' = [hand EXCEPT !["proc"] = Head(xSensorQueue)]
            /\ xSensorQueue' = Tail(xSensorQueue)
    /\ UNCHANGED <<xTelemetryQueue, sems, health, control, delays, due>>

\* The verdict on a sample: it looks at the temperature, which the sentinel
\* exceeds too, and at the fault of the moment.
Judged(data) ==
    [data |-> data, valid |-> data = "good" /\ g_active_fault # "sensor"]

ProcSend ==
    /\ Step("proc", "send", "beat")
    /\ xTelemetryQueue' = Sent(xTelemetryQueue, Judged(hand["proc"]))
    /\ UNCHANGED <<hand, xSensorQueue, sems, health, control, delays, due>>

ProcBeat == /\ Step("proc", "beat", "take")
            /\ xEventGroupSetBits("proc")
            /\ UNCHANGED <<queues, sems, warned, control, delays>>

(***************************************************************************)
(* The telemetry task                                                      *)
(***************************************************************************)
TelemReceive ==
    /\ Step("telem", "receive", "beat")
    /\ hand' = [hand EXCEPT !["telem"] = Head(xTelemetryQueue)]
    /\ xTelemetryQueue' = Tail(xTelemetryQueue)
    /\ UNCHANGED <<xSensorQueue, sems, health, control, delays, due>>

\* Mutant: the heartbeat is inside a branch for valid frames.
TelemBeat_Valid ==
    /\ Step("telem", "beat", "receive")
    /\ IF hand["telem"].valid THEN xEventGroupSetBits("telem")
                              ELSE UNCHANGED <<xHeartbeatEvents, due>>
    /\ UNCHANGED <<queues, sems, warned, control, delays>>

\* The frame is printed, then the heartbeat.
TelemBeat == /\ Step("telem", "beat", "receive")
             /\ xEventGroupSetBits("telem")
             /\ UNCHANGED <<queues, sems, warned, control, delays>>

(***************************************************************************)
(* The diagnostics task                                                    *)
(***************************************************************************)
\* do_cmd: fault_inject or fault_clear.
fault_inject(f) ==
    /\ Runs("diag")
    /\ commands < MaxCommands /\ commands' = commands + 1
    /\ g_active_fault' = f
    /\ UNCHANGED <<pc, queues, sems, health, delays, due>>

\* do_cmd "reset" asks the chip for a reset: everything starts anew.
SystemReset ==
    /\ Runs("diag") /\ commands > 0
    /\ pc' = StartPc /\ hand' = StartHand /\ due' = StartDue
    /\ xSensorQueue' = <<>> /\ xTelemetryQueue' = <<>>
    /\ xSensorKickSem' = FALSE /\ xDataReadySem' = FALSE
    /\ xHeartbeatEvents' = {} /\ g_active_fault' = "none"
    /\ commands' = 0 /\ recoveries' = 0 /\ warned' = 0 /\ recent' = FALSE

-----------------------------------------------------------------------------
sensor_task     == SensorTake \/ SensorSend \/ SensorGive \/ SensorBeat
processing_task == ProcTake \/ ProcReceive \/ ProcSend \/ ProcBeat
telemetry_task  == TelemReceive \/ TelemBeat
do_cmd          == (\E f \in Faults : fault_inject(f)) \/ SystemReset

Next == \/ sensor_task \/ processing_task \/ telemetry_task \/ do_cmd
        \/ Pass \/ prvSensorTimerCallback \/ HealthTimeout \/ SensorDelayOver

\* The scheduler runs a task of the highest ready priority and shares the
\* processor among equals (configUSE_TIME_SLICING); time goes on.  Nobody has
\* to type a command.
Fairness == /\ WF_vars(sensor_task) /\ WF_vars(processing_task)
            /\ WF_vars(telemetry_task) /\ WF_vars(prvSensorTimerCallback)
            /\ WF_vars(HealthTimeout) /\ WF_vars(SensorDelayOver) /\ WF_vars(Pass)

Spec == Init /\ [][Next]_vars /\ Fairness

-----------------------------------------------------------------------------
Labels == [sensor |-> {"take", "delay", "send", "give", "beat"},
           proc   |-> {"take", "receive", "send", "beat"},
           telem  |-> {"receive", "beat"}]

\* The types, the capacity of the queues, and where a task can be.
TypeOK ==
    /\ DOMAIN pc = Beating /\ \A t \in Beating : pc[t] \in Labels[t]
    /\ DOMAIN hand = {"proc", "telem"}
    /\ hand["proc"] \in Samples /\ hand["telem"] \in Frames
    /\ xSensorQueue \in Seq(Samples) /\ Len(xSensorQueue) <= Capacity
    /\ xTelemetryQueue \in Seq(Frames) /\ Len(xTelemetryQueue) <= Capacity
    /\ xSensorKickSem \in BOOLEAN /\ xDataReadySem \in BOOLEAN
    /\ xHeartbeatEvents \subseteq Beating /\ g_active_fault \in Faults
    /\ due \in [Clocks -> 0..Delay]
    /\ commands \in 0..MaxCommands /\ recoveries \in Nat /\ warned \in Nat
    /\ recent \in BOOLEAN

\* Tokens the processing task has taken or can take.
Tokens == (IF xDataReadySem THEN 1 ELSE 0) + (IF pc["proc"] = "receive" THEN 1 ELSE 0)
Owed   == IF pc["sensor"] = "give" THEN 1 ELSE 0

\* Behind every token of xDataReadySem there is a sample of its own, also when
\* xQueueSend dropped one and the sensor gave all the same: the processing task,
\* which does not wait, never finds xSensorQueue empty.
TokenHasItem == Tokens + Owed <= Len(xSensorQueue)

\* The reverse fails, and only one way.  A sample without a token waits in
\* xSensorQueue for good; each is left by a delay whose fault was lifted before
\* its end: the sensor then has a tick in store and sends twice before the
\* processing task, its equal, has taken the first token.
LagNeedsRecovery == Runs("diag") => Len(xSensorQueue) <= recoveries

Judgements == {xTelemetryQueue[i] : i \in DOMAIN xTelemetryQueue}
              \cup (IF pc["telem"] = "beat" THEN {hand["telem"]} ELSE {})

\* The sensor's and the processing task's look at g_active_fault agree: a frame
\* is valid just if its sample is good.  As long as nothing lags, the priorities
\* let no command come between the two; samples that lag behind are judged by a
\* later fault.
VerdictMatchesData ==
    recoveries = 0 => \A f \in Judgements : f.valid = (f.data = "good")

\* A sensor task that is delayed is reported at least twice before it goes on.
StallReported ==
    [][pc["sensor"] = "delay" /\ pc'["sensor"] = "send" => warned >= 2]_vars

\* The health monitor warns of nothing but a delay, whatever the faults: not of
\* lost ticks, dropped or invalid samples, nor of the time after a recovery.
NoFalseAlarm == [][warned' > warned => recent]_vars

\* Frames are printed for ever, under each fault and after each restart.
TelemetryFlows == []<>(pc["telem"] = "beat")
=============================================================================
