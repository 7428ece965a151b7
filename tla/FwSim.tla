------------------------------- MODULE FwSim -------------------------------
(***************************************************************************)
(* The STM32 firmware, firmware/src/main.c: a timer kicks the sensor task  *)
(* through a binary semaphore, samples and frames pass two FreeRTOS        *)
(* queues, a watchdog task waits for three heartbeat bits and the          *)
(* diagnostics task runs its list of commands and exits.                   *)
(*                                                                         *)
(* Scheduling.  One core, fixed priorities, preemption and time slicing: a *)
(* task takes a step only when every task of higher priority is blocked.   *)
(* Ticks, delays and timeouts may come at any moment.                      *)
(*                                                                         *)
(* Grain.  A kernel call is one action, and so is a section under          *)
(* state_mutex or the console mutex: a task that finds the mutex taken     *)
(* blocks, and the holder inherits its priority and finishes first.        *)
(*                                                                         *)
(* Data.  A sample is its sequence number, which no reset takes back, and  *)
(* its valid flag; a frame carries its sample's.  Left out: the beat       *)
(* counters, last_sample and last_frame, and what is only printed.         *)
(***************************************************************************)
EXTENDS Integers, Sequences, FiniteSets

CONSTANTS Capacity,    (* of each queue; 6                                 *)
          BurstLen,    (* samples per tick of FAULT_OVERFLOW; 3            *)
          StallEvery,  (* FAULT_STALL holds up each such sample; 6         *)
          Script,      (* the commands of prvDiagnosticsTask               *)
          MaxTicks,    (* bound: ticks of the sensor timer                 *)
          MaxTimeouts  (* bound: waits of the watchdog that time out       *)

FaultModes == {"none", "overflow", "sensor", "stall"}
Commands   == FaultModes \cup {"reset", "stats", "show"}

ASSUME FwAssumption ==
    /\ Capacity \in Nat \ {0} /\ BurstLen \in Nat \ {0} /\ StallEvery \in Nat \ {0}
    /\ Script \in Seq(Commands)
    /\ MaxTicks \in Nat /\ MaxTimeouts \in Nat

VARIABLES pc,        (* pc[t]: where task t is                             *)
          hand,      (* hand[t]: the sample or frame t works on            *)
          queue,     (* queue[q]: xSensorQueue and xTelemetryQueue         *)
          kick,      (* whether the semaphore sensor_kick is given         *)
          bits,      (* heartbeat_events: the tasks whose bit is set       *)
          fault_mode, counter,  (* xStats                                  *)
          sequence,  (* sensor task: the last sequence number              *)
          left,      (* sensor task: samples still to make in this round   *)
          at,        (* diagnostics task: index of the next command        *)
          ticks, timeouts,  (* ticks and expired waits so far: for bounds  *)
          (* Ghosts: nothing in the program reads them.                    *)
          printed,   (* sequence numbers of the frames printed, in order   *)
          flushed,   (* flushed[q]: items xQueueReset took out of q        *)
          old,       (* old[k]: what counter[k] lost to resets             *)
          resetAt,   (* sequence, when the latest reset zeroed xStats      *)
          shown,     (* what prvPrintStats has read, and what was made then*)
          beaten,    (* tasks that beat since the bits were last cleared   *)
          vouched    (* what beaten was when the watchdog last saw all bits*)

pipeline == <<hand, queue, flushed, printed>>
stats    == <<fault_mode, counter, old, resetAt>>
events   == <<bits, beaten, vouched, timeouts>>
sensor   == <<kick, sequence, left, ticks>>
vars == <<pc, pipeline, stats, events, sensor, at, shown>>

Monitored == {"sensor", "processor", "logger"}
Tasks     == Monitored \cup {"watchdog", "diag"}
Queues    == {"xSensorQueue", "xTelemetryQueue"}
Counters  == {"samples", "frames", "sensor_drops", "telemetry_drops",
              "sensor_faults", "warnings"}

Into     == [sensor |-> "xSensorQueue", processor |-> "xTelemetryQueue"]
From     == [processor |-> "xSensorQueue", logger |-> "xTelemetryQueue"]
Accepted == [sensor |-> "samples", processor |-> "frames"]
Refused  == [sensor |-> "sensor_drops", processor |-> "telemetry_drops"]

Blank   == [seq |-> 0, bad |-> FALSE]
Nothing == [samples |-> 0, made |-> 0]

-----------------------------------------------------------------------------
(***************************************************************************)
(* FreeRTOS: who runs                                                      *)
(***************************************************************************)
\* Mutant: the diagnostics task gets the sensor task's priority.
Priority_DiagHigh == [sensor |-> 3, processor |-> 2, logger |-> 1, watchdog |-> 2, diag |-> 3]
Priority == [sensor |-> 3, processor |-> 2, logger |-> 1, watchdog |-> 2, diag |-> 1]

\* A task in a kernel call that cannot return yet.  What ends a stall, a wait
\* or a delay moves the task to another label.
Blocked(t) == \/ pc[t] = "take" /\ ~kick
              \/ pc[t] = "receive" /\ queue[From[t]] = <<>>
              \/ pc[t] \in {"stall", "wait", "delay"}

On == pc["diag"] # "exited"

Runs(t) == On /\ ~Blocked(t) /\ \A u \in Tasks : Priority[u] > Priority[t] => Blocked(u)

Step(t, a, b) == Runs(t) /\ pc[t] = a /\ pc' = [pc EXCEPT ![t] = b]
Grab(t, v)    == hand' = [hand EXCEPT ![t] = v]
Count(k)      == counter' = [counter EXCEPT ![k] = @ + 1]

\* main, up to vTaskStartScheduler; every task is about to make its first
\* blocking call.
Init == /\ pc = [sensor |-> "take", processor |-> "receive", logger |-> "receive",
                 watchdog |-> "call", diag |-> "delay"]
        /\ hand = [t \in Monitored |-> Blank]
        /\ queue = [q \in Queues |-> <<>>]
        /\ kick = FALSE /\ bits = {} /\ fault_mode = "none"
        /\ counter = [k \in Counters |-> 0]
        /\ sequence = 0 /\ left = 0 /\ at = 1 /\ ticks = 0 /\ timeouts = 0
        /\ printed = <<>> /\ beaten = {} /\ vouched = {}
        /\ flushed = [q \in Queues |-> 0] /\ old = [k \in Counters |-> 0]
        /\ resetAt = 0 /\ shown = Nothing

(***************************************************************************)
(* Heartbeats and the watchdog task                                        *)
(***************************************************************************)
AfterBeat == [sensor |-> "mode", processor |-> "check", logger |-> "print"]

\* What an event group does when it hands all three bits over: seen is who
\* beat since they were last cleared.
HandOver(seen) == bits' = {} /\ vouched' = seen /\ beaten' = {} /\ UNCHANGED timeouts

\* xEventGroupSetBits: the bit that completes the set wakes a watchdog that
\* waits, and clears the bits for it there and then.
prvRecordHeartbeat(t) ==
    /\ Runs(t) /\ pc[t] = "beat"
    /\ \/ /\ pc["watchdog"] = "wait" /\ bits \cup {t} = Monitored
          /\ HandOver(beaten \cup {t})
          /\ pc' = [pc EXCEPT ![t] = AfterBeat[t], !["watchdog"] = "healthy"]
       \/ /\ ~(pc["watchdog"] = "wait" /\ bits \cup {t} = Monitored)
          /\ bits' = bits \cup {t} /\ beaten' = beaten \cup {t}
          /\ pc' = [pc EXCEPT ![t] = AfterBeat[t]]
          /\ UNCHANGED <<vouched, timeouts>>
    /\ UNCHANGED <<pipeline, stats, sensor, at, shown>>

\* Mutant: xClearOnExit is pdFALSE.
AllBits_Keep(a) == /\ bits = Monitored /\ Step("watchdog", a, "healthy")
                   /\ vouched' = beaten /\ beaten' = {}
                   /\ UNCHANGED <<bits, timeouts>>

\* xEventGroupWaitBits for all three bits, cleared on exit.  A wait that timed
\* out looks once more, as the bits may have come before the task runs again.
AllBits(a) == /\ bits = Monitored /\ Step("watchdog", a, "healthy")
              /\ HandOver(beaten)

WaitBits ==
    /\ \/ AllBits("call")
       \/ bits # Monitored /\ Step("watchdog", "call", "wait") /\ UNCHANGED events
       \/ AllBits("late")
       \/ bits # Monitored /\ Step("watchdog", "late", "warn") /\ UNCHANGED events
    /\ UNCHANGED <<pipeline, stats, sensor, at, shown>>

Healthy == /\ Step("watchdog", "healthy", "call")
           /\ UNCHANGED <<pipeline, stats, events, sensor, at, shown>>

\* The 1000 ms are over.
WaitTimesOut == /\ On /\ pc["watchdog"] = "wait"
                /\ timeouts < MaxTimeouts /\ timeouts' = timeouts + 1
                /\ pc' = [pc EXCEPT !["watchdog"] = "late"]
                /\ UNCHANGED <<pipeline, stats, bits, beaten, vouched, sensor, at, shown>>

Warn == /\ Step("watchdog", "warn", "call")
        /\ Count("warnings")
        /\ UNCHANGED <<pipeline, fault_mode, old, resetAt, events, sensor, at, shown>>

(***************************************************************************)
(* The sensor task                                                         *)
(***************************************************************************)
\* prvSensorTimerCallback, in the timer task, which preempts all others.  A
\* semaphore that is already given stays given: the tick is lost.
Tick == /\ On /\ ticks < MaxTicks /\ ticks' = ticks + 1
        /\ kick' = TRUE
        /\ UNCHANGED <<pc, pipeline, stats, events, sequence, left, at, shown>>

SensorTake == /\ Step("sensor", "take", "beat")
              /\ kick' = FALSE
              /\ UNCHANGED <<pipeline, stats, events, sequence, left, ticks, at, shown>>

SensorMode == /\ Step("sensor", "mode", "make")
              /\ left' = IF fault_mode = "overflow" THEN BurstLen ELSE 1
              /\ UNCHANGED <<pipeline, stats, events, kick, sequence, ticks, at, shown>>

prvMakeSample ==
    /\ Step("sensor", "make", "send")
    /\ sequence' = sequence + 1 /\ left' = left - 1
    /\ Grab("sensor", [seq |-> sequence + 1, bad |-> fault_mode = "sensor"])
    /\ UNCHANGED <<queue, flushed, printed, stats, events, kick, ticks, at, shown>>

(***************************************************************************)
(* xQueueSend without waiting, and what follows it                         *)
(***************************************************************************)
\* Mutant: the queue is full one item late.
Room_OneTooMany(q) == Len(queue[q]) <= Capacity
Room(q) == Len(queue[q]) < Capacity

Send(t) ==
    /\ \/ /\ Room(Into[t])
          /\ Step(t, "send", "count")
          /\ queue' = [queue EXCEPT ![Into[t]] = Append(@, hand[t])]
       \/ /\ ~Room(Into[t])
          /\ Step(t, "send", "drop")
          /\ UNCHANGED queue
    /\ UNCHANGED <<hand, flushed, printed, stats, events, sensor, at, shown>>

\* The next sample of the round, or the next blocking call.
Again(t) == IF t = "processor" THEN "receive" ELSE IF left > 0 THEN "make" ELSE "take"

\* prvUpdateStatsFromSample and prvUpdateStatsFromFrame, or prvIncrementDrop.
Settle(t, a, k) ==
    /\ Step(t, a, Again(t))
    /\ Grab(t, Blank)
    /\ Count(k)
    /\ UNCHANGED <<queue, flushed, printed, fault_mode, old, resetAt, events,
                   sensor, at, shown>>

\* Mutant: a refused item is counted as if it had been accepted.
prvIncrementDrop_Swapped(t) == Settle(t, "drop", Accepted[t])
prvIncrementDrop(t) == Settle(t, "drop", Refused[t])
prvUpdateStats(t)   == Settle(t, "count", Accepted[t])

(***************************************************************************)
(* The processor and logger tasks                                          *)
(***************************************************************************)
\* Mutant: the newest item is received.
Oldest_Newest(s) == s[Len(s)]
Oldest(s) == Head(s)

xQueueReceive(t) == LET q == From[t] IN
    /\ Step(t, "receive", "beat")
    /\ Grab(t, Oldest(queue[q]))
    /\ queue' = [queue EXCEPT ![q] = Tail(@)]
    /\ UNCHANGED <<flushed, printed, stats, events, sensor, at, shown>>

\* An invalid sample is counted and passed on.
ProcessorCheck ==
    /\ Step("processor", "check", "mode")
    /\ IF hand["processor"].bad THEN Count("sensor_faults") ELSE UNCHANGED counter
    /\ UNCHANGED <<pipeline, fault_mode, old, resetAt, events, sensor, at, shown>>

ProcessorMode ==
    /\ Step("processor", "mode",
            IF fault_mode = "stall" /\ hand["processor"].seq % StallEvery = 0
            THEN "stall" ELSE "send")
    /\ UNCHANGED <<pipeline, stats, events, sensor, at, shown>>

\* The 450 ms are over.
StallOver == /\ On /\ pc["processor"] = "stall"
             /\ pc' = [pc EXCEPT !["processor"] = "send"]
             /\ UNCHANGED <<pipeline, stats, events, sensor, at, shown>>

prvPrintFrame == /\ Step("logger", "print", "receive")
                 /\ printed' = Append(printed, hand["logger"].seq)
                 /\ Grab("logger", Blank)
                 /\ UNCHANGED <<queue, flushed, stats, events, sensor, at, shown>>

(***************************************************************************)
(* The diagnostics task                                                    *)
(***************************************************************************)
\* vTaskDelay of 1500 ms at first, of 100 ms after each command.
DelayOver == /\ On /\ pc["diag"] = "delay"
             /\ pc' = [pc EXCEPT !["diag"] = "cmd"]
             /\ UNCHANGED <<pipeline, stats, events, sensor, at, shown>>

Given(c) == at <= Len(Script) /\ Script[at] = c

\* A command that only prints, from a copy of xStats made under state_mutex.
Show == /\ Given("show")
        /\ Step("diag", "cmd", "delay") /\ at' = at + 1
        /\ UNCHANGED <<pipeline, stats, events, sensor, shown>>

\* prvPrintStats reads xStats as it goes, without the mutex: the samples, and
\* after it has printed them the drops.
StatsSamples ==
    /\ Given("stats")
    /\ Step("diag", "cmd", "stats")
    /\ shown' = [samples |-> counter["samples"], made |-> sequence - resetAt]
    /\ UNCHANGED <<pipeline, stats, events, sensor, at>>

StatsDrops ==
    /\ Step("diag", "stats", "delay") /\ at' = at + 1
    /\ shown' = Nothing
    /\ UNCHANGED <<pipeline, stats, events, sensor>>

prvSetFault(m) ==
    /\ Given(m)
    /\ Step("diag", "cmd", "delay") /\ at' = at + 1
    /\ fault_mode' = m
    /\ UNCHANGED <<pipeline, counter, old, resetAt, events, sensor, shown>>

\* prvResetStats up to the first xQueueReset: the memset under state_mutex.
prvResetStats ==
    /\ Given("reset")
    /\ Step("diag", "cmd", "reset_sensor")
    /\ counter' = [k \in Counters |-> 0] /\ fault_mode' = "none"
    /\ old' = [k \in Counters |-> old[k] + counter[k]] /\ resetAt' = sequence
    /\ UNCHANGED <<pipeline, events, sensor, at, shown>>

xQueueReset(q, a, b) ==
    /\ Step("diag", a, b)
    /\ queue' = [queue EXCEPT ![q] = <<>>]
    /\ flushed' = [flushed EXCEPT ![q] = @ + Len(queue[q])]
    /\ UNCHANGED <<hand, printed, stats, events, sensor, at, shown>>

ClearBits == /\ Step("diag", "reset_bits", "delay") /\ at' = at + 1
             /\ bits' = {} /\ beaten' = {}
             /\ UNCHANGED <<pipeline, stats, vouched, timeouts, sensor, shown>>

\* exit(0) ends the program, in whatever state the other tasks are.
Exit == /\ at = Len(Script) + 1
        /\ Step("diag", "cmd", "exited")
        /\ UNCHANGED <<pipeline, stats, events, sensor, at, shown>>

-----------------------------------------------------------------------------
Producer(t) == Send(t) \/ prvUpdateStats(t) \/ prvIncrementDrop(t)

prvSensorTask    == \/ SensorTake \/ prvRecordHeartbeat("sensor") \/ SensorMode
                    \/ prvMakeSample \/ Producer("sensor")
prvProcessorTask == \/ xQueueReceive("processor") \/ prvRecordHeartbeat("processor")
                    \/ ProcessorCheck \/ ProcessorMode \/ Producer("processor")
prvLoggerTask    == \/ xQueueReceive("logger") \/ prvRecordHeartbeat("logger")
                    \/ prvPrintFrame
prvWatchdogTask  == WaitBits \/ Healthy \/ Warn
prvDiagnosticsTask ==
    \/ Show \/ StatsSamples \/ StatsDrops
    \/ \E m \in FaultModes : prvSetFault(m)
    \/ prvResetStats
    \/ xQueueReset("xSensorQueue", "reset_sensor", "reset_telemetry")
    \/ xQueueReset("xTelemetryQueue", "reset_telemetry", "reset_bits")
    \/ ClearBits
    \/ Exit

Exited == ~On /\ UNCHANGED vars

Next == \/ prvSensorTask \/ prvProcessorTask \/ prvLoggerTask \/ prvWatchdogTask
        \/ prvDiagnosticsTask
        \/ Tick \/ WaitTimesOut \/ StallOver \/ DelayOver \/ Exited

\* The scheduler runs a task of the highest ready priority and shares the
\* processor among equals (configUSE_TIME_SLICING), and delays end.  Nobody has
\* to tick or to time out.
Fairness == /\ WF_vars(prvSensorTask) /\ WF_vars(prvProcessorTask)
            /\ WF_vars(prvLoggerTask) /\ WF_vars(prvWatchdogTask)
            /\ WF_vars(prvDiagnosticsTask)
            /\ WF_vars(StallOver) /\ WF_vars(DelayOver)

Spec == Init /\ [][Next]_vars /\ Fairness

-----------------------------------------------------------------------------
Labels == [sensor    |-> {"take", "beat", "mode", "make", "send", "count", "drop"},
           processor |-> {"receive", "beat", "check", "mode", "stall", "send", "count",
                          "drop"},
           logger    |-> {"receive", "beat", "print"},
           watchdog  |-> {"call", "wait", "late", "healthy", "warn"},
           diag      |-> {"delay", "cmd", "stats", "reset_sensor",
                          "reset_telemetry", "reset_bits", "exited"}]

Items == [seq : Nat, bad : BOOLEAN]

\* The types, the capacity of the queues, and where a task can be.
TypeOK ==
    /\ DOMAIN pc = Tasks /\ \A t \in Tasks : pc[t] \in Labels[t]
    /\ hand \in [Monitored -> Items]
    /\ queue \in [Queues -> Seq(Items)] /\ \A q \in Queues : Len(queue[q]) <= Capacity
    /\ kick \in BOOLEAN /\ bits \subseteq Monitored /\ fault_mode \in FaultModes
    /\ counter \in [Counters -> Nat] /\ old \in [Counters -> Nat]
    /\ flushed \in [Queues -> Nat] /\ printed \in Seq(Nat)
    /\ sequence \in Nat /\ resetAt \in Nat /\ shown \in [samples : Nat, made : Nat]
    /\ left \in 0..BurstLen + 1 /\ at \in 1..Len(Script) + 1
    /\ ticks \in 0..MaxTicks /\ timeouts \in 0..MaxTimeouts
    /\ beaten \subseteq Monitored /\ vouched \subseteq Monitored

InHand(t, labels) == IF pc[t] \in labels THEN 1 ELSE 0
Total(k) == old[k] + counter[k]
Queued(q) == Len(queue[q]) + flushed[q]

\* Every sample prvSensorTask makes is counted once, as a sample or as a drop.
SensorAccount ==
    sequence = Total("samples") + Total("sensor_drops")
               + InHand("sensor", {"send", "count", "drop"})

\* Every sample that entered xSensorQueue became a frame or a drop, is queued,
\* is in the processor's hands, stalled or not, or was flushed.
ProcessorAccount ==
    Total("samples") + InHand("sensor", {"count"}) =
       Total("frames") + Total("telemetry_drops")
       + InHand("processor", Labels["processor"] \ {"receive"})
       + Queued("xSensorQueue")

\* Every frame that entered xTelemetryQueue is printed, queued, in the logger's
\* hands or flushed.
LoggerAccount ==
    Total("frames") + InHand("processor", {"count"}) =
       Len(printed) + InHand("logger", {"beat", "print"}) + Queued("xTelemetryQueue")

\* End to end, no item is lost or counted twice, whatever the interleaving of
\* the tasks with prvResetStats, which zeroes xStats and flushes the queues in
\* separate steps.
Accounting == SensorAccount /\ ProcessorAccount /\ LoggerAccount

\* When the diagnostics task prints its counters, or zeroes them, no sample is
\* halfway: all that were made since the last reset are counted.  It is the
\* priorities that promise this, no lock does.
StatusExact ==
    Runs("diag") => counter["samples"] + counter["sensor_drops"] = sequence - resetAt

\* What prvPrintStats prints adds up, although ticks, bursts and stalls come
\* between its two unlocked reads: the samples of the one and the drops of the
\* other are no fewer than had been made by the first and no more than by the
\* second.
StatsAddUp ==
    Runs("diag") /\ pc["diag"] = "stats" =>
       shown.samples + counter["sensor_drops"] \in shown.made..(sequence - resetAt)

\* prvWatchdogTask reports "healthy" only if each of the three tasks beat since
\* the report before, and since the last reset.
HealthyMeansAllBeat == pc["watchdog"] = "healthy" => vouched = Monitored

\* prvPrintFrame prints frames in the order of their samples, each once.
PrintedInOrder == \A i, j \in DOMAIN printed : i < j => printed[i] < printed[j]

\* prvDiagnosticsTask gets to its exit, at the lowest priority: neither the
\* watchdog's loop nor the pipeline keeps the processor for good.
SelfTestEnds == <>(pc["diag"] = "exited")
============================================================================
