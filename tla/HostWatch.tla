----------------------------- MODULE HostWatch -----------------------------
(***************************************************************************)
(* The heartbeats and the watchdog thread of ecu_sim.c, in time: how old   *)
(* the beats of the three pipeline threads get, what prvWatchdogThread     *)
(* says of them, and what a reset or a blocked output does to both.        *)
(*                                                                         *)
(* Time.  The unit is 30 ms, which divides 90, 180, 300, 750 and the       *)
(* deadlines; 250 and 500 ms are rounded.  Nothing but waiting takes time: *)
(* Pass needs every thread asleep, waiting or held up.                     *)
(*                                                                         *)
(* Grain.  A section under a mutex is one action, but for two: prvBeat's,  *)
(* which shares its counter with a memset under another mutex, and what    *)
(* prints under log_mutex, which lasts while nobody reads the output.      *)
(*                                                                         *)
(* Data.  A sample is its sequence number modulo 8, a frame nothing.  The  *)
(* drops and the other counters, the bursts of FAULT_QUEUE_OVERFLOW and    *)
(* the stop are in HostSim.                                                *)
(***************************************************************************)
EXTENDS Integers, Sequences, FiniteSets, TLC

CONSTANTS Capacity,     (* of each queue; 24                               *)
          MaxEvents     (* bound: commands, and times the output blocks    *)

ASSUME WatchAssumption == Capacity \in Nat \ {0} /\ MaxEvents \in Nat

Modes   == {"none", "sensor", "stall"}
Watched == {"sensor", "processor", "logger"}
Threads == Watched \cup {"watchdog"}

VARIABLES pc,           (* pc[t]: where thread t, or main, is              *)
          due,          (* due[t]: time until t's sleep or wait ends       *)
          age,          (* age[t]: time since last_beat[t]                 *)
          beat_initialized,  (* the threads it is set for                  *)
          beats,        (* beats[t]: the reset from which t's counter in
                           the snapshot counts; 0 is the start             *)
          reg,          (* reg[t]: what t's ++ has read of beats[t]; else 0 *)
          beat_mutex, log_mutex,  (* who holds each, or "free"             *)
          checks,       (* watchdog: the check it is at, 1..4              *)
          last,         (* watchdog: the age of the beat it copied, till it
                           has judged it                                   *)
          queue,        (* the sensor queue                                *)
          frames,       (* number of frames in the telemetry queue         *)
          sequence,     (* sensor_sequence, modulo 8                       *)
          fault_mode,
          clogged,      (* whether printing blocks                         *)
          commands, clogs,   (* so far: for the bounds                     *)
          (* Ghosts: nothing in the program reads them.                    *)
          resets,       (* resets so far                                   *)
          caught,       (* threads the latest memset caught in their ++    *)
          stalls,       (* commands "fault stall" so far                   *)
          alarms,       (* warnings before the output first blocked        *)
          told          (* the threads since whose latest beat a warning was
                           counted, or at which one waited to be printed   *)

slots    == <<age, beat_initialized>>
counters == <<beats, reg, resets, caught>>
checking == <<checks, last>>
data     == <<queue, frames, sequence>>
control  == <<fault_mode, commands, stalls>>
output   == <<clogged, clogs>>
verdicts == <<alarms, told>>
vars == <<pc, due, slots, counters, beat_mutex, log_mutex, checking, data,
          control, output, verdicts>>

Deadline_Short == [sensor |-> 30, processor |-> 26, logger |-> 40]  \* Mutant: 800 ms.
Deadline   == [sensor |-> 30, processor |-> 30, logger |-> 40]  \* 900, 900, 1200 ms
Stall      == 25        \* 750 ms
SampleWait == 9         \* 250 ms
FrameWait  == 10        \* 300 ms
CheckEvery == 17        \* 500 ms
Old        == 60        \* bound: ages from here on are one

SleepAfter(mode) == IF mode = "stall" THEN 3 ELSE 6   \* 90, 180 ms

-----------------------------------------------------------------------------
\* ecu_create and ecu_start: each thread is about to beat for the first time.
Init == /\ pc = [t \in Threads \cup {"main"} |-> IF t = "main" THEN "idle" ELSE "start"]
        /\ due = [t \in Threads |-> 0] /\ age = [t \in Watched |-> Old]
        /\ beat_initialized = {}
        /\ beats = [t \in Threads |-> 0] /\ reg = [t \in Threads |-> 0]
        /\ beat_mutex = "free" /\ log_mutex = "free" /\ checks = 1 /\ last = 0
        /\ queue = <<>> /\ frames = 0 /\ sequence = 0 /\ fault_mode = "none"
        /\ clogged = FALSE /\ commands = 0 /\ clogs = 0 /\ resets = 0 /\ caught = {}
        /\ stalls = 0 /\ alarms = 0 /\ told = {}

Step(t, a, b) == pc[t] = a /\ pc' = [pc EXCEPT ![t] = b]
For(t, d)     == due' = [due EXCEPT ![t] = d]

(***************************************************************************)
(* prvBeat and prvLog                                                      *)
(***************************************************************************)
\* prvBeat up to its ++: the clock, the lock, the slot, and the counter's value.
BeatStore(t) ==
    /\ Step(t, "beat", "count") \/ Step(t, "start", "count")
    /\ beat_mutex = "free" /\ beat_mutex' = t
    /\ IF t \in Watched THEN /\ age' = [age EXCEPT ![t] = 0]
                             /\ beat_initialized' = beat_initialized \cup {t}
                             /\ told' = (told \ {t}) \cup
                                        (IF pc["watchdog"] = "log" THEN {t} ELSE {})
                        ELSE UNCHANGED <<slots, told>>
    /\ reg' = [reg EXCEPT ![t] = beats[t]]
    /\ UNCHANGED <<due, beats, resets, caught, log_mutex, checking, data, control,
                   output, alarms>>

\* What t waits in after a beat; the sleeps' lengths were fixed before it.
AfterBeat == [sensor |-> "sleep", watchdog |-> "sleep", processor |-> "pop",
              logger |-> "pop"]
WaitFor(t) == CASE t = "processor" -> SampleWait [] t = "logger" -> FrameWait
                [] OTHER -> due[t]

\* The counter is written back, and the mutex released.
BeatCount(t) ==
    /\ Step(t, "count", AfterBeat[t])
    /\ beats' = [beats EXCEPT ![t] = reg[t]] /\ reg' = [reg EXCEPT ![t] = 0]
    /\ beat_mutex' = "free"
    /\ For(t, WaitFor(t))
    /\ UNCHANGED <<slots, resets, caught, log_mutex, checking, data, control,
                   output, verdicts>>

AfterLog == [sensor |-> "make", processor |-> "stall", logger |-> "beat",
             watchdog |-> "look"]

\* A print under log_mutex: by prvLog, or of a frame.
Log(t) ==
    /\ ~clogged /\ log_mutex \in {"free", t}
    /\ Step(t, "log", AfterLog[t])
    /\ log_mutex' = "free"
    /\ IF t = "processor" THEN For(t, Stall) ELSE UNCHANGED due
    /\ UNCHANGED <<slots, counters, beat_mutex, checking, data, control, output,
                   verdicts>>

\* It blocks, with log_mutex held.
LogBlocks(t) ==
    /\ clogged /\ pc[t] = "log"
    /\ log_mutex = "free" /\ log_mutex' = t
    /\ UNCHANGED <<pc, due, slots, counters, beat_mutex, checking, data, control,
                   output, verdicts>>

(***************************************************************************)
(* The pipeline                                                            *)
(***************************************************************************)
Ends(t, a, b) == due[t] = 0 /\ Step(t, a, b)

\* The loop's head.  A round under FAULT_SENSOR_FAILURE logs at each tenth
\* sample: here, it may.
SensorRound ==
    /\ \/ Ends("sensor", "sleep", "make")
       \/ fault_mode = "sensor" /\ Ends("sensor", "sleep", "log")
    /\ For("sensor", SleepAfter(fault_mode))
    /\ UNCHANGED <<slots, counters, beat_mutex, log_mutex, checking, data, control,
                   output, verdicts>>

\* Mutant: the queue is full one item late.
SensorPush_OneTooMany ==
    /\ Step("sensor", "make", "beat")
    /\ sequence' = (sequence + 1) % 8
    /\ queue' = IF Len(queue) <= Capacity THEN Append(queue, sequence') ELSE queue
    /\ UNCHANGED <<due, slots, counters, beat_mutex, log_mutex, checking, frames,
                   control, output, verdicts>>

SensorPush ==
    /\ Step("sensor", "make", "beat")
    /\ sequence' = (sequence + 1) % 8
    /\ queue' = IF Len(queue) < Capacity THEN Append(queue, sequence') ELSE queue
    /\ UNCHANGED <<due, slots, counters, beat_mutex, log_mutex, checking, frames,
                   control, output, verdicts>>

\* queue_pop succeeds, at once or after a wait; each eighth sample is stalled,
\* which is logged first.
ProcessorPop ==
    /\ queue # <<>> /\ queue' = Tail(queue)
    /\ Step("processor", "pop",
            IF fault_mode = "stall" /\ Head(queue) = 0 THEN "log" ELSE "push")
    /\ For("processor", 0)
    /\ UNCHANGED <<slots, counters, beat_mutex, log_mutex, checking, frames,
                   sequence, control, output, verdicts>>

StallOver == /\ Ends("processor", "stall", "push")
             /\ UNCHANGED <<due, slots, counters, beat_mutex, log_mutex, checking, data,
                            control, output, verdicts>>

ProcessorPush ==
    /\ Step("processor", "push", "beat")
    /\ frames' = IF frames < Capacity THEN frames + 1 ELSE frames
    /\ UNCHANGED <<due, slots, counters, beat_mutex, log_mutex, checking, queue,
                   sequence, control, output, verdicts>>

LoggerPop ==
    /\ frames > 0 /\ frames' = frames - 1
    /\ Step("logger", "pop", "log")
    /\ For("logger", 0)
    /\ UNCHANGED <<slots, counters, beat_mutex, log_mutex, checking, queue,
                   sequence, control, output, verdicts>>

\* queue_pop gives up, though an item may have come at the last moment: a beat all
\* the same.
PopTimeout(t) ==
    /\ Ends(t, "pop", "beat")
    /\ UNCHANGED <<due, slots, counters, beat_mutex, log_mutex, checking, data,
                   control, output, verdicts>>

(***************************************************************************)
(* The watchdog thread                                                     *)
(***************************************************************************)
Order == <<"sensor", "processor", "logger">>

WatchdogWakes == /\ Ends("watchdog", "sleep", "look")
                 /\ checks' = 1
                 /\ UNCHANGED <<due, slots, counters, beat_mutex, log_mutex, last, data,
                                control, output, verdicts>>

\* prvWarnIfOverdue up to the unlock; a thread that has not beaten is passed over.
CopyBeat ==
    /\ pc["watchdog"] = "look" /\ checks <= 3 /\ beat_mutex = "free"
    /\ IF Order[checks] \in beat_initialized
       THEN /\ pc' = [pc EXCEPT !["watchdog"] = "judge"]
            /\ last' = age[Order[checks]] /\ UNCHANGED checks
       ELSE checks' = checks + 1 /\ UNCHANGED <<pc, last>>
    /\ UNCHANGED <<due, slots, counters, beat_mutex, log_mutex, data, control, output,
                   verdicts>>

\* The clock is read, and the age compared.
JudgeBeat ==
    /\ pc["watchdog"] = "judge"
    /\ IF last > Deadline[Order[checks]]
       THEN Step("watchdog", "judge", "warn") /\ UNCHANGED checks
       ELSE Step("watchdog", "judge", "look") /\ checks' = checks + 1
    /\ last' = 0
    /\ UNCHANGED <<due, slots, counters, beat_mutex, log_mutex, data, control,
                   output, verdicts>>

\* Mutant: it is counted once it is printed, so not while the output blocks.
Warn_LogFirst ==
    /\ Step("watchdog", "warn", "log") /\ checks' = checks + 1
    /\ told' = IF clogged THEN told ELSE Watched
    /\ alarms' = IF clogs = 0 THEN alarms + 1 ELSE alarms
    /\ UNCHANGED <<due, slots, counters, beat_mutex, log_mutex, last, data, control,
                   output>>

\* watchdog_warnings is counted, then printed.
Warn ==
    /\ Step("watchdog", "warn", "log") /\ checks' = checks + 1
    /\ told' = Watched /\ alarms' = IF clogs = 0 THEN alarms + 1 ELSE alarms
    /\ UNCHANGED <<due, slots, counters, beat_mutex, log_mutex, last, data, control,
                   output>>

WatchdogDone ==
    /\ checks = 4 /\ Step("watchdog", "look", "beat")
    /\ For("watchdog", CheckEvery)
    /\ UNCHANGED <<slots, counters, beat_mutex, log_mutex, checking, data, control,
                   output, verdicts>>

(***************************************************************************)
(* The main thread, the output and time                                    *)
(***************************************************************************)
More == commands + clogs < MaxEvents
Command(b) == More /\ commands' = commands + 1 /\ Step("main", "idle", b)

ecu_set_fault(m) ==
    /\ Command("print")
    /\ fault_mode' = m
    /\ stalls' = IF m = "stall" THEN stalls + 1 ELSE stalls
    /\ UNCHANGED <<due, slots, counters, beat_mutex, log_mutex, checking, data, output,
                   verdicts>>

\* Mutant: only the pipeline's counters are zeroed.
ecu_reset_Three ==
    /\ Command("clear_sensor")
    /\ resets' = resets + 1
    /\ beats' = [t \in Threads |-> IF t \in Watched THEN resets + 1 ELSE beats[t]]
    /\ caught' = {t \in Threads : pc[t] = "count"}
    /\ sequence' = 0
    /\ UNCHANGED <<due, slots, reg, beat_mutex, log_mutex, checking, queue, frames,
                   fault_mode, stalls, output, verdicts>>

\* ecu_reset, first section: the snapshot and the sequence number, under
\* state_mutex and not under beat_mutex.
ecu_reset ==
    /\ Command("clear_sensor")
    /\ resets' = resets + 1 /\ beats' = [t \in Threads |-> resets + 1]
    /\ caught' = {t \in Threads : pc[t] = "count"}
    /\ sequence' = 0
    /\ UNCHANGED <<due, slots, reg, beat_mutex, log_mutex, checking, queue, frames,
                   fault_mode, stalls, output, verdicts>>

queue_clear ==
    /\ \/ Step("main", "clear_sensor", "clear_telemetry") /\ queue' = <<>> /\ UNCHANGED frames
       \/ Step("main", "clear_telemetry", "clear_beats") /\ frames' = 0 /\ UNCHANGED queue
    /\ UNCHANGED <<due, slots, counters, beat_mutex, log_mutex, checking, sequence,
                   control, output, verdicts>>

\* Mutant: only last_beat is cleared, to the epoch.
prvClearBeats_Slots ==
    /\ Step("main", "clear_beats", "print") /\ beat_mutex = "free"
    /\ age' = [t \in Watched |-> Old]
    /\ UNCHANGED <<due, beat_initialized, counters, beat_mutex, log_mutex, checking,
                   data, control, output, verdicts>>

\* prvClearBeats, and what follows it.
prvClearBeats ==
    /\ Step("main", "clear_beats", "print") /\ beat_mutex = "free"
    /\ age' = [t \in Watched |-> Old] /\ beat_initialized' = {}
    /\ UNCHANGED <<due, counters, beat_mutex, log_mutex, checking, data, control,
                   output, verdicts>>

\* What the command prints.
MainPrint == /\ ~clogged /\ Step("main", "print", "idle")
             /\ UNCHANGED <<due, slots, counters, beat_mutex, log_mutex, checking, data,
                            control, output, verdicts>>

\* Whoever reads the output stops reading, and goes on.
Clog == /\ ~clogged /\ More /\ clogs' = clogs + 1
        /\ clogged' = TRUE
        /\ UNCHANGED <<pc, due, slots, counters, beat_mutex, log_mutex, checking, data,
                       control, verdicts>>
Unclog == /\ clogged /\ clogged' = FALSE
          /\ UNCHANGED <<pc, due, slots, counters, beat_mutex, log_mutex, checking, data,
                         control, clogs, verdicts>>

\* Whether a thread has something to do now.
Ready(t) == CASE pc[t] \in {"sleep", "stall"} -> due[t] = 0
              [] pc[t] = "pop" -> \/ due[t] = 0
                                  \/ IF t = "processor" THEN queue # <<>> ELSE frames > 0
              [] pc[t] = "log" -> log_mutex = "free" \/ (log_mutex = t /\ ~clogged)
              [] pc[t] = "idle" -> FALSE
              [] pc[t] = "print" -> ~clogged
              [] OTHER -> TRUE

Waiting == {t \in Threads : pc[t] \in {"sleep", "stall", "pop"}}
Least(S) == CHOOSE n \in S : \A m \in S : n <= m
Older(n, d) == IF n + d < Old THEN n + d ELSE Old

\* Time goes on to the next sleep or wait that ends.  Commands in between do
\* what they do at the one or the other end.
Pass == /\ \A t \in Threads \cup {"main"} : ~Ready(t)
        /\ LET d == Least({due[t] : t \in Waiting} \cup {Old}) IN
             /\ due' = [t \in Threads |-> IF t \in Waiting THEN due[t] - d ELSE due[t]]
             /\ age' = [t \in Watched |-> Older(age[t], d)]
        /\ UNCHANGED <<pc, beat_initialized, counters, beat_mutex, log_mutex, checking,
                       data, control, output, verdicts>>

-----------------------------------------------------------------------------
\* The pipeline's threads run one at a time, each until it waits or begins its
\* loop anew: their own interleavings are the subject of HostSim.
Busy(t) == Ready(t) /\ pc[t] \notin {"start", "sleep", "pop", "stall", "log"}
Turn(t) == t \in Watched => \A u \in Watched \ {t} : ~Busy(u)

prvSensorThread    == Turn("sensor") /\ (SensorRound \/ SensorPush)
prvProcessorThread == Turn("processor") /\ (\/ ProcessorPop \/ StallOver
                                            \/ ProcessorPush \/ PopTimeout("processor"))
prvLoggerThread    == Turn("logger") /\ (LoggerPop \/ PopTimeout("logger"))
prvWatchdogThread  == WatchdogWakes \/ CopyBeat \/ JudgeBeat \/ Warn \/ WatchdogDone

Elsewhere ==
    \/ \E t \in Threads : Turn(t) /\ (BeatStore(t) \/ Log(t) \/ LogBlocks(t))
    \/ prvSensorThread \/ prvProcessorThread \/ prvLoggerThread \/ prvWatchdogThread
    \/ \E m \in Modes : ecu_set_fault(m)
    \/ queue_clear \/ prvClearBeats \/ MainPrint \/ Clog \/ Unclog \/ Pass

\* Between the two steps of prvBeat only the memset can come: all else leaves
\* that counter alone, or waits for beat_mutex.
Unlocked == beat_mutex = "free"

Next == \/ ecu_reset \/ \E t \in Threads : BeatCount(t)
        \/ Unlocked /\ Elsewhere

Spec == Init /\ [][Next]_vars

-----------------------------------------------------------------------------
Labels == [sensor    |-> {"start", "beat", "count", "sleep", "make", "log"},
           processor |-> {"start", "beat", "count", "pop", "log", "stall", "push"},
           logger    |-> {"start", "beat", "count", "pop", "log"},
           watchdog  |-> {"start", "beat", "count", "sleep", "look", "judge", "warn", "log"},
           main      |-> {"idle", "print", "clear_sensor", "clear_telemetry", "clear_beats"}]

\* The types, where each thread can be, the capacity of the queues, and that
\* the watchdog goes no further than its third check.
TypeOK ==
    /\ DOMAIN pc = Threads \cup {"main"} /\ \A t \in DOMAIN pc : pc[t] \in Labels[t]
    /\ due \in [Threads -> Nat] /\ age \in [Watched -> Nat]
    /\ beats \in [Threads -> Nat] /\ reg \in [Threads -> Nat]
    /\ beat_mutex \in Threads \cup {"free"} /\ log_mutex \in Threads \cup {"free"}
    /\ checks \in 1..4 /\ (pc["watchdog"] \in {"judge", "warn"} => checks <= 3)
    /\ last \in Nat
    /\ queue \in Seq(0..7) /\ Len(queue) <= Capacity /\ frames \in 0..Capacity
    /\ sequence \in 0..7 /\ fault_mode \in Modes /\ clogged \in BOOLEAN
    /\ beat_initialized \subseteq Watched /\ told \subseteq Watched /\ caught \subseteq Threads
    /\ commands \in Nat /\ clogs \in Nat /\ commands + clogs <= MaxEvents
    /\ resets \in Nat /\ stalls \in Nat /\ alarms \in Nat

\* While its output is read, the watchdog warns at most once per "fault stall",
\* of a stall that began after a long wait for its sample: prvWarnIfOverdue never
\* sees the stalls that follow, nor a pause or a reset.  (No time passes here between
\* its copy of a beat and its judgement.)
AlarmsNeedStalls == alarms <= stalls

\* Once a thread has not beaten for its deadline and a period of the watchdog, a
\* warning has been counted since it beat: its own, or that of another thread held
\* up by the same blocked output, as the watchdog then blocks in prvLog too.  Only
\* a thread that a reset made prvWarnIfOverdue forget may go uncounted.
LatenessIsCounted ==
    \A t \in beat_initialized : age[t] > Deadline[t] + CheckEvery => t \in told

\* After a reset each beat counter starts anew: the increment under beat_mutex
\* and the memset under state_mutex lose only the zero of a thread in between.
ResetZeroesBeats == \A t \in Threads : beats[t] # resets => t \in caught
=============================================================================
