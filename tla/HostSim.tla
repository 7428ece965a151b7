------------------------------ MODULE HostSim ------------------------------
(***************************************************************************)
(* The host simulator: src/ecu_sim.c driven by src/host_main.c.  A sensor  *)
(* thread feeds the sensor queue, a processor thread turns samples into    *)
(* frames on the telemetry queue, a logger thread prints them, a watchdog  *)
(* thread runs beside them, and the main thread starts, resets and stops   *)
(* the four.                                                               *)
(*                                                                         *)
(* Grain.  A critical section is one action: state_mutex and the queues'   *)
(* mutexes protect all they guard, and a queue is the FIFO that MsgQueue   *)
(* shows src/queue.c to be.  The one unguarded shared field,               *)
(* sensor_sequence, is read and written in two actions.  Between any two   *)
(* actions of a thread the others may run.                                 *)
(*                                                                         *)
(* Data.  A sample is the order in which it was made (id, a ghost), the    *)
(* sequence number it carries and its fault_code; a frame carries its      *)
(* sample's.  Left out: what the watchdog measures, the queue depths       *)
(* stored in the snapshot (overwritten before anyone reads them), steps    *)
(* that only sleep or print.                                               *)
(***************************************************************************)
EXTENDS Integers, Sequences, FiniteSets

CONSTANTS Capacity,   (* of each queue; 24 in ecu_create                   *)
          BurstLen,   (* samples per round of a queue overflow; 4          *)
          FaultModes, (* the modes the fault command can set               *)
          MaxMade,    (* bound: samples made in one behaviour              *)
          MaxResets,  (* bound: reset commands in one behaviour            *)
          MaxFaults   (* bound: fault commands in one behaviour            *)

ASSUME HostAssumption ==
    /\ Capacity \in Nat \ {0}
    /\ BurstLen \in Nat \ {0}
    /\ MaxMade \in Nat /\ MaxResets \in Nat /\ MaxFaults \in Nat
    /\ "none" \in FaultModes

VARIABLES pc,        (* pc[t]: where thread t is                           *)
          hand,      (* hand[t]: the sample or frame t works on            *)
          queue,     (* queue[q]: sensor_queue and telemetry_queue         *)
          fault_mode, sensor_sequence, stop_requested,
          counter,   (* counter[k]: the snapshot's counters                *)
          latest,    (* id of the sample whose values the snapshot's       *)
                     (* last_* fields show, 0 if none                      *)
          mode,      (* sensor thread: the fault mode of this round        *)
          burst,     (* sensor thread: i of the overflow loop              *)
          reg,       (* sensor thread: sensor_sequence as read             *)
          resets, faults,  (* commands so far                              *)
          (* Ghosts: nothing in the program reads them.                    *)
          made,      (* samples made since the start                       *)
          logged,    (* id of the last frame printed, 0 if none            *)
          printed,   (* number of frames printed                           *)
          flushed,   (* flushed[q]: items queue_clear took out of q        *)
          old,       (* old[k]: what counter[k] lost to resets             *)
          resetAt,   (* made, when the latest reset zeroed the counters    *)
          faultAt    (* made, when the latest fault command took effect    *)

commands == <<fault_mode, stop_requested, resets, faults, resetAt, faultAt>>
snapshot == <<counter, latest, old>>
round    == <<mode, burst, reg>>
making   == <<sensor_sequence, made>>
output   == <<logged, printed>>
vars == <<pc, hand, queue, flushed, commands, snapshot, round, making, output>>

Producers == {"sensor", "processor"}
Poppers   == {"processor", "logger"}
Workers   == {"sensor", "processor", "logger", "watchdog"}
Threads   == Workers \cup {"main"}
Queues    == {"sensor_queue", "telemetry_queue"}
Counters  == {"samples", "frames", "sensor_drops", "telemetry_drops"}

\* Which queue a thread pushes to and pops from, and what it counts.
Into == [sensor |-> "sensor_queue", processor |-> "telemetry_queue"]
From == [processor |-> "sensor_queue", logger |-> "telemetry_queue"]
Accepted == [sensor |-> "samples", processor |-> "frames"]
\* Mutant: both threads count into sensor_drops.
Refused_Swapped == [sensor |-> "sensor_drops", processor |-> "sensor_drops"]
Refused  == [sensor |-> "sensor_drops", processor |-> "telemetry_drops"]

Blank == [id |-> 0, seq |-> 0, bad |-> FALSE]

Step(t, a, b) == pc[t] = a /\ pc' = [pc EXCEPT ![t] = b]
Grab(t, v)    == hand' = [hand EXCEPT ![t] = v]
Count(k)      == counter' = [counter EXCEPT ![k] = @ + 1]

-----------------------------------------------------------------------------
\* ecu_create, then main before ecu_start.
Init == /\ pc = [t \in Threads |-> IF t = "main" THEN "start" ELSE "unborn"]
        /\ hand = [t \in Workers |-> Blank]
        /\ queue = [q \in Queues |-> <<>>]
        /\ fault_mode = "none" /\ sensor_sequence = 0 /\ stop_requested = FALSE
        /\ counter = [k \in Counters |-> 0] /\ latest = 0
        /\ mode = "none" /\ burst = 0 /\ reg = 0
        /\ resets = 0 /\ faults = 0
        /\ made = 0 /\ logged = 0 /\ printed = 0
        /\ flushed = [q \in Queues |-> 0] /\ old = [k \in Counters |-> 0]
        /\ resetAt = 0 /\ faultAt = 0

(***************************************************************************)
(* Every thread: while (!stop_requested) { ... }                           *)
(***************************************************************************)
Body == [sensor |-> "mode", processor |-> "pop", logger |-> "pop",
         watchdog |-> "loop"]

\* The bound: once MaxMade samples are made the sensor sleeps until the stop.
MayMake == made < MaxMade \/ stop_requested

Loop(t) == /\ t = "sensor" => MayMake
           /\ Step(t, "loop", IF stop_requested THEN "done" ELSE Body[t])
           /\ UNCHANGED <<hand, queue, flushed, commands, snapshot, round, making, output>>

(***************************************************************************)
(* queue_push and what follows it, in the sensor and processor threads     *)
(***************************************************************************)
\* Mutant: one item too many is let in.
Room_OneTooMany(q) == Len(queue[q]) <= Capacity
Room(q) == Len(queue[q]) < Capacity

Push(t) ==
    /\ \/ /\ Room(Into[t])
          /\ Step(t, "push", "update")
          /\ queue' = [queue EXCEPT ![Into[t]] = Append(@, hand[t])]
       \/ /\ ~Room(Into[t])
          /\ Step(t, "push", "drop")
          /\ UNCHANGED queue
    /\ UNCHANGED <<hand, flushed, commands, snapshot, round, making, output>>

\* A round of the sensor loop is over: its locals are dead.
EndRound(a) == Step("sensor", a, "loop") /\ mode' = "none" /\ burst' = 0

\* On to the next sample of a burst, or to the next round.
Continue(t, a) ==
    /\ Grab(t, Blank)
    /\ \/ /\ t = "processor"
          /\ Step(t, a, "loop")
          /\ UNCHANGED round
       \/ /\ t = "sensor" /\ mode = "overflow"
          /\ Step(t, a, "next")
          /\ burst' = burst + 1
          /\ UNCHANGED <<mode, reg>>
       \/ /\ t = "sensor" /\ mode # "overflow"
          /\ EndRound(a)
          /\ UNCHANGED reg

\* An accepted push: prvUpdateFromSample and prvUpdateFromFrame, under state_mutex.
Update(t) ==
    /\ Continue(t, "update")
    /\ Count(Accepted[t])
    /\ latest' = hand[t].id
    /\ UNCHANGED <<queue, flushed, commands, old, making, output>>

\* A refused one.
prvIncrementDrop(t) ==
    /\ Continue(t, "drop")
    /\ Count(Refused[t])
    /\ UNCHANGED <<queue, flushed, commands, latest, old, making, output>>

(***************************************************************************)
(* queue_pop, in the processor and logger threads                          *)
(***************************************************************************)
\* Mutant: the slot before tail is read, and head is moved.
Oldest_Newest(s) == s[Len(s)]
Oldest(s) == Head(s)

Pop(t) == LET q == From[t] IN
    /\ pc[t] \in {"pop", "wait"} /\ queue[q] # <<>>
    /\ Grab(t, Oldest(queue[q]))
    /\ queue' = [queue EXCEPT ![q] = Tail(@)]
    /\ Step(t, pc[t], IF t = "logger" THEN "print" ELSE "push")
    /\ UNCHANGED <<flushed, commands, snapshot, round, making, output>>

Wait(t) == /\ queue[From[t]] = <<>>
           /\ Step(t, "pop", "wait")
           /\ UNCHANGED <<hand, queue, flushed, commands, snapshot, round, making, output>>

\* Mutants: the wait is unbounded; the thread gives up after one that ran out.
Timeout_Never(t) == FALSE /\ UNCHANGED vars

Timeout_Exit(t) ==
    /\ Step(t, "wait", "done")
    /\ UNCHANGED <<hand, queue, flushed, commands, snapshot, round, making, output>>

\* The 250 or 300 ms are over: beat and continue.
Timeout(t) == /\ Step(t, "wait", "loop")
              /\ UNCHANGED <<hand, queue, flushed, commands, snapshot, round, making, output>>

\* The logger prints its frame, under log_mutex.
LoggerPrint ==
    /\ Step("logger", "print", "loop")
    /\ Grab("logger", Blank)
    /\ logged' = hand["logger"].id /\ printed' = printed + 1
    /\ UNCHANGED <<queue, flushed, commands, snapshot, round, making>>

(***************************************************************************)
(* The rest of prvSensorThread                                             *)
(***************************************************************************)
\* The mode of the round, read once under state_mutex and used after it.
SensorMode ==
    /\ Step("sensor", "mode", IF fault_mode = "overflow" THEN "next" ELSE "load")
    /\ mode' = fault_mode /\ burst' = 0
    /\ UNCHANGED <<hand, queue, flushed, commands, snapshot, reg, making, output>>

\* i < 4 && !stop_requested.  Mutant: the stop is not looked at.
BurstGoesOn_NoStop == burst < BurstLen
BurstGoesOn == burst < BurstLen /\ ~stop_requested

SensorNext ==
    /\ \/ /\ BurstGoesOn /\ MayMake
          /\ Step("sensor", "next", "load")
          /\ UNCHANGED <<mode, burst>>
       \/ /\ ~BurstGoesOn
          /\ EndRound("next")
    /\ UNCHANGED <<hand, queue, flushed, commands, snapshot, reg, making, output>>

\* ++sim->sensor_sequence without a lock: a read and a write.
SensorLoad ==
    /\ Step("sensor", "load", "store")
    /\ reg' = sensor_sequence
    /\ UNCHANGED <<hand, queue, flushed, commands, snapshot, mode, burst, making, output>>

\* Mutant: the new number is used but not stored back.
Stored_Not == sensor_sequence
Stored == reg + 1

SensorStore ==
    /\ Step("sensor", "store", "make")
    /\ reg' = reg + 1
    /\ sensor_sequence' = Stored
    /\ UNCHANGED <<hand, queue, flushed, commands, snapshot, mode, burst, made, output>>

\* The fault mode is read a second time.  Mutant: the round's mode is used.
fault_code_OfRound == mode = "sensor"
fault_code == fault_mode = "sensor"

prvMakeSensorSample ==
    /\ Step("sensor", "make", "push")
    /\ made' = made + 1 /\ reg' = 0
    /\ Grab("sensor", [id |-> made + 1, seq |-> reg, bad |-> fault_code])
    /\ UNCHANGED <<queue, flushed, commands, snapshot, mode, burst, sensor_sequence, output>>

(***************************************************************************)
(* The main thread                                                         *)
(***************************************************************************)
\* ecu_start creates the four threads in turn; one not yet created is one not
\* yet scheduled.
ecu_start ==
    /\ pc["main"] = "start"
    /\ pc' = [t \in Threads |-> IF t = "main" THEN "cmd" ELSE "loop"]
    /\ UNCHANGED <<hand, queue, flushed, commands, snapshot, round, making, output>>

ecu_set_fault(m) ==
    /\ Step("main", "cmd", "cmd")
    /\ faults < MaxFaults /\ faults' = faults + 1
    /\ fault_mode' = m /\ faultAt' = made
    /\ UNCHANGED <<hand, queue, flushed, stop_requested, resets, resetAt, snapshot, round,
                   making, output>>

\* queue_clear(q), on the main thread's way from a to b.
queue_clear(q, a, b) ==
    /\ Step("main", a, b)
    /\ queue' = [queue EXCEPT ![q] = <<>>]
    /\ flushed' = [flushed EXCEPT ![q] = @ + Len(queue[q])]
    /\ UNCHANGED <<hand, commands, snapshot, round, making, output>>

\* ecu_reset up to the first queue_clear: prvInitSnapshot and the sequence
\* number, under state_mutex.
ecu_reset ==
    /\ Step("main", "cmd", "reset_sensor")
    /\ resets < MaxResets /\ resets' = resets + 1
    /\ counter' = [k \in Counters |-> 0] /\ latest' = 0 /\ sensor_sequence' = 0
    /\ old' = [k \in Counters |-> old[k] + counter[k]] /\ resetAt' = made
    /\ UNCHANGED <<hand, queue, flushed, fault_mode, stop_requested, faults, faultAt, round,
                   made, output>>

\* ecu_stop up to the first queue_clear: quit, exit or the end of the input.
ecu_stop ==
    /\ Step("main", "cmd", "stop_sensor")
    /\ stop_requested' = TRUE
    /\ UNCHANGED <<hand, queue, flushed, fault_mode, resets, faults, resetAt, faultAt,
                   snapshot, round, making, output>>

\* pthread_join of every thread, then ecu_destroy, whose own ecu_stop finds
\* started = false.
JoinAndDestroy ==
    /\ \A t \in Workers : pc[t] = "done"
    /\ Step("main", "join", "exited")
    /\ UNCHANGED <<hand, queue, flushed, commands, snapshot, round, making, output>>

-----------------------------------------------------------------------------
Thread(t) == \/ Loop(t)
             \/ t \in Producers /\ (Push(t) \/ Update(t) \/ prvIncrementDrop(t))
             \/ t \in Poppers /\ (Pop(t) \/ Wait(t) \/ Timeout(t))
             \/ t = "logger" /\ LoggerPrint
             \/ t = "sensor" /\ \/ SensorMode \/ SensorNext \/ SensorLoad
                                \/ SensorStore \/ prvMakeSensorSample

\* The steps the main thread takes by itself, and those a command asks for.
Main == \/ ecu_start
        \/ queue_clear("sensor_queue", "reset_sensor", "reset_telemetry")
        \/ queue_clear("telemetry_queue", "reset_telemetry", "cmd")
        \/ queue_clear("sensor_queue", "stop_sensor", "stop_telemetry")
        \/ queue_clear("telemetry_queue", "stop_telemetry", "join")
        \/ JoinAndDestroy

Command == (\E m \in FaultModes : ecu_set_fault(m)) \/ ecu_reset \/ ecu_stop

Exited == pc["main"] = "exited" /\ UNCHANGED vars

Next == (\E t \in Workers : Thread(t)) \/ Main \/ Command \/ Exited

\* Every thread is scheduled some day and every wait of queue_pop ends some
\* day; nobody has to type a command.
Fairness == WF_vars(Main) /\ \A t \in Workers : WF_vars(Thread(t))

Spec == Init /\ [][Next]_vars /\ Fairness

-----------------------------------------------------------------------------
(***************************************************************************)
(* Properties.                                                             *)
(***************************************************************************)
Sample == [id : Nat, seq : Nat, bad : BOOLEAN]

Labels == [sensor    |-> {"unborn", "loop", "mode", "next", "load", "store", "make",
                          "push", "update", "drop", "done"},
           processor |-> {"unborn", "loop", "pop", "wait", "push", "update", "drop",
                          "done"},
           logger    |-> {"unborn", "loop", "pop", "wait", "print", "done"},
           watchdog  |-> {"unborn", "loop", "done"},
           main      |-> {"start", "cmd", "reset_sensor", "reset_telemetry",
                          "stop_sensor", "stop_telemetry", "join", "exited"}]

PcOK    == /\ pc = [t \in Threads |-> pc[t]]
           /\ \A t \in Threads : pc[t] \in Labels[t]
QueueOK == /\ queue \in [Queues -> Seq(Sample)] /\ hand \in [Workers -> Sample]
           /\ \A q \in Queues : Len(queue[q]) <= Capacity
TallyOK == counter \in [Counters -> Nat] /\ old \in [Counters -> Nat]
           /\ flushed \in [Queues -> Nat]
PlainOK == /\ fault_mode \in FaultModes /\ mode \in FaultModes
           /\ stop_requested \in BOOLEAN /\ burst \in 0..BurstLen
           /\ resets \in 0..MaxResets /\ faults \in 0..MaxFaults
           /\ sensor_sequence \in Nat /\ reg \in Nat /\ latest \in Nat /\ made \in Nat
           /\ logged \in Nat /\ printed \in Nat /\ resetAt \in Nat /\ faultAt \in Nat

\* Every variable has its type; in particular no queue outgrows its capacity.
TypeOK == PcOK /\ QueueOK /\ TallyOK /\ PlainOK

InHand(t, labels) == IF pc[t] \in labels THEN 1 ELSE 0
Total(k) == old[k] + counter[k]
Queued(q) == Len(queue[q]) + flushed[q]

\* Every sample prvSensorThread makes is counted once, as a sample or as a
\* drop, through resets that zero the counters meanwhile.
SensorAccount ==
    made = Total("samples") + Total("sensor_drops")
           + InHand("sensor", {"push", "update", "drop"})

\* Every sample that entered the sensor queue became a frame or a drop, is
\* queued, is in the processor's hands or was flushed.  The sensor counts a
\* sample after pushing it, so the processor may be ahead of the counter.
ProcessorAccount ==
    Total("samples") + InHand("sensor", {"update"}) =
       Total("frames") + Total("telemetry_drops")
       + InHand("processor", {"push", "update", "drop"})
       + Queued("sensor_queue")

\* Every frame that entered the telemetry queue is printed, queued, in the
\* logger's hands or flushed.
LoggerAccount ==
    Total("frames") + InHand("processor", {"update"}) =
       printed + InHand("logger", {"print"}) + Queued("telemetry_queue")

\* End to end, nothing is lost or counted twice, whatever the interleaving of
\* the four threads with resets and the stop.
Accounting == SensorAccount /\ ProcessorAccount /\ LoggerAccount

\* What is on its way through the pipeline.
Working == {t \in Workers : pc[t] \in {"push", "print"}}
InFlight == (UNION {{queue[q][i] : i \in DOMAIN queue[q]} : q \in Queues})
            \cup {hand[t] : t \in Working}

\* A fault command is obeyed by the first sample made after it returns, even
\* one made in a round, or a burst, that began under the former mode.
FlagsFollowFault ==
    \A s \in InFlight : s.id > faultAt => s.bad = (fault_mode = "sensor")

\* The gap between two sequence numbers is the number of samples between them,
\* so drops show as gaps.  One sample made across a reset is exempt: the reset
\* zeroes sensor_sequence between the sensor's unlocked use of it and the push.
SequencesDense ==
    \A s, t \in InFlight :
        resetAt + 1 < s.id /\ s.id < t.id => t.seq - s.seq = t.id - s.id

\* Frames are printed in the order their samples were made, each at most once.
PrintedInOrder == [][printed' # printed => logged' > logged]_vars

\* When ecu_destroy frees the queues, each holds at most the one item its
\* producer had in hand when stop_requested was set: the threads stop pushing
\* at once, in the middle of a burst too.
StopIsPrompt ==
    pc["main"] = "exited" => \A q \in Queues : Len(queue[q]) <= 1

\* ecu_stop gets every thread to return, although its queue_clear wakes nobody
\* who waits in queue_pop.
StopTerminates == stop_requested ~> pc["main"] = "exited"

\* No sample is stuck: until the stop, each one that enters the pipeline is
\* printed, dropped or flushed.
SamplesLeave ==
    \A n \in 1..MaxMade :
        (\E s \in InFlight : s.id = n)
            ~> (stop_requested \/ ~\E s \in InFlight : s.id = n)

\* What the report says of the reset command: it "atomically zeroes all
\* counters and flushes both queues".  Then a frame printed after the command
\* returned was sampled after it began.
ResetFlushes ==
    [][ printed' # printed /\ pc["main"] \notin {"reset_sensor", "reset_telemetry"}
        => logged' > resetAt ]_vars

\* What the status command says of the last_* fields: "Latest temp" and so on,
\* "latest values".  They never go back to an older sample.
LatestIsLatest == [][latest' >= latest \/ latest' = 0]_vars
============================================================================
