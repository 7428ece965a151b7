# A verification of the ECU telemetry simulator

TLA+ modules, TLC configurations and TLAPS proofs for the telemetry simulator in
this repository. Every definition is translated from the C code; the report and
the comments are used only for the claims they make about it (see *Where the
documents and the code disagree*).

## The system

The repository holds three programs with one design: a sensor task makes samples,
a processor task turns each into a telemetry frame, a logger task prints the
frames, a watchdog looks after the three and a console injects faults.

| component | source | state it keeps | operations |
|---|---|---|---|
| host message queue | `src/queue.c` | ring `storage`, `head`, `tail`, `count`; `mutex`, `not_empty`, `not_full` | push (never blocks), pop (waits, bounded or not), clear, count |
| host pipeline | `src/ecu_sim.c` | two queues of 24, `fault_mode`, `sensor_sequence`, `stop_requested`, the snapshot's counters and `last_*` fields | the sensor, processor and logger threads |
| host control | `src/ecu_sim.c`, `src/host_main.c` | `started`, `running`, the threads | create, start, stop, reset, set fault, snapshot, destroy; the command loop |
| host watchdog | `src/ecu_sim.c` | `last_beat`, `beat_initialized`, the beat counters | beat, clear beats, warn if overdue |
| STM32 firmware | `firmware/src/main.c` | two FreeRTOS queues of 6, a binary semaphore given by a 100 ms timer, `xStats` under `state_mutex`, heartbeat event bits | five prioritised tasks, reset, fault commands, self-test |
| STM32 console | `firmware/src/console.c` | console mutex, log handle, input handle | formatted output, line input |
| LM3S firmware | `src/main.c`, `src/ipc`, `src/tasks`, `src/fault` | two queues of 10, `xDataReadySem`, heartbeat bits, `g_active_fault`, a speed accumulator | five prioritised tasks, a line-buffered console |
| runtimes | start-up, UART, semihosting, `printf.c`, syscalls, hooks | none shared | I/O, formatting, memory |

Interactions on the host: the threads share the two queues (each with its own
mutex), the snapshot and `fault_mode` (under `state_mutex`), the output (under
`log_mutex`), the beats (under `beat_mutex`) and two fields without a lock:
`stop_requested`, which is atomic, and `sensor_sequence`, which is not. The main
thread starts the four threads, resets them while they run and joins them.

What is hard there, and what makes each component correct:

* **queue**: indices that wrap and are updated separately; a consumer that may be
  waiting, woken, spuriously woken or timing out when a push signals. Correct
  means: a bounded FIFO in which no item is left to sleeping consumers.
* **pipeline**: a sample is counted after it is pushed; drops at a full queue; an
  overflow burst that outlives a change of the fault mode or a stop; samples in
  hand while a reset clears counters and queues in separate critical sections.
  Correct means: no sample lost, counted twice, reordered or mislabelled.
* **control**: the stop must end threads that are blocked in a wait it does not
  interrupt, and leave queues that can be freed.
* **watchdogs**: time, and beats that are read without the lock or cleared by a
  reset.
* **firmwares**: priorities, binary semaphores that forget ticks, event bits that
  are cleared by whoever waits, resets from the lowest-priority task.

`PROJECT.json` lists the hazards one by one, each at its line, with the properties
that would catch it.

## The modules

| module | models | role |
|---|---|---|
| `BoundedFifo` | what `queue.c` promises | abstract specification |
| `MsgQueue` | `queue.c` | detailed specification, implements `BoundedFifo` |
| `MCMsgQueue` | | instance for TLC |
| `MsgQueueProofs` | | theorems about `MsgQueue` |
| `HostSim` | `ecu_sim.c` and `host_main.c`, over two abstract queues | detailed specification |
| `MCHostSim` | | instance for TLC |
| `HostSimProofs`, `HostOrderProofs` | | theorems about `HostSim` |
| `HostWatch` | the heartbeats, the watchdog thread and the blocking output of `ecu_sim.c`, in time | detailed specification |
| `MCHostWatch` | | instance for TLC |
| `HostWatchProofs` | | theorems about `HostWatch` |
| `FwSim` | `firmware/src/main.c`, over FreeRTOS | detailed specification |
| `MCFwSim` | | instance for TLC |
| `FwSimProofs` | | theorems about `FwSim` |
| `FwTimed` | the same firmware with its durations | `FwSim` with clocks: every step is a step of `FwSim` or lets time pass |
| `MCFwTimed` | | instance for TLC |
| `FwTimedProofs` | | theorems: `FwTimed` implements `FwSim`, and what it inherits |
| `Lm3s` | `src/main.c`, `src/ipc`, `src/tasks`, `src/fault`, over FreeRTOS, in time | detailed specification |
| `MCLm3s` | | instance for TLC |
| `Lm3sProofs` | | theorems about `Lm3s` |
| `Format` | `console_writef`, `mini_vsnprintf` | operators: a number as a text |
| `Numbers` | the fixed-point arithmetic of both firmwares, and their output lines | one step per frame |
| `MCNumbers` | | instance for TLC |
| `NumbersProofs` | | theorems about `Numbers` and the operators of `Format` |

### MsgQueue

Everything `queue.c` does to the ring happens with `queue->mutex` held and takes no
other lock, so each critical section is one action: `queue_push`,
`queue_push_full`, `Take` (the pop that succeeds) and `queue_clear`. `queue_pop`
releases the mutex inside `pthread_cond_(timed)wait`, so it is several actions,
and `pc[c]` says where a consumer is: `idle`, `wait` (blocked on `not_empty`),
`woken` (has to take the mutex back and test `count` again) or `expired` (the wait
ended in ETIMEDOUT). `SignalNotEmpty` picks any waiter, also one that is `expired`: POSIX
lets `pthread_cond_timedwait` return ETIMEDOUT and consume a signal all the same. That one
is then `late`, and `missed` from its return (`PopReturnFalse` returns false without another
look at `count`, as the code does) until its next call. `SpuriousWake` is the wake-up POSIX
allows. `not_full` is left out: it is signalled, but nobody
waits on it. The clock is abstracted: a bounded wait may run out at any moment.

`Contents`, the window of `count` slots from `head` on, is the refinement mapping
to `BoundedFifo`.

### HostSim

Each thread is a program counter `pc[t]` through its function; the labels name the
next thing it does. A critical section is one action, and the unlocked
`++sim->sensor_sequence` is two (`SensorLoad`, `SensorStore`). The queues are the
FIFOs that `MsgQueue` is proved to implement; a `queue_pop` is `Pop` (there is an
item, at once or after a wait), or `Wait` and then `Pop` or `Timeout`.

* `Loop` is the head of each thread's `while (!stop_requested)`.
* `SensorMode`, `SensorNext`, `SensorLoad`, `SensorStore`, `prvMakeSensorSample`,
  `Push`, `Update` and `prvIncrementDrop` are `prvSensorThread`, with the fault
  mode read twice as the code does (once for the round, once for the sample) and
  the overflow burst with its own test of the stop.
* `Pop`, `Push`, `Update`, `prvIncrementDrop` are `prvProcessorThread`; `Pop` and
  `LoggerPrint` are `prvLoggerThread`; the watchdog thread is its loop only.
* `ecu_start`, `ecu_set_fault`, `ecu_reset` followed by two `queue_clear` steps,
  `ecu_stop` followed by two more, and `JoinAndDestroy` are the main thread.

A sample is the order in which it was made (a ghost number `id`), its sequence
number and its fault flag; its physical values are functions of the two. Other
ghosts count what was made, printed, flushed by a clear and zeroed by a reset;
no guard reads them, except the bound `MaxMade`.

Left out: durations, the deliberate stall (a sleep), printing commands, the queue
depths stored in the snapshot (`ecu_snapshot` overwrites them before anyone reads
them), `speed_kmh` of `EcuSim` (written, never read), and the beats, which `HostWatch`
has.

### HostWatch

The half of `ecu_sim.c` that `HostSim` leaves out: how old each thread's beat gets, and
what the watchdog thread makes of it. Time is `due[t]`, what remains of a sleep or a
bounded wait, and `age[t]`, how long ago `last_beat[t]` was written; `Pass` lets it go on
to the next expiry when every thread sleeps, waits or is held up by a mutex. The unit is
30 ms: the sleeps of 90, 180 and 750 ms, the wait of 300 ms and the deadlines are
multiples, the wait of 250 ms and the period of 500 ms are rounded up.

* `BeatStore` and `BeatCount` are `prvBeat`, split at its `++`: the counter lies in the
  snapshot, which `ecu_reset` zeroes under another mutex.
* `Log` and `LogBlocks` are what prints under `log_mutex`: `prvLog`, and the logger's
  frame. `Clog` and `Unclog` are whoever reads the output (a pipe, a terminal) and stops.
* `CopyBeat`, `JudgeBeat` and `Warn` are `prvWarnIfOverdue`: it copies the beat under the
  lock, reads the clock without it, and counts the warning before it logs it.
* `SensorRound` to `PopTimeout` are the pipeline as far as beats depend on it: what
  makes a thread wait, stall or log.
* `ecu_set_fault`, `ecu_reset`, two `queue_clear` and `prvClearBeats` are the commands.

`Turn` and `Unlocked` leave out interleavings that cannot matter: the pipeline's threads
share only queues, whose interleavings are `HostSim`'s subject, and between the two steps
of `prvBeat` everything but the reset either waits for `beat_mutex` or does not see the
counter.

### FwSim

The five tasks of the STM32 firmware, each with a label that says what it does
next. `Runs(t)` is the scheduler: a task takes a step when it is not `Blocked` and
every task of higher `Priority` is. The timer task has the highest priority of all,
so `Tick` may come at any moment, as may the end of a delay, of a stall or of the
watchdog's wait; there is no clock.

A kernel call is one action. So is a section under `state_mutex` or under the
console mutex: a task that finds one taken blocks, and the holder inherits its
priority and finishes. What `prvResetStats` does is therefore four actions:
`prvResetStats` (the memset), two `xQueueReset` and `ClearBits`.

* `SensorTake`, `prvRecordHeartbeat`, `SensorMode`, `prvMakeSample`, `Send` and then
  `prvUpdateStats` or `prvIncrementDrop` are one round of `prvSensorTask`; `left`
  counts the samples its round, a burst or one, has still to make.
* `xQueueReceive`, `prvRecordHeartbeat`, `ProcessorCheck`, `ProcessorMode`,
  `StallOver` and the sending are `prvProcessorTask`; `xQueueReceive`, the heartbeat
  and `prvPrintFrame` are `prvLoggerTask`.
* `WaitBits`, `WaitTimesOut`, `Healthy` and `Warn` are `prvWatchdogTask`. The bit that
  completes the set clears all three in the call that sets it, and a wait that timed
  out looks at the bits once more: both are what FreeRTOS's event groups do.
* `DelayOver`, `Show`, `prvSetFault`, the reset's four actions and `Exit` are
  `prvDiagnosticsTask`, with its list of commands as the constant `Script`. `Show` is what
  prints from a copy made under `state_mutex`; `StatsSamples` and `StatsDrops` are
  `prvPrintStats`, which reads `xStats` without it, the samples before it prints them and
  the drops after. The ghost `shown` keeps the first reading.

The kernel is external: its queues, semaphore, event group and scheduler are modelled
from the calls `main.c` makes and from `FreeRTOSConfig.h` (preemption, time slicing,
timer task on top). Left out: the beat counters, `last_sample`, `last_frame`, the
values of a sample other than its number and its validity (`Numbers` has them), and the
console's mutex and log, which no modelled state depends on.

### FwTimed

`FwSim` with a clock for each of the four things that expire: the sensor timer, the
delays of the diagnostics task, the processor's stall and the watchdog's wait. The unit is
50 ms, of which every duration of `main.c` is a multiple. `TimedTask` makes a step of
`FwSim` and starts the clock of a wait that begins; `TimedTick` and `Expiry` are the
expiries of `FwSim`, allowed only when their clock has run down; `Pass` lets time go on once
every task is blocked. So each behaviour of `FwTimed` is one of `FwSim`, and what is proved
of `FwSim` holds of it. The diagnostics task prints through the debugger, which takes as
long as it takes: its delays may start up to `MaxSlack` units late in all.

### Lm3s

The LM3S6965 firmware: the same pipeline, but the processing task is woken by a binary
semaphore, `xDataReadySem`, given beside the queue, and nobody looks at the result of
`xQueueSend`. The actions are named after the task and the kernel call: `SensorTake`,
`SensorDelayOver` (FAULT_TASK_DELAY's 3000 ms), `SensorSend`, `SensorGive`, `SensorBeat`;
`ProcTake`, `ProcReceive`, `ProcSend`, `ProcBeat`; `TelemReceive`, `TelemBeat`;
`fault_inject` is what `do_cmd` does for `fault`, and `SystemReset` its `reset`, which
restarts the chip: all memory is as `Reset_Handler` and `main` leave it. Time is `due` per
clock, in units of 100 ms. Sensor and processing task share a priority, so their steps
interleave; the health monitor, above all, is folded into the call that sets the last bit
(`xEventGroupSetBits`) or into the end of its wait (`HealthTimeout`). The queue-overflow
fault is in `Faults`, and changes nothing: no task reads it.

### Format and Numbers

`Format` has the integer conversions of the two printf replacements: digits, width, zero
padding, where the sign goes, and what a full buffer drops. A text is a sequence of
digits, `Minus`, `Blank` and `Letter`; what it spells is left out. `Numbers` takes one sample
at a time from its generator (`prvMakeSample`, `sensor_task`) through the derived values
(`prvProcessSample`, `processing_task` with `isqrt32` and the speed it accumulates) to the
printed line (`prvPrintFrame`, `telemetry_task`). C's division and remainder truncate
toward zero; `Quot` and `Rem` do. The two loops, of the root and of the digits, are recursive
functions.

## What the runs check

| run | bounds | properties |
|---|---|---|
| `MsgQueue` | capacity 3, one producer, a consumer with a timeout and one without, two items, spurious wake-ups, signals lost on expired waits | `TypeOK`, `RingInv`, `NoLostWakeup`, `FifoSpec`, `BlockedConsumerServed` |
| `HostSim` | capacity 2, 3 samples, 1 reset, no fault | `TypeOK`, `Accounting`, `SequencesDense`, `PrintedInOrder`, `StopTerminates` |
| `HostSim_faults` | capacity 2, bursts of 2, 3 samples, 1 fault command of 3 modes | `FlagsFollowFault`, `StopIsPrompt`, `SamplesLeave` |
| `HostWatch` | capacity 4, 2 events (commands, or the output blocking), any time between them | `TypeOK`, `AlarmsNeedStalls`, `LatenessIsCounted`, `ResetZeroesBeats` |
| `FwSim` | capacity 2, bursts of 2, a stall at each second sample, 3 ticks, 1 expired wait, 6 commands | `TypeOK`, `Accounting`, `StatusExact`, `StatsAddUp`, `HealthyMeansAllBeat`, `PrintedInOrder`, `SelfTestEnds` |
| `FwTimed` | the real capacities, periods and list of 15 commands; the diagnostics task up to 8 x 50 ms late | `StallAtThirty`, `SelfTestWarnsNothing`, `SelfTestDropsNothing` |
| `Lm3s` | capacity 3, 6 commands between two restarts, any number of restarts | `TypeOK`, `TokenHasItem`, `LagNeedsRecovery`, `VerdictMatchesData`, `StallReported`, `NoFalseAlarm`, `TelemetryFlows` |
| `Numbers` | all 3840 STM32 samples; for the LM3S6965, 8 of 63 phases and 6 draws, at each speed they reach | `FieldsFit`, `MagnitudeExact`, `ReadsBack`, `LineFits` |
| `MsgQueue_ClearUnblocks`, `HostSim_ResetFlushes`, `HostSim_LatestIsLatest`, `Numbers_SignPrinted` | | the one each is named for, violated: see below |

Of the host:

* `RingInv`: the redundant `head`, `tail` and `count` always describe one window.
* `NoLostWakeup`: as long as a consumer is blocked, each queued item has a consumer on its
  way to it: one that was woken, or one whose wait expired, took the signal and has not
  called `queue_pop` again. `BlockedConsumerServed`, under fairness, follows the same
  thought in time: the one that expired comes back.
* `FifoSpec`: `MsgQueue` implements `BoundedFifo`.
* `Accounting`: three equations, one per thread, that follow every sample from its
  making to the print through hands, queues, drops, flushes and resets.
* `SequencesDense`: gaps between sequence numbers are exactly the samples between
  them, so that drops can be seen as gaps; one sample made across a reset is the
  exception the code really has, and it is named in the property.
* `PrintedInOrder`: frames come out in the order their samples were made.
* `FlagsFollowFault`: no sample made after a fault command carries the former
  mode's flag, even in a round or burst that began before it.
* `StopIsPrompt`: when the queues are freed each holds at most the item its producer
  had in hand, so the threads stopped pushing at once.
* `StopTerminates`: the stop ends the program, although it wakes nobody.
  `SamplesLeave`: every sample leaves the pipeline.
* `AlarmsNeedStalls`: while somebody reads the output, the watchdog warns at most once
  per `fault stall`: never because of a pause or a reset. The watchdog copies a beat
  under the lock and reads the clock after it; in the model other threads may move between
  the two, but no time passes, so a watchdog that is kept off the processor there is not
  covered.
* `LatenessIsCounted`: once a thread has not beaten for its deadline and one period of the
  watchdog, a warning has been counted since its last beat, although the watchdog logs
  through the mutex that may hold both up: then the warning is that of whichever thread
  was judged first. A thread whose beat a reset has cleared is not late for the watchdog.
* `ResetZeroesBeats`: a reset zeroes the beat counters but for those of threads it
  caught inside their `++`.

Of the STM32 firmware:

* `Accounting` and `PrintedInOrder`: as on the host, with the reset split over four
  kernel calls made by the lowest priority.
* `StatusExact`: whenever the diagnostics task can print or zero the counters, every
  sample made since the last reset is in one of them. No lock gives this, since a
  sample is made, sent and counted in three steps; the priorities do.
* `StatsAddUp`: `stats` prints samples and drops that were read at two moments, with ticks,
  bursts and stalls between. They still add up to a number of samples made between the two:
  what is torn is the moment, not the count, because no sample is halfway at either reading.
* `HealthyMeansAllBeat`: each "healthy" is backed by a beat of each task since the
  "healthy" before and since the last reset.
* `SelfTestEnds`: the lowest priority is not starved.
* `StallAtThirty`, `SelfTestWarnsNothing`, `SelfTestDropsNothing`: what the self-test
  shows does not depend on the order in which ticks, delays and waits that fall due
  together are handled, nor, the last two, on up to 400 ms of debugger output: one
  stall (at sample 30 when there is no delay), no warning, no drop.

Of the LM3S6965 firmware:

* `TokenHasItem`: `processing_task` receives without waiting after it took the
  semaphore; there is a sample for it each time, although the sensor task gives the
  semaphore also when its send failed.
* `LagNeedsRecovery`: the converse fails, and this is how: each task-delay fault that is
  lifted before its delay ends leaves one sample in the queue for good. The lag only
  grows; after as many recoveries as it has places (3 in the run, 10 in the code)
  the queue is full and samples are dropped.
* `VerdictMatchesData`: without such a lag the two looks at `g_active_fault`, one by each
  task, agree on every sample.
* `StallReported`, `NoFalseAlarm`: each delay of 3 s is reported at least twice, and
  nothing else is, also not right after a recovery or under an overfull queue.
* `TelemetryFlows`: no fault, drop or restart breaks the chain of two binary semaphores.

Of the arithmetic:

* `FieldsFit`: no cast to `int16_t` or `uint16_t` loses anything, and the accumulated
  speed keeps its bounds. `MagnitudeExact`: `isqrt32` is the square root, rounded down.
* `ReadsBack`: a printed line says the numbers of its frame, but for the sign of an
  acceleration between -1.00 and 0. `LineFits`: the longest line keeps its line feed.

### Why the bounds suffice

A ring of 3 wraps after three pushes, with each fill level between; the second consumer,
of which one waits with a timeout and one without, brings the races for one signal, and the
signal that a timeout swallows while the other sleeps. In the pipeline each queue has one producer and one
consumer, so a third sample is enough for a queue of 2 to be full, for one sample to be in
each thread's hands, and for one to be made before, across and after a reset. `MaxMade`,
`MaxResets` and `MaxFaults` are the only bounds; they are the guards `MayMake`,
`resets < MaxResets` and `faults < MaxFaults`. The proofs below have no bounds.

In `HostWatch` the threads go on for ever and ages from `Old` (1.8 s, above every deadline
and a period) on are one; `MaxEvents` bounds commands and blockings, and two of them are
what it takes to combine any two of a stall, a reset, a change of mode and a blocked
output. Sequence numbers count modulo 8, the stall's divisor. The queues hold 4 where the
code has 24: the longest backlog of a stall, 750 ms at 90 ms, is 9 samples, and what
exceeds 4 is dropped; a longer queue only keeps the processor busy for longer after it.

In `FwSim` the script has the commands of the self-test that change something, its second
`stats` and one that prints a copy. Three ticks and bursts of two fill a queue of two behind a stall, cut a burst in
the middle, and leave one round for each side of the reset; `MaxTicks` and `MaxTimeouts`
are guards of `Tick` and `WaitTimesOut`. The real values are 6, 3 and 6; with the
smaller ones the queue fills within the ticks of the bound. `FwTimed` has the real ones, and
there `MaxTicks` and `MaxTimeouts` are above what the self-test reaches; `MaxSlack` is the
bound that matters: 400 ms of delay, wherever it falls, take the self-test through every
alignment of its commands with the ticks, and with 1000 ms (7.1 million states) there is
still no warning and no drop.

`Lm3s` runs for ever. Each of its recoveries takes two commands, so 6 between restarts fill
the queue of 3, and the drop happens. The real queue is filled by ten.

`Numbers`: the STM32's generator is a linear congruence of which the program uses the low 8
bits, the temperature repeats after 30 samples and the failing ones are the same frame, so
3840 numbers are all there are. On the LM3S6965 the ends and the middle of each draw and of
the temperature's course are taken; the theorems have the others.

Deadlock is checked everywhere: the exited program stutters in `Exited`.

### Fairness

`MsgQueue`: each consumer's own steps, since the consumers of `ecu_sim.c` call `queue_pop`
in an endless loop, the scheduler runs every unblocked thread and a deadline passes. It is
weak fairness of the wait's end, so a platform that keeps waking a consumer unasked may
postpone it for ever, as in the code.

`HostSim`: weak fairness of every thread and of the main thread's own steps; never of a
command, which nobody has to type. All waits of `ecu_sim.c` are timed, so a blocked thread
can always move.

`FwSim`: weak fairness of each task's own steps, which are enabled only when the scheduler
would run it, and of the delays' and the stall's end; equal priorities share the processor
(`configUSE_TIME_SLICING`). Never of a tick or of an expired wait.

`Lm3s`: the same of its tasks, of the timer's callback, of the health monitor's and the
delay's end, and of `Pass`, since time goes on. Never of a command.

### Where the documents and the code disagree

Four runs expect a violation.

* `MsgQueue_ClearUnblocks`: the comment `unblock queue waiters` in `ecu_stop`
  (`src/ecu_sim.c:393`) describes a wake-up that `queue_clear` does not give. The
  stop works because the waits are timed.
* `HostSim_ResetFlushes`: `REPORT.md:171` says that reset atomically zeroes the
  counters and flushes the queues; a sample held by a thread meanwhile is counted
  and printed afterwards.
* `HostSim_LatestIsLatest`: the `status` command's latest values can step back,
  because frames overwrite what newer samples wrote.
* `Numbers_SignPrinted`: the field that `REPORT.md:256` describes loses its minus between
  -1.00 and 0; the recorded run's first frame shows 0.07 for -0.07.

Others are plain from the text, or follow from a property that holds:

* `REPORT.md:396` and `:472` say that the overflow fault fills the STM32's queue within two
  ticks and that the drop counters advance. The processor has the sensor's backlog out of
  the queue before the next tick: `SelfTestDropsNothing` holds, as it does in the recorded
  run.
* `REPORT.md:410` and `:478` have the stalled processor wait for ever and the watchdog warn
  within 1000 ms. The code waits 450 ms (`firmware/src/main.c:363`), and
  `SelfTestWarnsNothing` holds. `REPORT.md:167` says "blocks indefinitely" of the host,
  which sleeps 750 ms at every eighth sample.
* `REPORT.md:154` describes atomic beat counters that the host's watchdog compares. It
  compares ages; the counters are plain and only shown.
* `firmware/src/main.c:170` comments another formula for the magnitude than the one it
  computes, and `src/tasks/processing_task.c:57` another for the rpm.
* `src/fault/fault_injection.h:9` says of the LM3S6965's overflow fault that it floods the
  sensor queue; no task reads it.

### What the models show besides

* A consumer of `queue_pop` whose wait times out can take a signal with it and return false,
  and an item then lies beside another consumer that sleeps, until the first one calls again
  (`NoLostWakeup`). With one consumer per queue, as in `ecu_sim.c`, it cannot happen
  (`LoneConsumerNeverSleeps`), nor without timeouts (`UntimedNeverMiss`).
* The STM32's `stats` shows no single moment: its samples are older than its drops
  (`StatsAddUp`).
* On the host, a reset while a thread is held up by the output makes the watchdog forget
  that thread, until the output is read again (the exception in `LatenessIsCounted`).
* A stall of 750 ms is below the processor's deadline of 900 ms. It is reported only when
  the processor had waited for its sample for more than 150 ms before; so seldom, and
  at most once per command (`AlarmsNeedStalls`).
* On the LM3S6965, once a recovery has left a sample behind, the verdict on a sample is
  made under a fault that may be newer than the sample (`VerdictMatchesData`'s condition).
* Its nominal temperature exceeds the 75.0 degrees of `processing_task` for six of the 63
  phases of its course, so frames are invalid without any fault; `Samples` has `hot` for it.

## What is proved

For every value of the constants, from the named assumptions `QueueAssumption`,
`HostAssumption`, `WatchAssumption` and `FwAssumption` (positive capacities, disjoint finite
sets of threads, a script of commands), `Lm3sAssumption` (queues of at least three items; the
code has ten) and `NumbersAssumption` (a draw is of 16 bits, a phase below 63, as `rng & 0xFFFF`
and `% 63` make them):

| theorem | statement |
|---|---|
| `MsgQueueProofs!TypeCorrect` | `Spec => []TypeOK` |
| `MsgQueueProofs!RingCorrect` | `Spec => []RingInv` |
| `MsgQueueProofs!NoWakeupIsLost` | `Spec => []NoLostWakeup` |
| `MsgQueueProofs!UntimedNeverMiss` | without timed consumers, `Spec => [](Waiting # {} => count <= Cardinality(Woken))` |
| `MsgQueueProofs!LoneConsumerNeverSleeps` | with `c` the only consumer, `Spec => [](pc[c] = "wait" => count = 0)` |
| `MsgQueueProofs!RefinesBoundedFifo` | `Spec => FifoSpec` |
| `HostSimProofs!TypeCorrect` | `Spec => []TypeOK` |
| `HostSimProofs!AccountsBalance` | `Spec => []Accounting` |
| `HostOrderProofs!PrintsInOrder` | `Spec => PrintedInOrder` |
| `HostOrderProofs!NumbersAreDense` | `Spec => []SequencesDense` |
| `HostOrderProofs!FlagsAreCurrent` | `Spec => []FlagsFollowFault` |
| `HostOrderProofs!StopsPromptly` | `Spec => []StopIsPrompt` |
| `HostWatchProofs!TypeCorrect` | `Spec => []TypeOK` |
| `HostWatchProofs!CountersRestart` | `Spec => []ResetZeroesBeats` |
| `HostWatchProofs!LateIsCounted` | `Spec => []LatenessIsCounted` |
| `HostWatchProofs!AlarmsArePaidFor` | `Spec => []AlarmsNeedStalls` |
| `FwSimProofs!TypeCorrect` | `Spec => []TypeOK` |
| `FwSimProofs!NothingLost` | `Spec => []Accounting` |
| `FwSimProofs!HealthyIsTrue` | `Spec => []HealthyMeansAllBeat` |
| `FwSimProofs!StatusIsExact` | `Spec => []StatusExact` |
| `FwSimProofs!PrintsInOrder` | `Spec => []PrintedInOrder` |
| `FwSimProofs!StatsAreSound` | `Spec => []StatsAddUp` |
| `FwTimedProofs!TimedImplements` | `TimedSpec => Init /\ [][Next]_vars` of `FwSim` |
| `FwTimedProofs!TimedIsSafe` | `TimedSpec => []` of `Accounting`, `StatusExact`, `HealthyMeansAllBeat`, `PrintedInOrder` and `StatsAddUp` |
| `Lm3sProofs!TypeCorrect` | `Spec => []TypeOK` |
| `Lm3sProofs!TokensHaveItems` | `Spec => []TokenHasItem` |
| `Lm3sProofs!LagIsRecovery` | `Spec => []LagNeedsRecovery` |
| `Lm3sProofs!VerdictsAgree` | `Spec => []VerdictMatchesData` |
| `Lm3sProofs!StallsReported` | `Spec => StallReported` |
| `Lm3sProofs!WarningsMean` | `Spec => NoFalseAlarm` |
| `NumbersProofs!RootIsExact` | `isqrt32(n)` is the square root of `n`, rounded down, for every natural `n` |
| `NumbersProofs!CastsAreExact` | `Spec => []FieldsFit` |
| `NumbersProofs!MagnitudeIsExact` | `Spec => []MagnitudeExact` |
| `NumbersProofs!NoSumOverflows` | `Spec => []SumsFit` |
| `NumbersProofs!LinesReadBack` | `Spec => []ReadsBack` |
| `NumbersProofs!NoLineIsCut` | `Spec => []LineFits` |

`MsgQueueProofs`. `TypeOK /\ RingInv` is inductive; the lemmas on `%` say that one
step forward from the last slot is slot 0. `NoLostWakeup` is inductive on top of
it: a push adds one item and wakes one waiter (`WakeOne`) or spends its signal on an expired
one (`MissOne`), a pop by a woken or returned consumer takes one of each (`RetireOne`), and a
consumer blocks only on an empty queue. Two theorems say where the expired ones do not
matter: without timeouts there are none, and a lone consumer that sleeps is neither woken
nor expired, so that nothing can be queued. For the refinement, `StoreAppends` and `TakeDropsHead` say what a push and a
pop do to the window seen as a sequence, and each action is then one abstract
action or a stutter.

`HostSimProofs`. `Accounting` is not inductive alone: the equations need the types,
a thread's label decides whether it holds a sample, and the burst counter's range
needs `BurstInv` (inside the burst it is below its limit). Before `ecu_start` no
other thread exists (`BornInv`), so the start moves no sample. The proof has one
lemma per action, or per group of actions that move nothing (`QuietStep`); each
shows that a step takes as much from one side of an equation as from the other.

`HostOrderProofs`. The pipeline is five places in a row: the sensor's hand, the sensor queue,
the processor's hand, the telemetry queue, the logger's hand. `OrderInv` says that whatever
is further on was made earlier, within a queue too; a step removes samples, hands one to
the next place or makes one newer than all. `NumberInv` relates the sequence number of each
sample, wherever it is, to how many were made since the latest reset, with the load and the
store of the unlocked `++` as two states. `FlagInv` says of every sample on its way that it
carries the flag of the present mode if it was made after the latest fault command; the mode
read for the round does not matter, as `prvMakeSensorSample` reads it again. `StopInv` says
what each producer can still do once `stop_requested` is set.

`HostWatchProofs`. `CountInv`: between the two halves of `prvBeat`'s `++` the register holds
what the counter holds, unless a reset came between. `LateInv` bounds the age of the beat of
a thread that no warning was counted for: by its deadline at the moment the watchdog passes
it, by as much and the time since then while the watchdog sleeps; while the watchdog itself
is held up, a warning has been counted. `AlarmInv` gives each `fault stall` a token, which is
with the fault while it is set and not yet calm (`Armed`), then with the first stall that a
late sample began (`Pending`), then with the verdict on it (`Condemned`), and then spent on a
warning. It is handed on and never copied, because of two facts about time. Under the fault
samples come every 90 ms, so once the sensor is at that period no sample is waited for so long
that its stall is late (`Calm`, kept through resets by `ResetSection`). And the watchdog
looks at the processor once in a stall: what remains of a stall after a verdict is shorter
than its period (`Passed`). `PaceInv` bounds the time between two beats of each thread, so
only the processor's can be late.

`FwSimProofs`. The inductive invariant is `TypeOK` and `Accounting` with four more parts:
`LeftInv`, a sample is made only while its round has one left; `AtInv`, a reset is under
way only while the script is at its command; `BeatInv`, the event bits are among the beats
the ghost remembers, which is what makes "healthy" true; and `ResetInv`, the ghost
`resetAt` is what the counters held before they were zeroed. `StatusExact` follows from
`Accounting` and the priorities: when the lowest one runs, the others are blocked, and a
blocked sensor task has no sample in hand.

Its second half, `OrderInv`, is the same order of places as on the host, with the burst and the
reset's four kernel calls. `StatsAreSound` needs one more part, `StatsInv`: between the two
readings of `prvPrintStats` only the higher tasks move, which count up and never zero
(`OthersCountUp`), so what the first reading saw is still a lower bound at the second.

`FwTimedProofs`. Each step of `FwTimed` is a step of `FwSim` or leaves its variables alone, so
the invariant of `FwSimProofs` holds with time, for any capacities, script and `MaxSlack`.

`Lm3sProofs`. `TokenHasItem` is inductive over the types. The step that needs thought is a
send to a full queue: the token given for it has no new item, but a queue that is full
holds three or more, and no more than two tokens and one owed exist. This is where the
capacity matters. The other theorems rest on conjuncts in a row, each kept in the states of
those before it (`LaterInv`). `LagInv` counts the samples without a token, and the one that
is about to lose its own (`MergeAhead`), against the recoveries. `MatchInv` says that until
the first recovery each sample in the pipeline fits the current fault: when the diagnostics
task may change it, there is none. `StallInv` says that what has passed of a delay
has passed of the health monitor's waits too, which gives the two reports. For
`NoFalseAlarm`, `BeatsInv` says that from a tick on each task has set its bit or is going to,
along the chain of semaphore and queues (`WillBeat`), so a wait that is older than one tick
has all bits; `RecentInv` covers the wait in which a delay ended.

`NumbersProofs`. The run has 6 draws and 8 phases; the theorems have all 2^48 draws, all 63
phases, and a speed accumulated from any of them. The invariant is `FrameInv`: a range for each
field of the sample and of the frame, from which each property follows. Two loops of the code are
recursive functions here, and what they compute is proved without an induction scheme, by the
least counterexample: `LeastNat` says that a non-empty set of naturals has a least element.

* `isqrt32`. A recursive function is a `CHOOSE`, so that one exists must be proved first, and
  its recursion has to be well founded for that: `NewtonStep` shows that the next estimate is
  at least 1 and never below the root. The function that maps an estimate at or above the root
  to the root, and those below it to themselves, satisfies the recursion (`NewtonExists`), and
  whatever satisfies it has the root as its value at `n` (`NewtonIsRoot`). The model's integers
  have no width; `NoSumOverflows` says that those of the code need none.
* The digits. `DigitsExist` builds the function from its restrictions to the numbers below `m`,
  which agree with one another (`PartsAgree`); `DigitsOf` is then the loop of `prvAppendUnsigned`
  and `fmt_uint`, of every number in every base. `DigitsSay` reads up to three digits back,
  `Longer` counts them.
* The lines. `ReadsBack` has three cases for an acceleration, by the sign of its whole part; the
  third is the one in which the sign is lost. `NoLineIsCut` adds up the longest texts of the fields:
  below 200 characters on either board.

Only model-checked:

* the liveness properties (`BlockedConsumerServed`, `StopTerminates`, `SamplesLeave`,
  `SelfTestEnds`, `TelemetryFlows`): liveness under fairness is beyond the prover;
* `StallAtThirty`, `SelfTestWarnsNothing` and `SelfTestDropsNothing` of `FwTimed`: they are
  about one script and its durations, and false for others (a reset late in a wait
  of the watchdog makes it warn), so there is no constant to generalise over.

A proof found a property that TLC had passed for the wrong reason. The former version of
`LatenessIsCounted` said, of a blocked output only, that a warning follows in time. It
held for the two events of the run and fails with three: an output that is read for a moment
and blocks anew holds up a thread that is already late. The attempt to make it inductive
gave the property its present form, about the thread and not the output.

## What is not modelled

* The runtimes: start-up code, UART, semihosting, syscalls, libc replacements other than
  the integer conversions, hooks. They share no state with the components.
* The wording of commands and lines, strings and the (unused) float conversions of
  `mini_vsnprintf`. `console_readline` is called by nobody; the line buffer of the LM3S's
  `poll_uart` decides which command comes, and any may come in `Lm3s`.
* The console's mutex, the log's handle, and the beat counters and `last_*` fields of the
  STM32 firmware: only the output depends on them.
* The order in which the host takes nested locks: critical sections are single actions, and
  by the code only `prvUpdateFromSample` and `ecu_snapshot` nest them, queue inside state.
* Failures of `pthread_create`, `calloc` and the initialisers; a real-time clock that is
  set while the host runs.
* The scripts and data of the report.

## Plan

The proofs of `HostSim` cover `ecu_reset` and the two `queue_clear`; an abstract
specification of the pipeline (a channel that may drop) and a proof that `HostSim`
implements it would say in one formula what `Accounting` and `PrintedInOrder` say in two.
