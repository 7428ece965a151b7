------------------------------ MODULE FwTimed ------------------------------
(***************************************************************************)
(* FwSim with time: when the sensor timer, the delays of the diagnostics   *)
(* task, the processor's stall and the watchdog's wait expire.  Every step *)
(* is a step of FwSim; due decides which of FwSim's expiries may happen.   *)
(*                                                                         *)
(* The unit is 50 ms.  Nothing but waiting takes time: Pass needs every    *)
(* task blocked.  What falls due at one moment happens in any order.  The  *)
(* diagnostics task prints through the debugger, so its delays may start   *)
(* late, by MaxSlack in all.                                               *)
(***************************************************************************)
EXTENDS FwSim

CONSTANT MaxSlack   (* bound: units of time the diagnostics task is late   *)

ASSUME TimedAssumption == MaxSlack \in Nat

VARIABLES due,      (* due[c]: time until clock c expires; 0 if it is idle *)
          slack     (* how late the diagnostics task is by now             *)

tvars == <<vars, due, slack>>

Clocks == {"timer", "diag", "processor", "watchdog"}

Period_Short == 1  \* Mutant: pdMS_TO_TICKS(50).
Period    == 2     \* of the sensor timer, 100 ms
Boot      == 30    \* first delay of the diagnostics task, 1500 ms
Between   == 2     \* its delay after each command, 100 ms
StallTime_Long == 19  \* Mutant: pdMS_TO_TICKS(950).
StallTime == 9     \* of the processor, 450 ms
WaitTime_Short == 8   \* Mutant: pdMS_TO_TICKS(400).
WaitTime  == 20    \* of the watchdog, 1000 ms

\* The label at which a task waits for its clock.
Waiting == [diag |-> "delay", processor |-> "stall", watchdog |-> "wait"]
Active(c) == c \in DOMAIN Waiting => pc[c] = Waiting[c]

TimedInit == /\ Init
             /\ due = [timer |-> Period, diag |-> Boot, processor |-> 0, watchdog |-> 0]
             /\ slack = 0

Expired(c) == Active(c) /\ due[c] = 0

\* The clock of a task after its step: it starts with the wait and stops if the
\* wait is cut short.
Armed(c, duration) ==
    IF pc'[c] # Waiting[c] THEN 0
    ELSE IF pc[c] = Waiting[c] THEN due[c] ELSE duration

\* A step of a task; one that starts a delay of the diagnostics task does so
\* late units of time late.
TimedTask(step, late) ==
    /\ step
    /\ due' = [timer |-> due["timer"], diag |-> Armed("diag", Between + late),
               processor |-> Armed("processor", StallTime),
               watchdog |-> Armed("watchdog", WaitTime)]
    /\ slack' = slack + late

TimedDiagnostics ==
    \E late \in 0..MaxSlack - slack :
        /\ TimedTask(prvDiagnosticsTask, late)
        /\ late > 0 => pc'["diag"] = "delay"

TimedTick == /\ Expired("timer") /\ Tick
             /\ due' = [due EXCEPT !["timer"] = Period]
             /\ UNCHANGED slack

Expiry == /\ \/ Expired("diag") /\ DelayOver
             \/ Expired("processor") /\ StallOver
             \/ Expired("watchdog") /\ WaitTimesOut
          /\ UNCHANGED <<due, slack>>

\* Time goes on once everything due has happened.
Pass == /\ On /\ \A t \in Tasks : ~Runs(t)
        /\ \A c \in Clocks : ~Expired(c)
        /\ due' = [c \in Clocks |-> IF Active(c) THEN due[c] - 1 ELSE 0]
        /\ UNCHANGED <<vars, slack>>

TimedNext == \/ TimedTask(prvSensorTask, 0) \/ TimedTask(prvProcessorTask, 0)
             \/ TimedTask(prvLoggerTask, 0) \/ TimedTask(prvWatchdogTask, 0)
             \/ TimedDiagnostics \/ TimedTick \/ Expiry \/ Pass
             \/ (Exited /\ UNCHANGED <<due, slack>>)

TimedSpec == TimedInit /\ [][TimedNext]_tvars

-----------------------------------------------------------------------------
\* The recorded run: unless the diagnostics task is late, the one stall of the
\* self-test is at sample 30, whatever the order of what falls due together.
StallAtThirty == slack = 0 /\ pc["processor"] = "stall" => hand["processor"].seq = 30

\* The watchdog reports nothing in the whole self-test: a stall of 450 ms, on
\* top of what remains of a cycle, is within its 1000 ms.
SelfTestWarnsNothing == Total("warnings") = 0

\* Nor is anything dropped: the queues take what a stall holds up, and a burst
\* fits in whole, although REPORT.md, 7.3, has the drop counters advance.
SelfTestDropsNothing == Total("sensor_drops") + Total("telemetry_drops") = 0
=============================================================================
