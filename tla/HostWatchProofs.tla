-------------------------- MODULE HostWatchProofs ---------------------------
(***************************************************************************)
(* Theorems about HostWatch, for every capacity and any number of commands *)
(* and of times the output blocks.                                         *)
(*                                                                         *)
(* Over the types there are three inductive invariants: CountInv, on the   *)
(* two halves of a beat counter's increment; LateInv, on how late a thread *)
(* can be that no warning has been counted for; and AlarmInv, in which     *)
(* each warning is traced to a command of its own.                         *)
(***************************************************************************)
EXTENDS HostWatch, TLAPS

-----------------------------------------------------------------------------
(* What the helpers do.                                                    *)

LEMMA Names ==
    /\ Watched = {"sensor", "processor", "logger"}
    /\ Threads = {"sensor", "processor", "logger", "watchdog"}
  BY DEF Watched, Threads

LEMMA LabelsOf ==
    /\ Labels["sensor"] = {"start", "beat", "count", "sleep", "make", "log"}
    /\ Labels["processor"] = {"start", "beat", "count", "pop", "log", "stall", "push"}
    /\ Labels["logger"] = {"start", "beat", "count", "pop", "log"}
    /\ Labels["watchdog"] = {"start", "beat", "count", "sleep", "look", "judge", "warn", "log"}
    /\ Labels["main"] = {"idle", "print", "clear_sensor", "clear_telemetry", "clear_beats"}
  BY DEF Labels

\* Each thread keeps to its code.
LEMMA LabelsNow ==
    ASSUME TypeOK
    PROVE  /\ pc["sensor"] \in Labels["sensor"] /\ pc["processor"] \in Labels["processor"]
           /\ pc["logger"] \in Labels["logger"] /\ pc["watchdog"] \in Labels["watchdog"]
           /\ pc["main"] \in Labels["main"]
  BY Names DEF TypeOK

\* A step of thread t leaves the others where they are.
LEMMA StepMoves ==
    ASSUME TypeOK, NEW t \in Threads \cup {"main"}, NEW a, NEW b, Step(t, a, b)
    PROVE  /\ DOMAIN pc' = Threads \cup {"main"} /\ pc[t] = a /\ pc'[t] = b
           /\ \A u \in Threads \cup {"main"} : u # t => pc'[u] = pc[u]
           /\ b \in Labels[t] => \A u \in DOMAIN pc' : pc'[u] \in Labels[u]
  BY DEF TypeOK, Step

\* Setting one clock leaves the others.
LEMMA ForSets ==
    ASSUME TypeOK, NEW t \in Threads, NEW d \in Nat, For(t, d)
    PROVE  /\ due' \in [Threads -> Nat] /\ due'[t] = d
           /\ \A u \in Threads : u # t => due'[u] = due[u]
  BY DEF TypeOK, For

LEMMA Numbers ==
    /\ Stall = 25 /\ SampleWait = 9 /\ FrameWait = 10 /\ CheckEvery = 17 /\ Old = 60
    /\ Deadline["sensor"] = 30 /\ Deadline["processor"] = 30 /\ Deadline["logger"] = 40
    /\ \A t \in Watched : Deadline[t] \in 30..40 /\ Deadline[t] \in Nat
    /\ SleepAfter(fault_mode) \in {3, 6}
  BY DEF Stall, SampleWait, FrameWait, CheckEvery, Old, Deadline, Watched, SleepAfter

HasLeast(S) == \E n \in S : \A m \in S : n <= m

LEMMA OneMore ==
    ASSUME NEW S \in SUBSET Nat, HasLeast(S), NEW T \in SUBSET Nat,
           \A x, y \in T : x = y
    PROVE  HasLeast(S \cup T) /\ S \cup T \in SUBSET Nat
  <1>1. PICK n \in S : \A m \in S : n <= m
    BY DEF HasLeast
  <1>2. CASE T = {}
    BY <1>2
  <1>3. ASSUME NEW x \in T PROVE HasLeast(S \cup T)
    <2>1. T = {x} /\ x \in Nat /\ n \in Nat
      BY <1>3
    <2>2. CASE x <= n
      <3>1. x \in S \cup T /\ \A m \in S \cup T : x <= m
        BY <1>1, <2>1, <2>2
      <3> QED BY <3>1 DEF HasLeast
    <2>3. CASE ~(x <= n)
      <3>1. n \in S \cup T /\ \A m \in S \cup T : n <= m
        BY <1>1, <2>1, <2>3
      <3> QED BY <3>1 DEF HasLeast
    <2> QED BY <2>2, <2>3
  <1> QED BY <1>2, <1>3

\* The time that passes: no thread waits less, nor is it the same as none.
Span == Least({due[t] : t \in Waiting} \cup {Old})

LEMMA SpanIsLeast ==
    ASSUME TypeOK
    PROVE  /\ Span \in Nat
           /\ \A t \in Waiting : Span <= due[t]
  <1> DEFINE Of(t) == {due[u] : u \in Waiting \cap {t}}
  <1>1. \A t : Of(t) \in SUBSET Nat /\ \A x, y \in Of(t) : x = y
    BY DEF Waiting, TypeOK
  <1>2. HasLeast({Old}) /\ {Old} \in SUBSET Nat
    BY DEF HasLeast, Old
  <1> HIDE DEF Of
  <1>3. LET S == {Old} \cup Of("sensor") IN HasLeast(S) /\ S \in SUBSET Nat
    BY <1>1, <1>2, OneMore
  <1>4. LET S == ({Old} \cup Of("sensor")) \cup Of("processor") IN HasLeast(S) /\ S \in SUBSET Nat
    BY <1>1, <1>3, OneMore
  <1>5. LET S == (({Old} \cup Of("sensor")) \cup Of("processor")) \cup Of("logger")
        IN  HasLeast(S) /\ S \in SUBSET Nat
    BY <1>1, <1>4, OneMore
  <1>6. LET S == ((({Old} \cup Of("sensor")) \cup Of("processor")) \cup Of("logger")) \cup Of("watchdog")
        IN  HasLeast(S) /\ S \in SUBSET Nat
    BY <1>1, <1>5, OneMore
  <1>7. ((({Old} \cup Of("sensor")) \cup Of("processor")) \cup Of("logger")) \cup Of("watchdog")
            = {due[t] : t \in Waiting} \cup {Old}
    <2>1. Waiting \subseteq {"sensor", "processor", "logger", "watchdog"}
      BY Names DEF Waiting
    <2> QED BY <2>1 DEF Of
  <1>8. /\ HasLeast({due[t] : t \in Waiting} \cup {Old})
        /\ {due[t] : t \in Waiting} \cup {Old} \in SUBSET Nat
    BY <1>6, <1>7
  <1>9. /\ Span \in {due[t] : t \in Waiting} \cup {Old}
        /\ \A m \in {due[t] : t \in Waiting} \cup {Old} : Span <= m
    BY <1>8 DEF HasLeast, Span, Least
  <1> QED BY <1>8, <1>9

\* What passing time does: clocks that run lose Span, ages gain as much, and
\* every thread waits, sleeps, or is held up at log_mutex.
LEMMA PassMoves ==
    ASSUME TypeOK, Pass
    PROVE  /\ Span \in Nat /\ due' \in [Threads -> Nat] /\ age' \in [Watched -> Nat]
           /\ \A t \in Threads : pc[t] \in {"sleep", "pop", "stall"} => due'[t] = due[t] - Span
           /\ \A t \in Threads : pc[t] \notin {"sleep", "pop", "stall"} => due'[t] = due[t]
           /\ \A t \in Watched : age'[t] <= age[t] + Span
           /\ \A t \in Threads \cup {"main"} : ~Ready(t)
  <1>1. Span \in Nat /\ \A t \in Waiting : Span <= due[t]
    BY SpanIsLeast
  <1>2. /\ due' = [t \in Threads |-> IF t \in Waiting THEN due[t] - Span ELSE due[t]]
        /\ age' = [t \in Watched |-> Older(age[t], Span)]
        /\ \A t \in Threads \cup {"main"} : ~Ready(t)
    BY DEF Pass, Span
  <1>3. \A t \in Threads : due[t] \in Nat
    BY DEF TypeOK
  <1>4. \A t \in Watched : age[t] \in Nat
    BY DEF TypeOK
  <1>5. \A t \in Threads : (IF t \in Waiting THEN due[t] - Span ELSE due[t]) \in Nat
    BY <1>1, <1>3
  <1>6. \A t \in Watched : Older(age[t], Span) \in Nat /\ Older(age[t], Span) <= age[t] + Span
    BY <1>1, <1>4 DEF Older, Old
  <1>7. \A t \in Threads : t \in Waiting <=> pc[t] \in {"sleep", "pop", "stall"}
    BY DEF Waiting
  <1> QED BY <1>1, <1>2, <1>5, <1>6, <1>7

\* Where every thread is when time passes.
LEMMA PassWaits ==
    ASSUME TypeOK, Pass
    PROVE  /\ \/ pc["sensor"] = "sleep" /\ due["sensor"] > 0
              \/ pc["sensor"] = "log" /\ log_mutex # "free"
           /\ \/ pc["processor"] = "pop" /\ due["processor"] > 0 /\ queue = <<>>
              \/ pc["processor"] = "stall" /\ due["processor"] > 0
              \/ pc["processor"] = "log" /\ log_mutex # "free"
           /\ \/ pc["logger"] = "pop" /\ due["logger"] > 0
              \/ pc["logger"] = "log" /\ log_mutex # "free"
           /\ \/ pc["watchdog"] = "sleep" /\ due["watchdog"] > 0
              \/ pc["watchdog"] = "log" /\ log_mutex # "free"
           /\ pc["main"] \in {"idle", "print"}
  <1>1. \A t \in Threads \cup {"main"} : ~Ready(t)
    BY DEF Pass
  <1>2. \A t \in Threads : due[t] \in Nat
    BY DEF TypeOK
  <1>3. ~Ready("sensor") => \/ pc["sensor"] = "sleep" /\ due["sensor"] # 0
                            \/ pc["sensor"] = "log" /\ log_mutex # "free"
    BY LabelsNow, LabelsOf DEF Ready
  <1>4. ~Ready("processor") => \/ pc["processor"] = "pop" /\ due["processor"] # 0 /\ queue = <<>>
                               \/ pc["processor"] = "stall" /\ due["processor"] # 0
                               \/ pc["processor"] = "log" /\ log_mutex # "free"
    BY LabelsNow, LabelsOf DEF Ready
  <1>5. ~Ready("logger") => \/ pc["logger"] = "pop" /\ due["logger"] # 0
                            \/ pc["logger"] = "log" /\ log_mutex # "free"
    BY LabelsNow, LabelsOf DEF Ready
  <1>6. ~Ready("watchdog") => \/ pc["watchdog"] = "sleep" /\ due["watchdog"] # 0
                              \/ pc["watchdog"] = "log" /\ log_mutex # "free"
    BY LabelsNow, LabelsOf DEF Ready
  <1>7. ~Ready("main") => pc["main"] \in {"idle", "print"}
    BY LabelsNow, LabelsOf DEF Ready
  <1> QED BY <1>1, <1>2, <1>3, <1>4, <1>5, <1>6, <1>7, Names

-----------------------------------------------------------------------------
(* The types.                                                              *)

\* The steps of the pipeline's threads but for beats and prints, and of main.
Pipeline == \/ SensorRound \/ SensorPush \/ ProcessorPop \/ StallOver \/ ProcessorPush
            \/ PopTimeout("processor") \/ LoggerPop \/ PopTimeout("logger")
Commands == \/ ecu_reset \/ (\E m \in Modes : ecu_set_fault(m)) \/ queue_clear
            \/ prvClearBeats \/ MainPrint
Printing == Clog \/ Unclog \/ \E t \in Threads : Log(t) \/ LogBlocks(t)

LEMMA NextCases ==
    ASSUME Next
    PROVE  \/ Pipeline \/ prvWatchdogThread \/ Commands \/ Printing \/ Pass
           \/ \E t \in Threads : BeatStore(t) \/ BeatCount(t)
  BY DEF Next, Elsewhere, prvSensorThread, prvProcessorThread, prvLoggerThread, Pipeline,
         Commands, Printing

LEMMA InitTypes == Init => TypeOK
  <1> SUFFICES ASSUME Init PROVE TypeOK
    OBVIOUS
  <1>1. DOMAIN pc = Threads \cup {"main"} /\ \A t \in DOMAIN pc : pc[t] \in Labels[t]
    BY Names, LabelsOf DEF Init
  <1>2. /\ due \in [Threads -> Nat] /\ age \in [Watched -> Nat]
        /\ beats \in [Threads -> Nat] /\ reg \in [Threads -> Nat]
    BY DEF Init, Old
  <1>3. pc["watchdog"] = "start"
    BY Names DEF Init
  <1>4. <<>> \in Seq(0..7) /\ Len(<<>>) = 0
    OBVIOUS
  <1>5. /\ beat_mutex \in Threads \cup {"free"} /\ log_mutex \in Threads \cup {"free"}
        /\ checks \in 1..4 /\ last \in Nat /\ sequence \in 0..7 /\ fault_mode \in Modes
        /\ clogged \in BOOLEAN /\ beat_initialized \subseteq Watched /\ told \subseteq Watched
        /\ caught \subseteq Threads /\ commands \in Nat /\ clogs \in Nat
        /\ resets \in Nat /\ stalls \in Nat /\ alarms \in Nat
    <2>1. /\ beat_mutex = "free" /\ log_mutex = "free" /\ checks = 1 /\ last = 0
          /\ sequence = 0 /\ fault_mode = "none" /\ clogged = FALSE /\ caught = {}
          /\ beat_initialized = {} /\ told = {} /\ commands = 0 /\ clogs = 0
          /\ resets = 0 /\ stalls = 0 /\ alarms = 0
      BY DEF Init
    <2>2. clogged \in BOOLEAN
      BY <2>1
    <2>3. checks \in 1..4 /\ last \in Nat /\ sequence \in 0..7
      BY <2>1
    <2>4. commands \in Nat /\ clogs \in Nat /\ resets \in Nat /\ stalls \in Nat /\ alarms \in Nat
      BY <2>1
    <2>5. /\ fault_mode \in Modes /\ caught \subseteq Threads
          /\ beat_initialized \subseteq Watched /\ told \subseteq Watched
      BY <2>1 DEF Modes
    <2> QED BY <2>1, <2>2, <2>3, <2>4, <2>5
  <1>6. /\ queue \in Seq(0..7) /\ Len(queue) <= Capacity /\ frames \in 0..Capacity
        /\ commands + clogs <= MaxEvents
    BY <1>4, WatchAssumption DEF Init
  <1> QED BY <1>1, <1>2, <1>3, <1>5, <1>6 DEF TypeOK

LEMMA PipelineTypes == TypeOK /\ Pipeline => TypeOK'
  <1> SUFFICES ASSUME TypeOK, Pipeline PROVE TypeOK'
    OBVIOUS
  <1> DEFINE Moved == /\ DOMAIN pc' = Threads \cup {"main"}
                      /\ \A u \in DOMAIN pc' : pc'[u] \in Labels[u]
                      /\ pc'["watchdog"] = pc["watchdog"]
                      /\ due' \in [Threads -> Nat]
             Carried == /\ queue' \in Seq(0..7) /\ Len(queue') <= Capacity
                        /\ frames' \in 0..Capacity /\ sequence' \in 0..7
  <1>1. ASSUME Moved, Carried,
               UNCHANGED <<slots, counters, beat_mutex, log_mutex, checking, control, output,
                           verdicts>>
        PROVE  TypeOK'
    BY <1>1 DEF TypeOK, slots, counters, checking, control, output, verdicts
  <1> HIDE DEF Moved, Carried
  <1>2. ASSUME NEW t \in Watched, NEW a, NEW b \in Labels[t], Step(t, a, b),
               UNCHANGED due \/ \E d \in Nat : For(t, d)
        PROVE  Moved
    <2>1. due' \in [Threads -> Nat]
      BY <1>2, ForSets, Names DEF TypeOK
    <2> QED BY <1>2, <2>1, StepMoves, Names DEF Moved
  <1>3. UNCHANGED data => Carried
    BY DEF data, TypeOK, Carried
  <1>4. CASE SensorRound
    <2>1. PICK b \in Labels["sensor"] : Step("sensor", "sleep", b)
      BY <1>4, LabelsOf DEF SensorRound, Ends
    <2>2. SleepAfter(fault_mode) \in Nat
      BY Numbers
    <2> QED BY <1>1, <1>2, <1>3, <1>4, <2>1, <2>2, Names DEF SensorRound
  <1>5. CASE SensorPush
    <2>1. Step("sensor", "make", "beat") /\ "beat" \in Labels["sensor"]
      BY <1>5, LabelsOf DEF SensorPush
    <2>0. sequence' = (sequence + 1) % 8 /\ sequence \in 0..7
      BY <1>5 DEF SensorPush, TypeOK
    <2>2. sequence' \in 0..7 /\ sequence' = (sequence + 1) % 8
      BY <2>0
    <2>3. Append(queue, sequence') \in Seq(0..7) /\ Len(Append(queue, sequence')) = Len(queue) + 1
      BY <2>2 DEF TypeOK
    <2>4. queue' = (IF Len(queue) < Capacity THEN Append(queue, sequence') ELSE queue)
      BY <1>5 DEF SensorPush
    <2>5. queue' \in Seq(0..7) /\ Len(queue') <= Capacity
      BY <2>3, <2>4, WatchAssumption DEF TypeOK
    <2>6. Carried
      BY <1>5, <2>2, <2>5 DEF SensorPush, TypeOK, Carried
    <2> QED BY <1>1, <1>2, <1>5, <2>1, <2>6, Names DEF SensorPush
  <1>6. CASE ProcessorPop
    <2>1. PICK b \in Labels["processor"] : Step("processor", "pop", b)
      BY <1>6, LabelsOf DEF ProcessorPop
    <2>2. queue # <<>> /\ queue' = Tail(queue) /\ UNCHANGED <<frames, sequence>>
      BY <1>6 DEF ProcessorPop
    <2>3. Tail(queue) \in Seq(0..7) /\ Len(Tail(queue)) = Len(queue) - 1
      BY <2>2 DEF TypeOK
    <2>4. Carried
      BY <2>2, <2>3, WatchAssumption DEF TypeOK, Carried
    <2> QED BY <1>1, <1>2, <1>6, <2>1, <2>4, Names DEF ProcessorPop
  <1>7. CASE StallOver
    BY <1>1, <1>2, <1>3, <1>7, Names, LabelsOf DEF StallOver, Ends
  <1>8. CASE ProcessorPush
    <2>1. Carried
      BY <1>8, WatchAssumption DEF ProcessorPush, TypeOK, Carried
    <2> QED BY <1>1, <1>2, <1>8, <2>1, Names, LabelsOf DEF ProcessorPush
  <1>9. CASE LoggerPop
    <2>1. Carried
      BY <1>9, WatchAssumption DEF LoggerPop, TypeOK, Carried
    <2> QED BY <1>1, <1>2, <1>9, <2>1, Names, LabelsOf DEF LoggerPop
  <1>10. CASE PopTimeout("processor")
    BY <1>1, <1>2, <1>3, <1>10, Names, LabelsOf DEF PopTimeout, Ends
  <1>11. CASE PopTimeout("logger")
    BY <1>1, <1>2, <1>3, <1>11, Names, LabelsOf DEF PopTimeout, Ends
  <1> QED BY <1>4, <1>5, <1>6, <1>7, <1>8, <1>9, <1>10, <1>11 DEF Pipeline

LEMMA WatchdogTypes == TypeOK /\ prvWatchdogThread => TypeOK'
  <1> SUFFICES ASSUME TypeOK, prvWatchdogThread PROVE TypeOK'
    OBVIOUS
  <1> DEFINE Moved == /\ DOMAIN pc' = Threads \cup {"main"}
                      /\ \A u \in DOMAIN pc' : pc'[u] \in Labels[u]
             Judged == /\ checks' \in 1..4 /\ last' \in Nat
                       /\ pc'["watchdog"] \in {"judge", "warn"} => checks' <= 3
                       /\ told' \subseteq Watched /\ alarms' \in Nat
  <1>1. ASSUME Moved, Judged, due' \in [Threads -> Nat],
               UNCHANGED <<slots, counters, beat_mutex, log_mutex, data, control, output>>
        PROVE  TypeOK'
    BY <1>1 DEF TypeOK, slots, counters, data, control, output
  <1>2. ASSUME NEW a, NEW b \in Labels["watchdog"], Step("watchdog", a, b)
        PROVE  Moved /\ pc'["watchdog"] = b /\ pc["watchdog"] = a
    BY <1>2, StepMoves, Names
  <1> HIDE DEF Moved
  <1>3. CASE WatchdogWakes
    <2>1. Step("watchdog", "sleep", "look")
      BY <1>3 DEF WatchdogWakes, Ends
    <2>2. Judged
      BY <1>2, <1>3, <2>1, LabelsOf DEF WatchdogWakes, TypeOK, verdicts
    <2> QED BY <1>1, <1>2, <1>3, <2>1, <2>2, LabelsOf DEF WatchdogWakes, TypeOK
  <1>4. CASE CopyBeat
    <2>0. /\ UNCHANGED <<due, slots, counters, beat_mutex, log_mutex, data, control, output>>
          /\ UNCHANGED verdicts /\ pc["watchdog"] = "look" /\ checks <= 3
      BY <1>4 DEF CopyBeat
    <2>1. CASE Order[checks] \in beat_initialized
      <3>1. /\ pc' = [pc EXCEPT !["watchdog"] = "judge"] /\ last' = age[Order[checks]]
            /\ checks' = checks
        BY <1>4, <2>1 DEF CopyBeat
      <3>2. Step("watchdog", "look", "judge")
        BY <2>0, <3>1 DEF Step
      <3>3. Judged
        <4>1. Order[checks] \in Watched
          BY <2>1 DEF TypeOK
        <4> QED BY <2>0, <3>1, <4>1 DEF TypeOK, verdicts
      <3> QED BY <1>1, <1>2, <2>0, <3>2, <3>3, LabelsOf DEF TypeOK
    <2>2. CASE Order[checks] \notin beat_initialized
      <3>1. checks' = checks + 1 /\ UNCHANGED <<pc, last>>
        BY <1>4, <2>2 DEF CopyBeat
      <3>2. Moved
        BY <3>1 DEF Moved, TypeOK
      <3>3. /\ checks \in 1..4 /\ last \in Nat /\ told \subseteq Watched /\ alarms \in Nat
            /\ due \in [Threads -> Nat]
        BY DEF TypeOK
      <3>4. pc'["watchdog"] = "look" /\ told' = told /\ alarms' = alarms /\ due' = due
        BY <2>0, <3>1 DEF verdicts
      <3>5. Judged
        BY <2>0, <3>1, <3>3, <3>4
      <3> QED BY <1>1, <2>0, <3>2, <3>3, <3>4, <3>5
    <2> QED BY <2>1, <2>2
  <1>5. CASE JudgeBeat
    <2>1. /\ UNCHANGED <<due, slots, counters, beat_mutex, log_mutex, data, control, output>>
          /\ UNCHANGED verdicts /\ pc["watchdog"] = "judge" /\ last' = 0 /\ checks <= 3
      BY <1>5 DEF JudgeBeat, TypeOK
    <2>2. CASE last > Deadline[Order[checks]]
      <3>1. Step("watchdog", "judge", "warn") /\ checks' = checks
        BY <1>5, <2>2 DEF JudgeBeat
      <3>2. Judged
        BY <2>1, <3>1 DEF TypeOK, verdicts
      <3> QED BY <1>1, <1>2, <2>1, <3>1, <3>2, LabelsOf DEF TypeOK
    <2>3. CASE ~(last > Deadline[Order[checks]])
      <3>1. Step("watchdog", "judge", "look") /\ checks' = checks + 1
        BY <1>5, <2>3 DEF JudgeBeat
      <3>2. Judged
        BY <1>2, <2>1, <3>1, LabelsOf DEF TypeOK, verdicts
      <3> QED BY <1>1, <1>2, <2>1, <3>1, <3>2, LabelsOf DEF TypeOK
    <2> QED BY <2>2, <2>3
  <1>6. CASE Warn
    <2>1. Step("watchdog", "warn", "log") /\ pc["watchdog"] = "warn"
      BY <1>6 DEF Warn, Step
    <2>0. /\ checks' = checks + 1 /\ last' = last /\ told' = Watched
          /\ alarms' = IF clogs = 0 THEN alarms + 1 ELSE alarms
      BY <1>6 DEF Warn
    <2>3. checks \in 1..3 /\ last \in Nat /\ alarms \in Nat
      BY <2>1 DEF TypeOK
    <2>4. (pc')["watchdog"] = "log"
      BY <1>2, <2>1, LabelsOf
    <2>2. Judged
      BY <2>0, <2>3, <2>4
    <2> QED BY <1>1, <1>2, <1>6, <2>1, <2>2, LabelsOf DEF Warn, TypeOK
  <1>7. CASE WatchdogDone
    <2>1. Step("watchdog", "look", "beat")
      BY <1>7 DEF WatchdogDone
    <2>2. due' \in [Threads -> Nat]
      BY <1>7, ForSets, Names, Numbers DEF WatchdogDone
    <2>3. Judged
      BY <1>2, <1>7, <2>1, LabelsOf DEF WatchdogDone, TypeOK, checking, verdicts
    <2> QED BY <1>1, <1>2, <1>7, <2>1, <2>2, <2>3, LabelsOf DEF WatchdogDone
  <1> QED BY <1>3, <1>4, <1>5, <1>6, <1>7 DEF prvWatchdogThread

LEMMA CommandTypes == TypeOK /\ Commands => TypeOK'
  <1> SUFFICES ASSUME TypeOK, Commands PROVE TypeOK'
    OBVIOUS
  <1> DEFINE Moved == /\ DOMAIN pc' = Threads \cup {"main"}
                      /\ \A u \in DOMAIN pc' : pc'[u] \in Labels[u]
                      /\ pc'["watchdog"] = pc["watchdog"]
             Counted == commands' \in Nat /\ commands' + clogs <= MaxEvents
  <1>2. ASSUME NEW a, NEW b \in Labels["main"], Step("main", a, b) PROVE Moved
    BY <1>2, StepMoves, Names
  <1>3. ASSUME NEW b, Command(b) PROVE Counted /\ Step("main", "idle", b)
    BY <1>3, WatchAssumption DEF Command, More, TypeOK
  <1> HIDE DEF Moved
  <1>4. CASE ecu_reset
    <2>1. Moved /\ Counted
      BY <1>2, <1>3, <1>4, LabelsOf DEF ecu_reset
    <2>2. /\ beats' \in [Threads -> Nat] /\ resets' \in Nat /\ caught' \subseteq Threads
          /\ sequence' \in 0..7
      BY <1>4 DEF ecu_reset, TypeOK
    <2> QED BY <1>4, <2>1, <2>2 DEF ecu_reset, TypeOK, Moved, slots, checking, output, verdicts
  <1>5. ASSUME NEW m \in Modes, ecu_set_fault(m) PROVE TypeOK'
    <2>1. Moved /\ Counted
      BY <1>2, <1>3, <1>5, LabelsOf DEF ecu_set_fault
    <2>2. stalls' \in Nat
      BY <1>5 DEF ecu_set_fault, TypeOK
    <2> QED BY <1>5, <2>1, <2>2 DEF ecu_set_fault, TypeOK, Moved, slots, counters, checking,
                                    data, output, verdicts
  <1>6. CASE queue_clear
    <2>1. Moved
      BY <1>2, <1>6, LabelsOf DEF queue_clear
    <2>2. /\ queue' \in Seq(0..7) /\ Len(queue') <= Capacity /\ frames' \in 0..Capacity
          /\ sequence' \in 0..7
      <3>1. <<>> \in Seq(0..7) /\ Len(<<>>) = 0
        OBVIOUS
      <3>2. CASE queue' = <<>> /\ UNCHANGED <<frames, sequence>>
        BY <3>1, <3>2, WatchAssumption DEF TypeOK
      <3>3. CASE frames' = 0 /\ UNCHANGED <<queue, sequence>>
        BY <3>3, WatchAssumption DEF TypeOK
      <3> QED BY <1>6, <3>2, <3>3 DEF queue_clear
    <2> QED BY <1>6, <2>1, <2>2 DEF queue_clear, TypeOK, Moved, slots, counters, checking,
                                    control, output, verdicts
  <1>7. CASE prvClearBeats
    <2>1. Moved
      BY <1>2, <1>7, LabelsOf DEF prvClearBeats
    <2>2. age' \in [Watched -> Nat] /\ beat_initialized' \subseteq Watched
      BY <1>7 DEF prvClearBeats, Old
    <2> QED BY <1>7, <2>1, <2>2 DEF prvClearBeats, TypeOK, Moved, counters, checking, data,
                                    control, output, verdicts
  <1>8. CASE MainPrint
    <2>1. Moved
      BY <1>2, <1>8, LabelsOf DEF MainPrint
    <2> QED BY <1>8, <2>1 DEF MainPrint, TypeOK, Moved, slots, counters, checking, data,
                              control, output, verdicts
  <1> QED BY <1>4, <1>5, <1>6, <1>7, <1>8 DEF Commands

LEMMA PrintingTypes == TypeOK /\ Printing => TypeOK'
  <1> SUFFICES ASSUME TypeOK, Printing PROVE TypeOK'
    OBVIOUS
  <1>1. CASE Clog
    BY <1>1, WatchAssumption DEF Clog, More, TypeOK, slots, counters, checking, data, control, verdicts
  <1>2. CASE Unclog
    BY <1>2 DEF Unclog, TypeOK, slots, counters, checking, data, control, verdicts
  <1>3. ASSUME NEW t \in Threads, Log(t) PROVE TypeOK'
    <2>1. Step(t, "log", AfterLog[t]) /\ AfterLog[t] \in Labels[t] /\ AfterLog[t] \notin {"judge", "warn"}
      BY <1>3, Names, LabelsOf DEF Log, AfterLog
    <2>2. /\ DOMAIN pc' = Threads \cup {"main"} /\ \A u \in DOMAIN pc' : pc'[u] \in Labels[u]
          /\ pc'["watchdog"] \in {"judge", "warn"} => pc["watchdog"] \in {"judge", "warn"}
      BY <2>1, StepMoves, Names
    <2>3. due' \in [Threads -> Nat]
      BY <1>3, ForSets, Numbers DEF Log, TypeOK
    <2> QED BY <1>3, <2>2, <2>3 DEF Log, TypeOK, slots, counters, checking, data, control, output, verdicts
  <1>4. ASSUME NEW t \in Threads, LogBlocks(t) PROVE TypeOK'
    BY <1>4 DEF LogBlocks, TypeOK, slots, counters, checking, data, control, output, verdicts
  <1> QED BY <1>1, <1>2, <1>3, <1>4 DEF Printing

LEMMA BeatTypes ==
    ASSUME TypeOK, NEW t \in Threads, BeatStore(t) \/ BeatCount(t)
    PROVE  TypeOK'
  <1>1. CASE BeatStore(t)
    <2>1. PICK a : Step(t, a, "count")
      BY <1>1 DEF BeatStore
    <2>2. /\ DOMAIN pc' = Threads \cup {"main"} /\ \A u \in DOMAIN pc' : pc'[u] \in Labels[u]
          /\ pc'["watchdog"] \in {"judge", "warn"} => pc["watchdog"] \in {"judge", "warn"}
      BY <2>1, StepMoves, Names, LabelsOf
    <2>3. /\ age' \in [Watched -> Nat] /\ beat_initialized' \subseteq Watched
          /\ told' \subseteq Watched
      <3>1. CASE t \in Watched
        <4>1. /\ age' = [age EXCEPT ![t] = 0] /\ beat_initialized' = beat_initialized \cup {t}
              /\ told' = (told \ {t}) \cup (IF pc["watchdog"] = "log" THEN {t} ELSE {})
          BY <1>1, <3>1 DEF BeatStore
        <4>2. age \in [Watched -> Nat] /\ beat_initialized \subseteq Watched /\ told \subseteq Watched
          BY DEF TypeOK
        <4> QED BY <3>1, <4>1, <4>2
      <3>2. CASE t \notin Watched
        BY <1>1, <3>2 DEF BeatStore, TypeOK, slots
      <3> QED BY <3>1, <3>2
    <2>4. reg' \in [Threads -> Nat] /\ beat_mutex' \in Threads
      BY <1>1 DEF BeatStore, TypeOK
    <2> QED BY <1>1, <2>2, <2>3, <2>4 DEF BeatStore, TypeOK, checking, data, control, output
  <1>2. CASE BeatCount(t)
    <2>1. Step(t, "count", AfterBeat[t]) /\ AfterBeat[t] \in Labels[t] /\ AfterBeat[t] \notin {"judge", "warn"}
      BY <1>2, Names, LabelsOf DEF BeatCount, AfterBeat
    <2>2. /\ DOMAIN pc' = Threads \cup {"main"} /\ \A u \in DOMAIN pc' : pc'[u] \in Labels[u]
          /\ pc'["watchdog"] \in {"judge", "warn"} => pc["watchdog"] \in {"judge", "warn"}
      BY <2>1, StepMoves, Names
    <2>3. WaitFor(t) \in Nat
      <3>1. due[t] \in Nat
        BY DEF TypeOK
      <3> QED BY <3>1, Numbers, Names DEF WaitFor
    <2>4. due' \in [Threads -> Nat]
      BY <1>2, <2>3, ForSets DEF BeatCount
    <2>5. reg' \in [Threads -> Nat] /\ beats' \in [Threads -> Nat] /\ beat_mutex' = "free"
      BY <1>2 DEF BeatCount, TypeOK
    <2> QED BY <1>2, <2>2, <2>4, <2>5 DEF BeatCount, TypeOK, slots, checking, data, control, output, verdicts
  <1> QED BY <1>1, <1>2

LEMMA NextTypes == TypeOK /\ [Next]_vars => TypeOK'
  <1> SUFFICES ASSUME TypeOK, [Next]_vars PROVE TypeOK'
    OBVIOUS
  <1>1. CASE UNCHANGED vars
    BY <1>1 DEF vars, TypeOK, slots, counters, checking, data, control, output, verdicts
  <1>2. CASE Pass
    <2>1. due' \in [Threads -> Nat] /\ age' \in [Watched -> Nat]
      BY <1>2, PassMoves
    <2> QED BY <1>2, <2>1 DEF Pass, TypeOK, counters, checking, data, control, output, verdicts
  <1> QED BY <1>1, <1>2, NextCases, PipelineTypes, WatchdogTypes, CommandTypes, PrintingTypes,
             BeatTypes

\* Every thread stays in its code, no queue outgrows its capacity, and the
\* watchdog never looks past its third thread.
THEOREM TypeCorrect == Spec => []TypeOK
  BY InitTypes, NextTypes, PTL DEF Spec

-----------------------------------------------------------------------------
(* Where each step takes its thread, and that it leaves the others alone.  *)

Only(t) == \A u \in (Threads \cup {"main"}) \ {t} :
               pc'[u] = pc[u] /\ (u \in Threads => due'[u] = due[u])

LEMMA OnlySteps ==
    ASSUME TypeOK, NEW t \in Threads \cup {"main"}, NEW a, NEW b, Step(t, a, b),
           \/ UNCHANGED due
           \/ t \in Threads /\ \E d \in Nat : For(t, d)
    PROVE  Only(t) /\ pc[t] = a /\ pc'[t] = b
  BY StepMoves, ForSets DEF Only

LEMMA SensorMoves ==
    ASSUME TypeOK, SensorRound \/ SensorPush
    PROVE  /\ Only("sensor")
           /\ SensorRound => /\ pc["sensor"] = "sleep" /\ pc'["sensor"] \in {"make", "log"}
                             /\ due["sensor"] = 0 /\ due'["sensor"] = SleepAfter(fault_mode)
           /\ SensorPush => /\ pc["sensor"] = "make" /\ pc'["sensor"] = "beat"
                            /\ due'["sensor"] = due["sensor"]
  <1>1. CASE SensorRound
    <2>1. PICK b \in {"make", "log"} : Ends("sensor", "sleep", b)
      BY <1>1 DEF SensorRound
    <2>2. For("sensor", SleepAfter(fault_mode)) /\ SleepAfter(fault_mode) \in Nat
      BY <1>1, Numbers DEF SensorRound
    <2>3. ~SensorPush
      BY <2>1 DEF SensorPush, Ends, Step
    <2> QED BY <2>1, <2>2, <2>3, OnlySteps, ForSets, Names DEF Ends
  <1>2. CASE SensorPush
    <2>1. Step("sensor", "make", "beat") /\ UNCHANGED due
      BY <1>2 DEF SensorPush
    <2>2. ~SensorRound
      BY <2>1 DEF SensorRound, Ends, Step
    <2> QED BY <2>1, <2>2, OnlySteps, Names
  <1> QED BY <1>1, <1>2

LEMMA ProcessorMoves ==
    ASSUME TypeOK, ProcessorPop \/ StallOver \/ ProcessorPush \/ PopTimeout("processor")
    PROVE  /\ Only("processor")
           /\ ProcessorPop => /\ pc["processor"] = "pop" /\ due'["processor"] = 0
                              /\ fault_mode = "stall" /\ Head(queue) = 0 => pc'["processor"] = "log"
                              /\ ~(fault_mode = "stall" /\ Head(queue) = 0) => pc'["processor"] = "push"
           /\ StallOver => /\ pc["processor"] = "stall" /\ pc'["processor"] = "push"
                           /\ due["processor"] = 0 /\ due' = due
           /\ ProcessorPush => /\ pc["processor"] = "push" /\ pc'["processor"] = "beat"
                               /\ due' = due
           /\ PopTimeout("processor") => /\ pc["processor"] = "pop" /\ pc'["processor"] = "beat"
                                         /\ due["processor"] = 0 /\ due' = due
  <1>1. ASSUME ProcessorPop
        PROVE  /\ Only("processor") /\ pc["processor"] = "pop" /\ due'["processor"] = 0
               /\ fault_mode = "stall" /\ Head(queue) = 0 => pc'["processor"] = "log"
               /\ ~(fault_mode = "stall" /\ Head(queue) = 0) => pc'["processor"] = "push"
    <2>1. For("processor", 0) /\ 0 \in Nat
      BY <1>1 DEF ProcessorPop
    <2>2. CASE fault_mode = "stall" /\ Head(queue) = 0
      <3>1. Step("processor", "pop", "log")
        BY <1>1, <2>2 DEF ProcessorPop
      <3> QED BY <2>1, <2>2, <3>1, OnlySteps, ForSets, Names
    <2>3. CASE ~(fault_mode = "stall" /\ Head(queue) = 0)
      <3>1. Step("processor", "pop", "push")
        BY <1>1, <2>3 DEF ProcessorPop
      <3> QED BY <2>1, <2>3, <3>1, OnlySteps, ForSets, Names
    <2> QED BY <2>2, <2>3
  <1>2. ASSUME StallOver
        PROVE  /\ Only("processor") /\ pc["processor"] = "stall" /\ pc'["processor"] = "push"
               /\ due["processor"] = 0 /\ due' = due
    BY <1>2, OnlySteps, Names DEF StallOver, Ends
  <1>3. ASSUME ProcessorPush
        PROVE  /\ Only("processor") /\ pc["processor"] = "push" /\ pc'["processor"] = "beat"
               /\ due' = due
    BY <1>3, OnlySteps, Names DEF ProcessorPush
  <1>4. ASSUME PopTimeout("processor")
        PROVE  /\ Only("processor") /\ pc["processor"] = "pop" /\ pc'["processor"] = "beat"
               /\ due["processor"] = 0 /\ due' = due
    BY <1>4, OnlySteps, Names DEF PopTimeout, Ends
  <1> QED BY <1>1, <1>2, <1>3, <1>4

LEMMA LoggerMoves ==
    ASSUME TypeOK, LoggerPop \/ PopTimeout("logger")
    PROVE  /\ Only("logger") /\ pc["logger"] = "pop"
           /\ LoggerPop => pc'["logger"] = "log"
           /\ PopTimeout("logger") => pc'["logger"] = "beat"
  <1>1. ASSUME LoggerPop
        PROVE  Only("logger") /\ pc["logger"] = "pop" /\ pc'["logger"] = "log"
    BY <1>1, OnlySteps, Names DEF LoggerPop
  <1>2. ASSUME PopTimeout("logger")
        PROVE  Only("logger") /\ pc["logger"] = "pop" /\ pc'["logger"] = "beat"
    BY <1>2, OnlySteps, Names DEF PopTimeout, Ends
  <1> QED BY <1>1, <1>2

LEMMA WatchdogMoves ==
    ASSUME TypeOK, prvWatchdogThread
    PROVE  /\ Only("watchdog")
           /\ WatchdogWakes => /\ pc["watchdog"] = "sleep" /\ pc'["watchdog"] = "look"
                               /\ due["watchdog"] = 0 /\ due' = due
           /\ CopyBeat => /\ pc["watchdog"] = "look" /\ due' = due
                          /\ Order[checks] \in beat_initialized => pc'["watchdog"] = "judge"
                          /\ Order[checks] \notin beat_initialized => pc'["watchdog"] = "look"
           /\ JudgeBeat => /\ pc["watchdog"] = "judge" /\ due' = due
                           /\ last > Deadline[Order[checks]] => pc'["watchdog"] = "warn"
                           /\ ~(last > Deadline[Order[checks]]) => pc'["watchdog"] = "look"
           /\ Warn => /\ pc["watchdog"] = "warn" /\ pc'["watchdog"] = "log" /\ due' = due
           /\ WatchdogDone => /\ pc["watchdog"] = "look" /\ pc'["watchdog"] = "beat"
                              /\ due'["watchdog"] = CheckEvery
  <1>1. ASSUME WatchdogWakes
        PROVE  /\ Only("watchdog") /\ pc["watchdog"] = "sleep" /\ pc'["watchdog"] = "look"
               /\ due["watchdog"] = 0 /\ due' = due
    BY <1>1, OnlySteps, Names DEF WatchdogWakes, Ends
  <1>2. ASSUME CopyBeat
        PROVE  /\ Only("watchdog") /\ pc["watchdog"] = "look" /\ due' = due
               /\ Order[checks] \in beat_initialized => pc'["watchdog"] = "judge"
               /\ Order[checks] \notin beat_initialized => pc'["watchdog"] = "look"
    <2>1. pc["watchdog"] = "look" /\ due' = due
      BY <1>2 DEF CopyBeat
    <2>2. CASE Order[checks] \in beat_initialized
      <3>1. Step("watchdog", "look", "judge")
        BY <1>2, <2>1, <2>2 DEF CopyBeat, Step
      <3> QED BY <2>1, <2>2, <3>1, OnlySteps, Names
    <2>3. CASE Order[checks] \notin beat_initialized
      BY <1>2, <2>1, <2>3 DEF CopyBeat, Only
    <2> QED BY <2>2, <2>3
  <1>3. ASSUME JudgeBeat
        PROVE  /\ Only("watchdog") /\ pc["watchdog"] = "judge" /\ due' = due
               /\ last > Deadline[Order[checks]] => pc'["watchdog"] = "warn"
               /\ ~(last > Deadline[Order[checks]]) => pc'["watchdog"] = "look"
    <2>1. pc["watchdog"] = "judge" /\ due' = due
      BY <1>3 DEF JudgeBeat
    <2>2. CASE last > Deadline[Order[checks]]
      <3>1. Step("watchdog", "judge", "warn")
        BY <1>3, <2>2 DEF JudgeBeat
      <3> QED BY <2>1, <2>2, <3>1, OnlySteps, Names
    <2>3. CASE ~(last > Deadline[Order[checks]])
      <3>1. Step("watchdog", "judge", "look")
        BY <1>3, <2>3 DEF JudgeBeat
      <3> QED BY <2>1, <2>3, <3>1, OnlySteps, Names
    <2> QED BY <2>2, <2>3
  <1>4. ASSUME Warn
        PROVE  /\ Only("watchdog") /\ pc["watchdog"] = "warn" /\ pc'["watchdog"] = "log"
               /\ due' = due
    BY <1>4, OnlySteps, Names DEF Warn
  <1>5. ASSUME WatchdogDone
        PROVE  /\ Only("watchdog") /\ pc["watchdog"] = "look" /\ pc'["watchdog"] = "beat"
               /\ due'["watchdog"] = CheckEvery
    <2>1. Step("watchdog", "look", "beat") /\ For("watchdog", CheckEvery) /\ CheckEvery \in Nat
      BY <1>5, Numbers DEF WatchdogDone
    <2> QED BY <2>1, OnlySteps, ForSets, Names
  <1> QED BY <1>1, <1>2, <1>3, <1>4, <1>5 DEF prvWatchdogThread

\* A command moves the main thread alone.
LEMMA CommandMoves ==
    ASSUME TypeOK, Commands
    PROVE  Only("main") /\ due' = due /\ pc'["main"] # "count"
  <1>1. ASSUME NEW a, NEW b, Step("main", a, b), due' = due, b # "count"
        PROVE  Only("main") /\ due' = due /\ pc'["main"] # "count"
    BY <1>1, OnlySteps
  <1>2. CASE ecu_reset
    BY <1>1, <1>2 DEF ecu_reset, Command
  <1>3. ASSUME NEW m \in Modes, ecu_set_fault(m)
        PROVE  Only("main") /\ due' = due /\ pc'["main"] # "count"
    BY <1>1, <1>3 DEF ecu_set_fault, Command
  <1>4. CASE queue_clear
    BY <1>1, <1>4 DEF queue_clear
  <1>5. CASE prvClearBeats
    BY <1>1, <1>5 DEF prvClearBeats
  <1>6. CASE MainPrint
    BY <1>1, <1>6 DEF MainPrint
  <1> QED BY <1>2, <1>3, <1>4, <1>5, <1>6 DEF Commands

LEMMA LogMoves ==
    ASSUME TypeOK, NEW t \in Threads, Log(t)
    PROVE  /\ Only(t) /\ pc[t] = "log" /\ pc'[t] = AfterLog[t]
           /\ t # "processor" => due' = due
           /\ t = "processor" => due'[t] = Stall
  <1>1. Step(t, "log", AfterLog[t])
    BY DEF Log
  <1>2. CASE t = "processor"
    <2>1. For(t, Stall) /\ Stall \in Nat
      BY <1>2, Numbers DEF Log
    <2> QED BY <1>1, <1>2, <2>1, OnlySteps, ForSets
  <1>3. CASE t # "processor"
    <2>1. UNCHANGED due
      BY <1>3 DEF Log
    <2> QED BY <1>1, <1>3, <2>1, OnlySteps
  <1> QED BY <1>2, <1>3

LEMMA BeatMoves ==
    ASSUME TypeOK, NEW t \in Threads
    PROVE  /\ BeatStore(t) => /\ Only(t) /\ due' = due
                              /\ pc[t] \in {"start", "beat"} /\ pc'[t] = "count"
           /\ BeatCount(t) => /\ Only(t) /\ due'[t] = WaitFor(t)
                              /\ pc[t] = "count" /\ pc'[t] = AfterBeat[t]
  <1>1. ASSUME BeatStore(t)
        PROVE  Only(t) /\ due' = due /\ pc[t] \in {"start", "beat"} /\ pc'[t] = "count"
    <2>1. PICK a \in {"start", "beat"} : Step(t, a, "count")
      BY <1>1 DEF BeatStore
    <2>2. UNCHANGED due
      BY <1>1 DEF BeatStore
    <2> QED BY <2>1, <2>2, OnlySteps
  <1>2. ASSUME BeatCount(t)
        PROVE  Only(t) /\ due'[t] = WaitFor(t) /\ pc[t] = "count" /\ pc'[t] = AfterBeat[t]
    <2>1. Step(t, "count", AfterBeat[t]) /\ For(t, WaitFor(t))
      BY <1>2 DEF BeatCount
    <2>2. WaitFor(t) \in Nat
      <3>1. due[t] \in Nat
        BY DEF TypeOK
      <3> QED BY <3>1, Numbers, Names DEF WaitFor
    <2> QED BY <2>1, <2>2, OnlySteps, ForSets
  <1> QED BY <1>1, <1>2

-----------------------------------------------------------------------------
(***************************************************************************)
(* The beat counters.  Between the two halves of its increment a thread's  *)
(* register holds what the counter holds, unless a reset has caught it     *)
(* there; then what it writes back is from before the reset.               *)
(***************************************************************************)
CountInv == \A t \in Threads :
                /\ beats[t] # resets => t \in caught
                /\ pc[t] = "count" => reg[t] = beats[t] \/ t \in caught

\* All but ecu_reset and prvBeat leave the counters alone.
LEMMA CountersKept ==
    ASSUME TypeOK, \/ Pipeline \/ prvWatchdogThread \/ Printing \/ Pass
                   \/ Commands /\ ~ecu_reset
    PROVE  UNCHANGED counters /\ \A t \in Threads : pc'[t] = "count" => pc[t] = "count"
  <1>1. CASE Pipeline
    <2>1. UNCHANGED counters
      BY <1>1 DEF Pipeline, SensorRound, SensorPush, ProcessorPop, StallOver, ProcessorPush,
                  PopTimeout, LoggerPop
    <2>2. PICK t \in Watched : Only(t) /\ pc'[t] # "count"
      BY <1>1, SensorMoves, ProcessorMoves, LoggerMoves, Names DEF Pipeline
    <2> QED BY <2>1, <2>2 DEF Only
  <1>2. CASE prvWatchdogThread
    <2>1. UNCHANGED counters
      BY <1>2 DEF prvWatchdogThread, WatchdogWakes, CopyBeat, JudgeBeat, Warn, WatchdogDone
    <2>2. Only("watchdog") /\ pc'["watchdog"] # "count"
      BY <1>2, WatchdogMoves DEF prvWatchdogThread
    <2> QED BY <2>1, <2>2 DEF Only
  <1>3. CASE Printing
    <2>1. CASE Clog \/ Unclog
      BY <2>1 DEF Clog, Unclog
    <2>2. ASSUME NEW t \in Threads, Log(t) \/ LogBlocks(t)
          PROVE  UNCHANGED counters /\ \A u \in Threads : pc'[u] = "count" => pc[u] = "count"
      <3>1. CASE Log(t)
        <4>1. UNCHANGED counters
          BY <3>1 DEF Log
        <4>2. AfterLog[t] # "count"
          BY Names DEF AfterLog
        <4> QED BY <3>1, <4>1, <4>2, LogMoves DEF Only
      <3>2. CASE LogBlocks(t)
        BY <3>2 DEF LogBlocks
      <3> QED BY <2>2, <3>1, <3>2
    <2> QED BY <1>3, <2>1, <2>2 DEF Printing
  <1>4. CASE Pass
    BY <1>4 DEF Pass
  <1>5. CASE Commands /\ ~ecu_reset
    <2>1. UNCHANGED counters
      BY <1>5 DEF Commands, ecu_set_fault, queue_clear, prvClearBeats, MainPrint
    <2> QED BY <1>5, <2>1, CommandMoves, Names DEF Only
  <1> QED BY <1>1, <1>2, <1>3, <1>4, <1>5

LEMMA CountStep == TypeOK /\ CountInv /\ [Next]_vars => CountInv'
  <1> SUFFICES ASSUME TypeOK, CountInv, [Next]_vars PROVE CountInv'
    OBVIOUS
  <1>1. CASE UNCHANGED vars
    BY <1>1 DEF vars, counters, CountInv
  <1>2. CASE \/ Pipeline \/ prvWatchdogThread \/ Printing \/ Pass
             \/ Commands /\ ~ecu_reset
    BY <1>2, CountersKept DEF counters, CountInv
  <1>3. CASE ecu_reset
    <2>1. /\ resets' = resets + 1 /\ beats' = [t \in Threads |-> resets + 1]
          /\ caught' = {t \in Threads : pc[t] = "count"}
      BY <1>3 DEF ecu_reset
    <2>2. \A t \in Threads : pc'[t] = pc[t]
      BY <1>3, CommandMoves, Names DEF Commands, Only
    <2> QED BY <2>1, <2>2 DEF CountInv
  <1>4. ASSUME NEW t \in Threads, BeatStore(t) PROVE CountInv'
    <2>1. reg' = [reg EXCEPT ![t] = beats[t]] /\ UNCHANGED <<beats, resets, caught>>
      BY <1>4 DEF BeatStore
    <2>2. reg'[t] = beats[t] /\ \A u \in Threads : u # t => reg'[u] = reg[u]
      BY <2>1 DEF TypeOK
    <2>3. \A u \in Threads : u # t => pc'[u] = pc[u]
      BY <1>4, BeatMoves DEF Only
    <2> QED BY <2>1, <2>2, <2>3 DEF CountInv
  <1>5. ASSUME NEW t \in Threads, BeatCount(t) PROVE CountInv'
    <2>1. /\ beats' = [beats EXCEPT ![t] = reg[t]] /\ reg' = [reg EXCEPT ![t] = 0]
          /\ UNCHANGED <<resets, caught>>
      BY <1>5 DEF BeatCount
    <2>2. beats'[t] = reg[t] /\ \A u \in Threads : u # t => beats'[u] = beats[u] /\ reg'[u] = reg[u]
      BY <2>1 DEF TypeOK
    <2>3. /\ pc[t] = "count" /\ pc'[t] # "count" /\ \A u \in Threads : u # t => pc'[u] = pc[u]
      <3>1. AfterBeat[t] # "count"
        BY Names DEF AfterBeat
      <3> QED BY <1>5, <3>1, BeatMoves DEF Only
    <2> QED BY <2>1, <2>2, <2>3 DEF CountInv
  <1> QED BY <1>1, <1>2, <1>3, <1>4, <1>5, NextCases

\* The increments of beat_snapshot under beat_mutex and its memset under
\* state_mutex race, and the race loses only the zero of a thread that the memset
\* finds between its read and its write.
THEOREM CountersRestart == Spec => []ResetZeroesBeats
  <1>1. Init => CountInv
    <2> SUFFICES ASSUME Init PROVE CountInv
      OBVIOUS
    <2>1. \A t \in Threads : beats[t] = 0 /\ reg[t] = 0 /\ resets = 0
      BY DEF Init
    <2> QED BY <2>1 DEF CountInv
  <1>2. CountInv => ResetZeroesBeats
    BY DEF CountInv, ResetZeroesBeats
  <1> QED BY <1>1, <1>2, InitTypes, NextTypes, CountStep, PTL DEF Spec

-----------------------------------------------------------------------------
(***************************************************************************)
(* Late beats.  A thread no warning has been counted for since its beat is *)
(* no later than the watchdog's last look at it, and the time since then,  *)
(* allow; and while the watchdog itself is held up, one has been counted.  *)
(***************************************************************************)
Place == [sensor |-> 1, processor |-> 2, logger |-> 3]

LateInv ==
    /\ due["watchdog"] <= CheckEvery
    /\ pc["watchdog"] = "log" => told = Watched
    /\ \A t \in beat_initialized \ told :
         /\ pc["watchdog"] \in {"start", "beat", "count", "sleep"} =>
                age[t] <= Deadline[t] + CheckEvery - due["watchdog"]
         /\ pc["watchdog"] \in {"look", "judge", "warn"} =>
                age[t] <= Deadline[t] + (IF Place[t] < checks THEN 0 ELSE CheckEvery)
         /\ pc["watchdog"] = "judge" /\ Place[t] = checks => age[t] <= last

LEMMA Places ==
    /\ \A t \in Watched : Place[t] \in 1..3 /\ Order[Place[t]] = t
    /\ \A i \in 1..3 : Order[i] \in Watched /\ Place[Order[i]] = i
  BY Names DEF Place, Order

\* Who leaves the watchdog, the ages and the warnings alone.
LEMMA WatchKept ==
    ASSUME TypeOK, Pipeline \/ (Commands /\ ~prvClearBeats) \/ Printing
    PROVE  /\ UNCHANGED <<slots, checking, told, due["watchdog"]>>
           /\ pc'["watchdog"] = pc["watchdog"] \/ (pc["watchdog"] = "log" /\ pc'["watchdog"] = "look")
  <1>1. CASE Pipeline
    <2>1. UNCHANGED <<slots, checking, told>>
      BY <1>1 DEF Pipeline, SensorRound, SensorPush, ProcessorPop, StallOver, ProcessorPush,
                  PopTimeout, LoggerPop, verdicts
    <2>2. PICK t \in Watched : Only(t)
      BY <1>1, SensorMoves, ProcessorMoves, LoggerMoves, Names DEF Pipeline
    <2> QED BY <2>1, <2>2, Names DEF Only
  <1>2. CASE Commands /\ ~prvClearBeats
    <2>1. UNCHANGED <<slots, checking, told>>
      BY <1>2 DEF Commands, ecu_reset, ecu_set_fault, queue_clear, MainPrint, verdicts
    <2> QED BY <1>2, <2>1, CommandMoves, Names DEF Only
  <1>3. CASE Printing
    <2>1. CASE Clog \/ Unclog
      BY <2>1 DEF Clog, Unclog, verdicts
    <2>2. ASSUME NEW t \in Threads, Log(t)
          PROVE  /\ UNCHANGED <<slots, checking, told, due["watchdog"]>>
                 /\ \/ pc'["watchdog"] = pc["watchdog"]
                    \/ pc["watchdog"] = "log" /\ pc'["watchdog"] = "look"
      <3>1. UNCHANGED <<slots, checking, told>>
        BY <2>2 DEF Log, verdicts
      <3>2. AfterLog["watchdog"] = "look"
        BY DEF AfterLog
      <3> QED BY <2>2, <3>1, <3>2, LogMoves, Names DEF Only
    <2>3. ASSUME NEW t \in Threads, LogBlocks(t)
          PROVE  UNCHANGED <<slots, checking, told, due["watchdog"], pc["watchdog"]>>
      BY <2>3 DEF LogBlocks, verdicts
    <2> QED BY <1>3, <2>1, <2>2, <2>3 DEF Printing
  <1> QED BY <1>1, <1>2, <1>3

LEMMA LateKept ==
    ASSUME TypeOK, LateInv, Pipeline \/ (Commands /\ ~prvClearBeats) \/ Printing
    PROVE  LateInv'
  <1>1. /\ UNCHANGED <<age, beat_initialized, checks, last, told>>
        /\ due'["watchdog"] = due["watchdog"]
        /\ \/ pc'["watchdog"] = pc["watchdog"]
           \/ pc["watchdog"] = "log" /\ pc'["watchdog"] = "look"
    BY WatchKept DEF slots, checking
  <1>2. CASE pc'["watchdog"] = pc["watchdog"]
    BY <1>1, <1>2 DEF LateInv
  <1>3. CASE pc["watchdog"] = "log" /\ pc'["watchdog"] = "look"
    <2>1. beat_initialized' \ told' = {}
      BY <1>1, <1>3 DEF LateInv, TypeOK
    <2> QED BY <1>1, <1>3, <2>1 DEF LateInv
  <1> QED BY <1>1, <1>2, <1>3

LEMMA LateBeats ==
    ASSUME TypeOK, LateInv, NEW t \in Threads, BeatStore(t) \/ BeatCount(t)
    PROVE  LateInv'
  <1>1. CASE BeatCount(t)
    <2>1. UNCHANGED <<age, beat_initialized, checks, last, told>>
      BY <1>1 DEF BeatCount, slots, checking, verdicts
    <2>2. due'["watchdog"] = due["watchdog"]
      BY <1>1, BeatMoves, Names DEF Only, WaitFor
    <2>3. \/ pc'["watchdog"] = pc["watchdog"]
          \/ pc["watchdog"] = "count" /\ pc'["watchdog"] = "sleep"
      BY <1>1, BeatMoves, Names DEF Only, AfterBeat
    <2> QED BY <2>1, <2>2, <2>3 DEF LateInv
  <1>2. CASE BeatStore(t) /\ t = "watchdog"
    <2>1. UNCHANGED <<age, beat_initialized, checks, last, told>>
      BY <1>2, Names DEF BeatStore, slots, checking
    <2>2. /\ due'["watchdog"] = due["watchdog"] /\ pc'["watchdog"] = "count"
          /\ pc["watchdog"] \in {"start", "beat"}
      BY <1>2, BeatMoves
    <2> QED BY <2>1, <2>2 DEF LateInv
  <1>3. CASE BeatStore(t) /\ t \in Watched
    <2>1. /\ age' = [age EXCEPT ![t] = 0] /\ beat_initialized' = beat_initialized \cup {t}
          /\ told' = (told \ {t}) \cup (IF pc["watchdog"] = "log" THEN {t} ELSE {})
          /\ UNCHANGED <<checks, last>>
      BY <1>3 DEF BeatStore, checking
    <2>2. due'["watchdog"] = due["watchdog"] /\ pc'["watchdog"] = pc["watchdog"]
      BY <1>3, BeatMoves, Names DEF Only
    <2>3. pc'["watchdog"] = "log" => told' = Watched
      BY <1>3, <2>1, <2>2 DEF LateInv
    <2>4. age'[t] = 0 /\ \A u \in Watched : u # t => age'[u] = age[u]
      BY <1>3, <2>1 DEF TypeOK
    <2>5. \A u \in beat_initialized' \ told' : u = t \/ u \in beat_initialized \ told
      BY <2>1
    <2>6. Deadline[t] \in Nat /\ last \in Nat /\ checks \in Nat /\ due["watchdog"] \in Nat
      <3>1. last \in Nat /\ checks \in Nat /\ due["watchdog"] \in Nat
        BY Names DEF TypeOK
      <3> QED BY <1>3, <3>1, Numbers
    <2>7. beat_initialized' \subseteq Watched
      BY <1>3, <2>1 DEF TypeOK
    <2>8. ASSUME NEW u \in beat_initialized' \ told'
          PROVE  /\ pc'["watchdog"] \in {"start", "beat", "count", "sleep"} =>
                        age'[u] <= Deadline[u] + CheckEvery - due'["watchdog"]
                 /\ pc'["watchdog"] \in {"look", "judge", "warn"} =>
                        age'[u] <= Deadline[u] + (IF Place[u] < checks' THEN 0 ELSE CheckEvery)
                 /\ pc'["watchdog"] = "judge" /\ Place[u] = checks' => age'[u] <= last'
      <3>1. CASE u = t
        BY <2>1, <2>2, <2>4, <2>6, <3>1, Numbers DEF LateInv
      <3>2. CASE u # t
        BY <2>1, <2>2, <2>4, <2>5, <2>7, <2>8, <3>2 DEF LateInv
      <3> QED BY <3>1, <3>2
    <2>9. due'["watchdog"] <= CheckEvery
      BY <2>2 DEF LateInv
    <2> QED BY <2>3, <2>8, <2>9 DEF LateInv
  <1> QED BY <1>1, <1>2, <1>3, Names

LEMMA LateWatchdog == TypeOK /\ LateInv /\ prvWatchdogThread => LateInv'
  <1> SUFFICES ASSUME TypeOK, LateInv, prvWatchdogThread PROVE LateInv'
    OBVIOUS
  <1>1. UNCHANGED <<age, beat_initialized>>
    BY DEF prvWatchdogThread, WatchdogWakes, CopyBeat, JudgeBeat, Warn, WatchdogDone, slots
  <1>2. /\ age \in [Watched -> Nat] /\ beat_initialized \subseteq Watched
        /\ last \in Nat /\ checks \in 1..4 /\ due["watchdog"] \in Nat
        /\ pc["watchdog"] \in {"judge", "warn"} => checks <= 3
    BY Names DEF TypeOK
  <1>3. CASE WatchdogWakes
    <2>1. pc["watchdog"] = "sleep" /\ pc'["watchdog"] = "look" /\ due["watchdog"] = 0 /\ due' = due
      BY <1>3, WatchdogMoves
    <2>2. checks' = 1 /\ told' = told /\ last' = last
      BY <1>3 DEF WatchdogWakes, verdicts
    <2> QED BY <1>1, <1>2, <2>1, <2>2, Places, Numbers DEF LateInv
  <1>4. CASE CopyBeat
    <2>1. pc["watchdog"] = "look" /\ due' = due /\ told' = told /\ checks \in 1..3
      BY <1>2, <1>4, WatchdogMoves DEF CopyBeat, verdicts
    <2>2. CASE Order[checks] \in beat_initialized
      <3>1. pc'["watchdog"] = "judge" /\ checks' = checks /\ last' = age[Order[checks]]
        BY <1>4, <2>2, WatchdogMoves DEF CopyBeat
      <3> QED BY <1>1, <1>2, <2>1, <3>1, Places DEF LateInv
    <2>3. CASE Order[checks] \notin beat_initialized
      <3>1. pc'["watchdog"] = "look" /\ checks' = checks + 1 /\ last' = last
        BY <1>4, <2>3, WatchdogMoves DEF CopyBeat
      <3>2. \A t \in beat_initialized : Place[t] < checks' => Place[t] < checks
        BY <1>2, <2>1, <2>3, <3>1, Places
      <3> QED BY <1>1, <1>2, <2>1, <3>1, <3>2, Places DEF LateInv
    <2> QED BY <2>2, <2>3
  <1>5. CASE JudgeBeat
    <2>1. pc["watchdog"] = "judge" /\ due' = due /\ told' = told /\ checks \in 1..3
      BY <1>2, <1>5, WatchdogMoves DEF JudgeBeat, verdicts
    <2>2. CASE last > Deadline[Order[checks]]
      <3>1. pc'["watchdog"] = "warn" /\ checks' = checks
        BY <1>5, <2>2, WatchdogMoves DEF JudgeBeat
      <3> QED BY <1>1, <1>2, <2>1, <3>1 DEF LateInv
    <2>3. CASE ~(last > Deadline[Order[checks]])
      <3>1. pc'["watchdog"] = "look" /\ checks' = checks + 1
        BY <1>5, <2>3, WatchdogMoves DEF JudgeBeat
      <3>2. Order[checks] \in Watched /\ Deadline[Order[checks]] \in Nat
        BY <2>1, Places, Numbers
      <3>3. ASSUME NEW t \in beat_initialized \ told
            PROVE  age[t] <= Deadline[t] + (IF Place[t] < checks + 1 THEN 0 ELSE CheckEvery)
        <4>1. CASE Place[t] = checks
          <5>1. t = Order[checks] /\ age[t] <= last
            BY <1>2, <2>1, <4>1, Places DEF LateInv
          <5> QED BY <1>2, <2>1, <2>3, <3>2, <4>1, <5>1
        <4>2. CASE Place[t] # checks
          <5>1. Place[t] < checks + 1 <=> Place[t] < checks
            BY <1>2, <2>1, <4>2, Places
          <5> QED BY <2>1, <5>1 DEF LateInv
        <4> QED BY <4>1, <4>2
      <3> QED BY <1>1, <2>1, <3>1, <3>3 DEF LateInv
    <2> QED BY <2>2, <2>3
  <1>6. CASE Warn
    <2>1. pc'["watchdog"] = "log" /\ due' = due /\ told' = Watched
      BY <1>6, WatchdogMoves DEF Warn
    <2>2. beat_initialized' \ told' = {}
      BY <1>1, <1>2, <2>1
    <2> QED BY <2>1, <2>2 DEF LateInv
  <1>7. CASE WatchdogDone
    <2>1. /\ pc["watchdog"] = "look" /\ pc'["watchdog"] = "beat" /\ due'["watchdog"] = CheckEvery
          /\ checks = 4 /\ told' = told
      BY <1>7, WatchdogMoves DEF WatchdogDone, verdicts
    <2>2. ASSUME NEW t \in beat_initialized \ told
          PROVE  age[t] <= Deadline[t] + CheckEvery - due'["watchdog"]
      <3>1. Place[t] < checks /\ age[t] <= Deadline[t] + 0 /\ Deadline[t] \in Nat
        BY <1>2, <2>1, Places, Numbers DEF LateInv
      <3> QED BY <1>2, <2>1, <3>1, Numbers
    <2> QED BY <1>1, <2>1, <2>2, Numbers DEF LateInv
  <1> QED BY <1>3, <1>4, <1>5, <1>6, <1>7 DEF prvWatchdogThread

LEMMA LatePass == TypeOK /\ LateInv /\ Pass => LateInv'
  <1> SUFFICES ASSUME TypeOK, LateInv, Pass PROVE LateInv'
    OBVIOUS
  <1>1. UNCHANGED <<pc, beat_initialized, checks, last, told>>
    BY DEF Pass, checking, verdicts
  <1>2. CASE pc["watchdog"] = "sleep"
    <2>1. /\ Span \in Nat /\ due'["watchdog"] = due["watchdog"] - Span /\ due["watchdog"] \in Nat
          /\ \A t \in Watched : age'[t] <= age[t] + Span /\ age'[t] \in Nat /\ age[t] \in Nat
      BY <1>2, PassMoves, Names DEF TypeOK
    <2>2. ASSUME NEW t \in beat_initialized \ told
          PROVE  age'[t] <= Deadline[t] + CheckEvery - due'["watchdog"]
      <3>1. t \in Watched
        BY DEF TypeOK
      <3>2. age[t] <= Deadline[t] + CheckEvery - due["watchdog"]
        BY <1>2 DEF LateInv
      <3>3. Deadline[t] \in Nat
        BY <3>1, Numbers
      <3> QED BY <2>1, <3>1, <3>2, <3>3, Numbers
    <2>3. due'["watchdog"] <= CheckEvery
      BY <2>1, Numbers DEF LateInv
    <2> QED BY <1>1, <1>2, <2>2, <2>3 DEF LateInv
  <1>3. CASE pc["watchdog"] = "log"
    <2>1. beat_initialized \ told = {}
      BY <1>3 DEF LateInv, TypeOK
    <2>2. due'["watchdog"] = due["watchdog"]
      BY <1>3, PassMoves, Names
    <2> QED BY <1>1, <1>3, <2>1, <2>2 DEF LateInv
  <1> QED BY <1>2, <1>3, PassWaits

LEMMA LateStep == TypeOK /\ LateInv /\ [Next]_vars => LateInv'
  <1> SUFFICES ASSUME TypeOK, LateInv, [Next]_vars PROVE LateInv'
    OBVIOUS
  <1>1. CASE UNCHANGED vars
    BY <1>1 DEF vars, slots, checking, verdicts, LateInv
  <1>2. CASE prvClearBeats
    <2>1. beat_initialized' = {} /\ told' = told
      BY <1>2 DEF prvClearBeats, verdicts
    <2>2. due' = due /\ pc'["watchdog"] = pc["watchdog"]
      BY <1>2, CommandMoves, Names DEF Commands, Only
    <2> QED BY <2>1, <2>2 DEF LateInv
  <1> QED BY <1>1, <1>2, NextCases, LateKept, LateBeats, LateWatchdog, LatePass

\* A thread can be later than its deadline and a period of the watchdog only if a
\* warning has been counted since its last beat, whatever the watchdog's own
\* delays, a reset between a look and its verdict, and an output that blocks.
THEOREM LateIsCounted == Spec => []LatenessIsCounted
  <1>1. Init => LateInv
    BY Names, Numbers DEF Init, LateInv
  <1>2. TypeOK /\ LateInv => LatenessIsCounted
    <2> SUFFICES ASSUME TypeOK, LateInv, NEW t \in beat_initialized,
                        age[t] > Deadline[t] + CheckEvery, t \notin told
                 PROVE  FALSE
      BY DEF LatenessIsCounted
    <2>1. t \in Watched /\ age[t] \in Nat /\ Deadline[t] \in Nat /\ due["watchdog"] \in Nat
      <3>1. t \in Watched
        BY DEF TypeOK
      <3>2. age[t] \in Nat /\ due["watchdog"] \in Nat
        BY <3>1, Names DEF TypeOK
      <3> QED BY <3>1, <3>2, Numbers
    <2>2. pc["watchdog"] \in {"start", "beat", "count", "sleep", "look", "judge", "warn", "log"}
      BY LabelsNow, LabelsOf
    <2>3. pc["watchdog"] # "log"
      BY <2>1 DEF LateInv
    <2>4. age[t] <= Deadline[t] + CheckEvery
      BY <2>1, <2>2, <2>3, Numbers DEF LateInv
    <2> QED BY <2>1, <2>4, Numbers
  <1> QED BY <1>1, <1>2, InitTypes, NextTypes, LateStep, PTL DEF Spec

-----------------------------------------------------------------------------
(***************************************************************************)
(* Warnings.  While the output is read, every warning is of a stall, and   *)
(* no command "fault stall" gives rise to two: it is handed on like a      *)
(* token.  Whoever sets the fault has it.  The first stall after a long    *)
(* wait takes it; this is the only late one, as from then on samples come  *)
(* each 90 ms and the wait for the stalled one is short.  The verdict that *)
(* finds that stall takes it from the stall, and the warning keeps it.     *)
(***************************************************************************)

\* How long t still sleeps or waits, if nothing comes.
Left(t) == IF pc[t] \in {"sleep", "pop", "stall"} THEN due[t] ELSE 0

\* The longest time between two beats.
Gap == [sensor |-> 6, processor |-> SampleWait + Stall, logger |-> FrameWait]

PaceOf(t) == t \in beat_initialized =>
    /\ pc[t] # "start"
    /\ pc[t] = "count" => age[t] = 0
    /\ age[t] + Left(t) <= Gap[t]
    /\ t = "processor" /\ pc[t] \in {"pop", "log"} => age[t] + Left(t) <= SampleWait

SensorPace == due["sensor"] <= 6 /\ (pc["sensor"] \in {"make", "log"} => due["sensor"] > 0)

PaceInv == /\ ~clogged /\ log_mutex = "free"
           /\ SensorPace /\ \A t \in Watched : PaceOf(t)

\* What ecu_reset has done by the time it clears the sensor queue: at most one
\* sample has been made since, and that is not one to be stalled.
ResetSection ==
    pc["main"] = "clear_sensor" =>
        \/ sequence = 0
        \/ sequence = 1 /\ pc["sensor"] \in {"beat", "count", "sleep"} /\ due["sensor"] > 0

UntilMade == IF pc["sensor"] \in {"make", "log"} THEN 0 ELSE due["sensor"]
Soon(n)   == n <= Deadline["processor"] - Stall

\* Under FAULT_PROCESSOR_STALL: the sensor is at its short period, or will be
\* before the stall ends, and no sample to be stalled is waited for too long.
ShortPeriod == \/ due["sensor"] <= 3
               \/ pc["processor"] = "log"
               \/ pc["processor"] = "stall" /\ due["processor"] >= due["sensor"]
ShortWait == "processor" \in beat_initialized /\ pc["processor"] = "pop" =>
                 IF queue = <<>> THEN Soon(age["processor"] + UntilMade) \/ (sequence + 1) % 8 # 0
                                 ELSE Soon(age["processor"]) \/ Head(queue) # 0
Calm == ShortPeriod /\ ShortWait

\* The processor is in a stall that makes its next beat late.
Late == /\ "processor" \in beat_initialized
        /\ \/ pc["processor"] = "log" /\ ~Soon(age["processor"])
           \/ pc["processor"] \in {"stall", "push", "beat"}
              /\ age["processor"] + Left("processor") > Deadline["processor"]

\* The watchdog is about to warn.
Condemned == \/ pc["watchdog"] = "warn"
             \/ pc["watchdog"] = "judge" /\ last > Deadline[Order[checks]]

\* The watchdog has dealt with the processor, and will not look at it again
\* before the stall is over.
Passed == /\ pc["processor"] # "log" /\ Left("processor") < CheckEvery
          /\ \/ pc["watchdog"] \in {"look", "judge", "log"} /\ checks >= 3
             \/ Condemned
             \/ pc["watchdog"] \in {"beat", "count", "sleep"} /\ due["watchdog"] > Left("processor")

\* Who may have the token.
Armed   == fault_mode = "stall" /\ ~Calm
Pending == Late /\ ~Passed
One(b)  == IF b THEN 1 ELSE 0

TokenInv == /\ alarms + One(Condemned) + One(Pending) + One(Armed) <= stalls
            /\ Condemned => checks = 2

AlarmInv == /\ alarms <= stalls
            /\ clogs = 0 => PaceInv /\ ResetSection /\ TokenInv

LEMMA Lengths ==
    /\ Gap["sensor"] = 6 /\ Gap["processor"] = 34 /\ Gap["logger"] = 10
    /\ \A n : Soon(n) <=> n <= 5
  BY Numbers DEF Gap, Soon

\* A step of one thread does not change the others' pace.
LEMMA PaceFrame ==
    ASSUME TypeOK, PaceInv, NEW t \in Threads \cup {"main"}, Only(t),
           UNCHANGED slots, UNCHANGED <<clogged, log_mutex>>,
           t \in Watched => PaceOf(t)',
           t = "sensor" => SensorPace'
    PROVE  PaceInv'
  <1>1. \A u \in Watched : u # t => PaceOf(u)'
    BY Names DEF PaceInv, PaceOf, Only, Left, slots
  <1>2. SensorPace'
    BY Names DEF PaceInv, SensorPace, Only
  <1> QED BY <1>1, <1>2 DEF PaceInv

LEMMA PacePipeline == TypeOK /\ PaceInv /\ Pipeline => PaceInv'
  <1> SUFFICES ASSUME TypeOK, PaceInv, Pipeline PROVE PaceInv'
    OBVIOUS
  <1>1. UNCHANGED slots /\ UNCHANGED <<clogged, log_mutex>>
    BY DEF Pipeline, SensorRound, SensorPush, ProcessorPop, StallOver, ProcessorPush,
           PopTimeout, LoggerPop, output
  <1>2. /\ due \in [Threads -> Nat] /\ age \in [Watched -> Nat]
        /\ \A t \in Watched : PaceOf(t)
    BY DEF TypeOK, PaceInv
  <1>3. ASSUME SensorRound \/ SensorPush PROVE PaceInv'
    <2>1. /\ Only("sensor")
          /\ \/ /\ pc["sensor"] = "sleep" /\ pc'["sensor"] \in {"make", "log"}
                /\ due["sensor"] = 0 /\ due'["sensor"] \in {3, 6}
             \/ /\ pc["sensor"] = "make" /\ pc'["sensor"] = "beat"
                /\ due'["sensor"] = due["sensor"]
      BY <1>3, SensorMoves, Numbers
    <2>2. SensorPace'
      BY <2>1, <1>2, Names DEF PaceInv, SensorPace
    <2>3. PaceOf("sensor")'
      BY <1>1, <1>2, <2>1, Names DEF PaceOf, Left, slots
    <2> QED BY <1>1, <2>1, <2>2, <2>3, PaceFrame, Names
  <1>4. ASSUME ProcessorPop \/ StallOver \/ ProcessorPush \/ PopTimeout("processor") PROVE PaceInv'
    <2>1. /\ Only("processor")
          /\ \/ pc["processor"] = "pop" /\ pc'["processor"] \in {"log", "push", "beat"}
             \/ pc["processor"] = "stall" /\ pc'["processor"] = "push"
             \/ pc["processor"] = "push" /\ pc'["processor"] = "beat"
      BY <1>4, ProcessorMoves
    <2>2. Left("processor")' = 0 /\ Left("processor") \in Nat /\ age["processor"] \in Nat
      BY <1>2, <2>1, Names DEF Left
    <2>3. PaceOf("processor")
      BY <1>2, Names
    <2>4. pc["processor"] = "pop" \/ pc'["processor"] \notin {"pop", "log"}
      BY <2>1
    <2>5. PaceOf("processor")'
      BY <1>1, <2>1, <2>2, <2>3, <2>4, Lengths, Numbers DEF PaceOf, slots
    <2> QED BY <1>1, <2>1, <2>5, PaceFrame, Names
  <1>5. ASSUME LoggerPop \/ PopTimeout("logger") PROVE PaceInv'
    <2>1. Only("logger") /\ pc["logger"] = "pop" /\ pc'["logger"] \in {"log", "beat"}
      BY <1>5, LoggerMoves
    <2>2. Left("logger")' = 0 /\ Left("logger") \in Nat /\ age["logger"] \in Nat
      BY <1>2, <2>1, Names DEF Left
    <2>3. PaceOf("logger")
      BY <1>2, Names
    <2>4. PaceOf("logger")'
      BY <1>1, <2>1, <2>2, <2>3, Lengths DEF PaceOf, slots
    <2> QED BY <1>1, <2>1, <2>4, PaceFrame, Names
  <1> QED BY <1>3, <1>4, <1>5 DEF Pipeline

LEMMA PaceOthers ==
    TypeOK /\ PaceInv /\ (prvWatchdogThread \/ Commands) => PaceInv'
  <1> SUFFICES ASSUME TypeOK, PaceInv, prvWatchdogThread \/ Commands PROVE PaceInv'
    OBVIOUS
  <1>1. CASE prvWatchdogThread
    <2>1. UNCHANGED slots /\ UNCHANGED <<clogged, log_mutex>>
      BY <1>1 DEF prvWatchdogThread, WatchdogWakes, CopyBeat, JudgeBeat, Warn, WatchdogDone, output
    <2> QED BY <1>1, <2>1, WatchdogMoves, PaceFrame, Names
  <1>2. CASE Commands /\ ~prvClearBeats
    <2>1. UNCHANGED slots /\ UNCHANGED <<clogged, log_mutex>>
      BY <1>2 DEF Commands, ecu_reset, ecu_set_fault, queue_clear, MainPrint, output
    <2> QED BY <1>2, <2>1, CommandMoves, PaceFrame, Names
  <1>3. CASE prvClearBeats
    <2>1. beat_initialized' = {} /\ UNCHANGED <<clogged, log_mutex>>
      BY <1>3 DEF prvClearBeats, output
    <2>2. Only("main")
      BY <1>3, CommandMoves DEF Commands
    <2>3. SensorPace'
      BY <2>2, Names DEF PaceInv, SensorPace, Only
    <2> QED BY <2>1, <2>3 DEF PaceInv, PaceOf
  <1> QED BY <1>1, <1>2, <1>3

LEMMA PaceLog ==
    ASSUME TypeOK, PaceInv, NEW t \in Threads, Log(t)
    PROVE  PaceInv'
  <1>1. UNCHANGED slots /\ UNCHANGED <<clogged, log_mutex>>
    BY DEF Log, output, PaceInv
  <1>2. Only(t) /\ pc[t] = "log" /\ pc'[t] = AfterLog[t]
    BY LogMoves
  <1>3. due \in [Threads -> Nat] /\ age \in [Watched -> Nat] /\ \A u \in Watched : PaceOf(u)
    BY DEF TypeOK, PaceInv
  <1>4. CASE t = "sensor"
    <2>1. due' = due /\ pc'[t] = "make"
      BY <1>2, <1>4, LogMoves DEF AfterLog
    <2>2. SensorPace'
      BY <1>2, <1>4, <2>1 DEF PaceInv, SensorPace
    <2>3. PaceOf(t)'
      BY <1>1, <1>2, <1>3, <1>4, <2>1, Names DEF PaceOf, Left, slots
    <2> QED BY <1>1, <1>2, <1>4, <2>2, <2>3, PaceFrame
  <1>5. CASE t = "processor"
    <2>1. due'[t] = 25 /\ pc'[t] = "stall"
      BY <1>2, <1>5, LogMoves, Numbers DEF AfterLog
    <2>2. t \in beat_initialized => age[t] <= 9
      BY <1>2, <1>3, <1>5, Names, Numbers DEF PaceOf, Left
    <2>3. PaceOf(t)'
      BY <1>1, <1>2, <1>3, <1>5, <2>1, <2>2, Names, Lengths DEF PaceOf, Left, slots
    <2> QED BY <1>1, <1>2, <1>5, <2>3, PaceFrame
  <1>6. CASE t = "logger"
    <2>1. pc'[t] = "beat"
      BY <1>2, <1>6 DEF AfterLog
    <2>2. PaceOf(t)'
      BY <1>1, <1>2, <1>3, <1>6, <2>1, Names DEF PaceOf, Left, slots
    <2> QED BY <1>1, <1>2, <1>6, <2>2, PaceFrame
  <1>7. CASE t = "watchdog"
    BY <1>1, <1>2, <1>7, PaceFrame, Names
  <1> QED BY <1>4, <1>5, <1>6, <1>7, Names

LEMMA PaceBeats ==
    ASSUME TypeOK, PaceInv, NEW t \in Threads, BeatStore(t) \/ BeatCount(t)
    PROVE  PaceInv'
  <1>0. /\ due \in [Threads -> Nat] /\ age \in [Watched -> Nat]
        /\ \A u \in Watched : PaceOf(u)
        /\ UNCHANGED <<clogged, log_mutex>>
    BY DEF TypeOK, PaceInv, BeatStore, BeatCount, output
  <1>1. CASE BeatStore(t)
    <2>1. Only(t) /\ due' = due /\ pc'[t] = "count"
      BY <1>1, BeatMoves
    <2>2. SensorPace'
      BY <2>1, Names DEF PaceInv, SensorPace, Only
    <2>3. CASE t \in Watched
      <3>1. age' = [age EXCEPT ![t] = 0] /\ beat_initialized' = beat_initialized \cup {t}
        BY <1>1, <2>3 DEF BeatStore
      <3>2. age'[t] = 0 /\ \A u \in Watched : u # t => age'[u] = age[u]
        BY <1>0, <2>3, <3>1
      <3>3. PaceOf(t)'
        <4>1. Left(t)' = 0
          BY <2>1 DEF Left
        <4>2. Gap[t] \in Nat
          BY <2>3, Lengths, Names
        <4> QED BY <2>1, <3>2, <4>1, <4>2 DEF PaceOf
      <3>4. \A u \in Watched : u # t => PaceOf(u)'
        BY <1>0, <2>1, <3>1, <3>2, Names DEF PaceOf, Left, Only
      <3> QED BY <1>0, <2>2, <3>3, <3>4 DEF PaceInv
    <2>4. CASE t \notin Watched
      <3>1. UNCHANGED slots
        BY <1>1, <2>4 DEF BeatStore
      <3> QED BY <1>0, <2>1, <2>4, <3>1, PaceFrame, Names
    <2> QED BY <2>3, <2>4
  <1>2. CASE BeatCount(t)
    <2>1. Only(t) /\ due'[t] = WaitFor(t) /\ pc[t] = "count" /\ pc'[t] = AfterBeat[t]
      BY <1>2, BeatMoves
    <2>2. UNCHANGED slots
      BY <1>2 DEF BeatCount
    <2>3. SensorPace'
      BY <2>1, Names DEF PaceInv, SensorPace, Only, WaitFor, AfterBeat
    <2>4. t \in Watched => PaceOf(t)'
      <3>1. t \in beat_initialized /\ t \in Watched => age[t] = 0
        BY <1>0, <2>1 DEF PaceOf
      <3>2. t \in Watched => due'[t] \in Nat /\ due'[t] <= Gap[t] /\ (t = "processor" => due'[t] = 9)
        BY <1>0, <2>1, Names, Lengths, Numbers DEF WaitFor, PaceInv, SensorPace
      <3>3. pc'[t] \in {"sleep", "pop"}
        BY <2>1, Names DEF AfterBeat
      <3> QED BY <2>2, <3>1, <3>2, <3>3, Numbers DEF PaceOf, Left, slots
    <2> QED BY <1>0, <2>1, <2>2, <2>3, <2>4, PaceFrame
  <1> QED BY <1>1, <1>2

LEMMA PacePass == TypeOK /\ PaceInv /\ Pass => PaceInv'
  <1> SUFFICES ASSUME TypeOK, PaceInv, Pass PROVE PaceInv'
    OBVIOUS
  <1>1. UNCHANGED <<pc, beat_initialized, clogged, log_mutex>>
    BY DEF Pass, output
  <1>2. /\ due \in [Threads -> Nat] /\ age \in [Watched -> Nat]
        /\ \A t \in Watched : PaceOf(t)
    BY DEF TypeOK, PaceInv
  <1>3. /\ pc["sensor"] = "sleep" /\ pc["processor"] \in {"pop", "stall"} /\ pc["logger"] = "pop"
    BY PassWaits DEF PaceInv
  <1>4. /\ Span \in Nat /\ due' \in [Threads -> Nat] /\ age' \in [Watched -> Nat]
        /\ \A t \in Watched : due'[t] = due[t] - Span /\ age'[t] <= age[t] + Span
    BY <1>3, PassMoves, Names
  <1>5. SensorPace'
    BY <1>1, <1>2, <1>3, <1>4, Names DEF PaceInv, SensorPace
  <1>6. ASSUME NEW t \in Watched PROVE PaceOf(t)'
    <2>1. Left(t) = due[t] /\ Left(t)' = due'[t]
      BY <1>1, <1>3, Names DEF Left
    <2>2. /\ due[t] \in Nat /\ due'[t] \in Nat /\ age[t] \in Nat /\ age'[t] \in Nat
          /\ age'[t] + due'[t] <= age[t] + due[t]
      BY <1>2, <1>4, Names
    <2>3. Gap[t] \in Nat /\ SampleWait \in Nat
      BY Names, Lengths, Numbers
    <2>4. pc[t] # "count" /\ pc[t] # "start"
      BY <1>3, Names
    <2> QED BY <1>1, <1>2, <2>1, <2>2, <2>3, <2>4 DEF PaceOf
  <1> QED BY <1>1, <1>5, <1>6 DEF PaceInv

LEMMA PaceStep == TypeOK /\ PaceInv /\ [Next]_vars /\ ~clogged' => PaceInv'
  <1> SUFFICES ASSUME TypeOK, PaceInv, [Next]_vars, ~clogged' PROVE PaceInv'
    OBVIOUS
  <1>1. CASE UNCHANGED vars
    BY <1>1 DEF vars, slots, output, PaceInv, PaceOf, SensorPace, Left
  <1>2. CASE Printing
    <2>1. ~Clog /\ ~Unclog /\ \A t \in Threads : ~LogBlocks(t)
      BY DEF Clog, Unclog, LogBlocks, PaceInv
    <2> QED BY <1>2, <2>1, PaceLog DEF Printing
  <1> QED BY <1>1, <1>2, NextCases, PacePipeline, PaceOthers, PaceBeats, PacePass

\* The clearing of the sensor queue by ecu_reset.
LEMMA ResetCommands ==
    ASSUME TypeOK, Commands, ResetSection
    PROVE  ResetSection'
  <1>1. /\ \A u \in Threads : pc'[u] = pc[u]
        /\ due' = due
    BY CommandMoves, Names DEF Only
  <1>2. CASE ecu_reset
    BY <1>2 DEF ecu_reset, ResetSection
  <1>3. CASE ~ecu_reset
    <2>1. ASSUME NEW a, NEW b, Step("main", a, b), b # "clear_sensor"
          PROVE  pc'["main"] # "clear_sensor"
      BY <2>1, StepMoves
    <2>2. pc'["main"] # "clear_sensor"
      BY <1>3, <2>1 DEF Commands, ecu_set_fault, Command, queue_clear, prvClearBeats, MainPrint
    <2> QED BY <2>2 DEF ResetSection
  <1> QED BY <1>2, <1>3

LEMMA ResetFrame ==
    ASSUME TypeOK, ResetSection, NEW t \in Threads, Only(t),
           \/ t # "sensor" /\ sequence' = sequence
           \/ pc["sensor"] \notin {"beat", "count", "sleep"} /\ sequence' = sequence
           \/ /\ pc["sensor"] \notin {"beat", "count", "sleep"}
              /\ sequence' = (sequence + 1) % 8
              /\ pc'["sensor"] = "beat" /\ due'["sensor"] > 0
           \/ /\ pc'["sensor"] \in {"beat", "count", "sleep"} /\ sequence' = sequence
              /\ due'["sensor"] = due["sensor"]
           \/ due["sensor"] = 0 /\ sequence' = sequence
    PROVE  ResetSection'
  <1>1. pc'["main"] = pc["main"]
    BY Names DEF Only
  <1>2. t # "sensor" => pc'["sensor"] = pc["sensor"] /\ due'["sensor"] = due["sensor"]
    BY Names DEF Only
  <1> QED BY <1>1, <1>2 DEF ResetSection

LEMMA ResetStep == TypeOK /\ PaceInv /\ ~clogged' /\ ResetSection /\ [Next]_vars => ResetSection'
  <1> SUFFICES ASSUME TypeOK, PaceInv, ~clogged', ResetSection, [Next]_vars PROVE ResetSection'
    OBVIOUS
  <1>1. CASE UNCHANGED vars
    BY <1>1 DEF vars, data, ResetSection
  <1>2. CASE Pipeline
    <2>1. CASE SensorRound
      <3>1. sequence' = sequence
        BY <2>1 DEF SensorRound, data
      <3> QED BY <2>1, <3>1, SensorMoves, ResetFrame, Names
    <2>2. CASE SensorPush
      <3>1. sequence' = (sequence + 1) % 8
        BY <2>2 DEF SensorPush
      <3>2. Only("sensor") /\ pc["sensor"] = "make" /\ pc'["sensor"] = "beat" /\ due'["sensor"] = due["sensor"]
        BY <2>2, SensorMoves
      <3>3. due["sensor"] > 0
        BY <3>2 DEF PaceInv, SensorPace
      <3> QED BY <3>1, <3>2, <3>3, ResetFrame, Names
    <2>3. ASSUME ProcessorPop \/ StallOver \/ ProcessorPush \/ PopTimeout("processor")
          PROVE  ResetSection'
      <3>1. sequence' = sequence
        BY <2>3 DEF ProcessorPop, StallOver, ProcessorPush, PopTimeout, data
      <3> QED BY <2>3, <3>1, ProcessorMoves, ResetFrame, Names
    <2>4. ASSUME LoggerPop \/ PopTimeout("logger") PROVE ResetSection'
      <3>1. sequence' = sequence
        BY <2>4 DEF LoggerPop, PopTimeout, data
      <3> QED BY <2>4, <3>1, LoggerMoves, ResetFrame, Names
    <2> QED BY <1>2, <2>1, <2>2, <2>3, <2>4 DEF Pipeline
  <1>3. CASE prvWatchdogThread
    <2>1. sequence' = sequence
      BY <1>3 DEF prvWatchdogThread, WatchdogWakes, CopyBeat, JudgeBeat, Warn, WatchdogDone, data
    <2> QED BY <1>3, <2>1, WatchdogMoves, ResetFrame, Names
  <1>4. CASE Printing
    <2>1. ~Clog /\ ~Unclog /\ \A t \in Threads : ~LogBlocks(t)
      BY DEF Clog, Unclog, LogBlocks, PaceInv
    <2>2. ASSUME NEW t \in Threads, Log(t) PROVE ResetSection'
      <3>1. sequence' = sequence
        BY <2>2 DEF Log, data
      <3> QED BY <2>2, <3>1, LogMoves, ResetFrame
    <2> QED BY <1>4, <2>1, <2>2 DEF Printing
  <1>5. CASE Pass
    BY <1>5, PassWaits DEF Pass, ResetSection
  <1>6. ASSUME NEW t \in Threads, BeatStore(t) \/ BeatCount(t) PROVE ResetSection'
    <2>1. sequence' = sequence
      BY <1>6 DEF BeatStore, BeatCount, data
    <2>2. Only(t)
      BY <1>6, BeatMoves
    <2>3. t = "sensor" => pc'[t] \in {"count", "sleep"} /\ due'[t] = due[t]
      BY <1>6, BeatMoves DEF AfterBeat, WaitFor
    <2> QED BY <2>1, <2>2, <2>3, ResetFrame
  <1> QED BY <1>1, <1>2, <1>3, <1>4, <1>5, <1>6, NextCases, ResetCommands

-----------------------------------------------------------------------------
(* The token.                                                              *)

\* It stays where it is, or nobody needs it any more.
LEMMA TokenKept ==
    ASSUME TypeOK, TokenInv, alarms' = alarms, stalls' = stalls,
           Condemned' => Condemned, Pending' => Pending, Armed' => Armed,
           Condemned' => checks' = 2
    PROVE  TokenInv'
  <1>1. One(Condemned)' <= One(Condemned) /\ One(Condemned) \in 0..1 /\ One(Condemned)' \in 0..1
    BY DEF One
  <1>2. One(Pending)' <= One(Pending) /\ One(Pending) \in 0..1 /\ One(Pending)' \in 0..1
    BY DEF One
  <1>3. One(Armed)' <= One(Armed) /\ One(Armed) \in 0..1 /\ One(Armed)' \in 0..1
    BY DEF One
  <1>4. alarms \in Nat /\ stalls \in Nat
    BY DEF TypeOK
  <1> QED BY <1>1, <1>2, <1>3, <1>4 DEF TokenInv

\* The processor's slot is left alone.
SlotKept == /\ age'["processor"] = age["processor"]
            /\ "processor" \in beat_initialized' <=> "processor" \in beat_initialized

\* What a step of another thread leaves alone: the processor, ...
LEMMA ProcessorFrame ==
    ASSUME NEW t \in (Threads \cup {"main"}) \ {"processor"}, Only(t), SlotKept
    PROVE  /\ pc'["processor"] = pc["processor"] /\ Left("processor")' = Left("processor")
           /\ due'["processor"] = due["processor"]
           /\ Late' <=> Late
           /\ t # "sensor" => (ShortPeriod' <=> ShortPeriod)
           /\ t # "sensor" /\ UNCHANGED <<queue, sequence>> => (ShortWait' <=> ShortWait)
  <1>1. /\ pc'["processor"] = pc["processor"] /\ due'["processor"] = due["processor"]
        /\ t # "sensor" => pc'["sensor"] = pc["sensor"] /\ due'["sensor"] = due["sensor"]
    BY Names DEF Only
  <1>2. Left("processor")' = Left("processor")
    BY <1>1 DEF Left
  <1>3. Late' <=> Late
    BY <1>1, <1>2 DEF Late, SlotKept
  <1>4. t # "sensor" => (ShortPeriod' <=> ShortPeriod)
    BY <1>1 DEF ShortPeriod
  <1>5. t # "sensor" /\ UNCHANGED <<queue, sequence>> => (ShortWait' <=> ShortWait)
    BY <1>1 DEF ShortWait, UntilMade, SlotKept
  <1> QED BY <1>1, <1>2, <1>3, <1>4, <1>5

\* ... and the watchdog.
LEMMA WatchdogFrame ==
    ASSUME NEW t \in (Threads \cup {"main"}) \ {"watchdog"}, Only(t), UNCHANGED checking
    PROVE  /\ Condemned' <=> Condemned
           /\ checks' = checks
           /\ pc'["processor"] = pc["processor"] /\ Left("processor")' = Left("processor") =>
                  (Passed' <=> Passed)
  <1>1. /\ pc'["watchdog"] = pc["watchdog"] /\ due'["watchdog"] = due["watchdog"]
        /\ UNCHANGED <<checks, last>>
    BY Names DEF Only, checking
  <1>2. Condemned' <=> Condemned
    BY <1>1 DEF Condemned
  <1> QED BY <1>1, <1>2 DEF Passed

\* A step of neither leaves the token, if it keeps the sensor calm.
LEMMA TokenFrame ==
    ASSUME TypeOK, TokenInv, NEW t \in (Threads \cup {"main"}) \ {"processor", "watchdog"},
           Only(t), SlotKept, UNCHANGED checking, alarms' = alarms, stalls' = stalls,
           Armed' => Armed
    PROVE  TokenInv'
  <1>1. (Late' <=> Late) /\ (Passed' <=> Passed) /\ (Condemned' <=> Condemned) /\ checks' = checks
    BY ProcessorFrame, WatchdogFrame
  <1>2. Pending' => Pending
    BY <1>1 DEF Pending
  <1> QED BY <1>1, <1>2, TokenKept DEF TokenInv

LEMMA TokenSensor == TypeOK /\ PaceInv /\ TokenInv /\ (SensorRound \/ SensorPush) => TokenInv'
  <1> SUFFICES ASSUME TypeOK, PaceInv, TokenInv, SensorRound \/ SensorPush PROVE TokenInv'
    OBVIOUS
  <1>1. /\ Only("sensor") /\ UNCHANGED slots /\ UNCHANGED checking
        /\ alarms' = alarms /\ stalls' = stalls /\ fault_mode' = fault_mode
    BY SensorMoves DEF SensorRound, SensorPush, verdicts, control
  <1>2. SlotKept
    BY <1>1 DEF slots, SlotKept
  <1>3. /\ pc'["processor"] = pc["processor"] /\ due'["processor"] = due["processor"]
        /\ age["processor"] \in Nat /\ due["sensor"] \in Nat
    BY <1>1, Names DEF Only, TypeOK
  <1>4. ASSUME SensorRound, fault_mode = "stall", Calm PROVE Calm'
    <2>1. /\ pc["sensor"] = "sleep" /\ due["sensor"] = 0
          /\ pc'["sensor"] \in {"make", "log"} /\ due'["sensor"] = 3
      BY <1>4, SensorMoves DEF SleepAfter
    <2>2. UntilMade = 0 /\ UntilMade' = 0
      BY <2>1 DEF UntilMade
    <2>3. UNCHANGED <<queue, sequence>>
      BY <1>4 DEF SensorRound, data
    <2>4. ShortPeriod'
      BY <2>1 DEF ShortPeriod
    <2>5. ShortWait'
      BY <1>2, <1>3, <1>4, <2>2, <2>3 DEF Calm, ShortWait, SlotKept
    <2> QED BY <2>4, <2>5 DEF Calm
  <1>5. ASSUME SensorPush, Calm PROVE Calm'
    <2>1. pc["sensor"] = "make" /\ pc'["sensor"] = "beat" /\ due'["sensor"] = due["sensor"]
      BY <1>5, SensorMoves
    <2>2. ShortPeriod'
      BY <1>3, <1>5, <2>1 DEF Calm, ShortPeriod
    <2>3. UntilMade = 0
      BY <2>1 DEF UntilMade
    <2>4. /\ sequence' = (sequence + 1) % 8 /\ sequence' \in 0..7
          /\ queue' = IF Len(queue) < Capacity THEN Append(queue, sequence') ELSE queue
      BY <1>5 DEF SensorPush, TypeOK
    <2>5. /\ queue \in Seq(0..7)
          /\ queue = <<>> => queue' = <<sequence'>>
          /\ queue # <<>> => queue' # <<>> /\ Head(queue') = Head(queue)
      <3>1. queue \in Seq(0..7) /\ Capacity \in Nat /\ Capacity > 0
        BY WatchAssumption DEF TypeOK
      <3>2. queue = <<>> => Len(queue) = 0 /\ Append(queue, sequence') = <<sequence'>>
        BY <2>4, <3>1
      <3>3. /\ queue # <<>> => Append(queue, sequence') # <<>>
            /\ queue # <<>> => Head(Append(queue, sequence')) = Head(queue)
        BY <2>4, <3>1
      <3> QED BY <2>4, <3>1, <3>2, <3>3
    <2>6. <<sequence'>> # <<>> /\ Head(<<sequence'>>) = sequence'
      OBVIOUS
    <2>7. ShortWait'
      BY <1>2, <1>3, <1>5, <2>3, <2>4, <2>5, <2>6 DEF Calm, ShortWait, SlotKept
    <2> QED BY <2>2, <2>7 DEF Calm
  <1>6. Armed' => Armed
    BY <1>1, <1>4, <1>5 DEF Armed
  <1> QED BY <1>1, <1>2, <1>6, TokenFrame, Names

\* The late pop takes the token; no other step of the processor does.
LEMMA TokenProcessor ==
    TypeOK /\ PaceInv /\ TokenInv
        /\ (ProcessorPop \/ StallOver \/ ProcessorPush \/ PopTimeout("processor")) => TokenInv'
  <1> SUFFICES ASSUME TypeOK, PaceInv, TokenInv,
                      ProcessorPop \/ StallOver \/ ProcessorPush \/ PopTimeout("processor")
               PROVE  TokenInv'
    OBVIOUS
  <1>1. /\ Only("processor") /\ UNCHANGED slots /\ UNCHANGED checking
        /\ alarms' = alarms /\ stalls' = stalls /\ fault_mode' = fault_mode
    BY ProcessorMoves DEF ProcessorPop, StallOver, ProcessorPush, PopTimeout, verdicts, control
  <1>2. (Condemned' <=> Condemned) /\ checks' = checks
        /\ (pc'["processor"] = pc["processor"] /\ Left("processor")' = Left("processor") =>
                (Passed' <=> Passed))
    BY <1>1, WatchdogFrame, Names
  <1>3. /\ due["processor"] \in Nat /\ age["processor"] \in Nat /\ due["sensor"] \in Nat
        /\ age' = age /\ beat_initialized' = beat_initialized
        /\ due'["sensor"] = due["sensor"]
        /\ due'["watchdog"] = due["watchdog"] /\ pc'["watchdog"] = pc["watchdog"]
    BY <1>1, Names DEF TypeOK, slots, Only
  <1>4. pc["processor"] = "pop" /\ "processor" \in beat_initialized => age["processor"] <= 9
    BY <1>3, Names, Numbers DEF PaceInv, PaceOf, Left
  <1>5. ASSUME pc["processor"] = "pop", pc'["processor"] \in {"push", "beat"}
        PROVE  TokenInv'
    <2>1. ~Late'
      BY <1>3, <1>4, <1>5, Numbers DEF Late, Left
    <2>2. ShortPeriod => ShortPeriod'
      BY <1>3, <1>5 DEF ShortPeriod
    <2>3. ShortWait'
      BY <1>5 DEF ShortWait
    <2> QED BY <1>1, <1>2, <2>1, <2>2, <2>3, TokenKept DEF Pending, Armed, Calm, TokenInv
  <1>6. ASSUME ProcessorPop, pc'["processor"] = "log" PROVE TokenInv'
    <2>1. fault_mode = "stall" /\ Head(queue) = 0 /\ queue # <<>> /\ pc["processor"] = "pop"
      BY <1>6, ProcessorMoves DEF ProcessorPop
    <2>2. ~Pending /\ ~Armed'
      BY <1>6, <2>1 DEF Pending, Late, Armed, Calm, ShortPeriod, ShortWait
    <2>3. Pending' => Armed
      <3>1. Late' => "processor" \in beat_initialized /\ ~Soon(age["processor"])
        BY <1>3, <1>6 DEF Late
      <3>2. "processor" \in beat_initialized /\ ~Soon(age["processor"]) => ~ShortWait
        BY <2>1 DEF ShortWait
      <3> QED BY <2>1, <3>1, <3>2 DEF Pending, Armed, Calm
    <2>4. One(Condemned)' = One(Condemned) /\ One(Condemned) \in 0..1
      BY <1>2 DEF One
    <2>5. One(Pending) = 0 /\ One(Armed)' = 0
      BY <2>2 DEF One
    <2>6. One(Pending)' <= One(Armed) /\ One(Pending)' \in 0..1 /\ One(Armed) \in 0..1
      BY <2>3 DEF One
    <2>7. alarms \in Nat /\ stalls \in Nat
      BY DEF TypeOK
    <2> QED BY <1>1, <1>2, <2>4, <2>5, <2>6, <2>7 DEF TokenInv
  <1>7. ASSUME \/ pc["processor"] = "stall" /\ due["processor"] = 0 /\ pc'["processor"] = "push"
               \/ pc["processor"] = "push" /\ pc'["processor"] = "beat"
        PROVE  TokenInv'
    <2>1. Left("processor") = 0 /\ Left("processor")' = 0
      BY <1>7 DEF Left
    <2>2. Late' <=> Late
      BY <1>3, <1>7, <2>1 DEF Late
    <2>3. Passed => Passed'
      BY <1>2, <1>3, <1>7, <2>1 DEF Passed, checking
    <2>4. ShortPeriod => ShortPeriod'
      BY <1>3, <1>7 DEF ShortPeriod
    <2>5. ShortWait'
      BY <1>7 DEF ShortWait
    <2>6. (Pending' => Pending) /\ (Armed' => Armed)
      BY <1>1, <2>2, <2>3, <2>4, <2>5 DEF Pending, Armed, Calm
    <2> QED BY <1>1, <1>2, <2>6, TokenKept DEF TokenInv
  <1>8. CASE ProcessorPop
    <2>1. pc["processor"] = "pop" /\ pc'["processor"] \in {"log", "push"}
      BY <1>8, ProcessorMoves
    <2> QED BY <1>5, <1>6, <1>8, <2>1
  <1>9. CASE PopTimeout("processor")
    <2>1. pc["processor"] = "pop" /\ pc'["processor"] = "beat"
      BY <1>9, ProcessorMoves
    <2> QED BY <1>5, <2>1
  <1>10. CASE StallOver \/ ProcessorPush
    <2>1. \/ pc["processor"] = "stall" /\ due["processor"] = 0 /\ pc'["processor"] = "push"
          \/ pc["processor"] = "push" /\ pc'["processor"] = "beat"
      BY <1>10, ProcessorMoves
    <2> QED BY <1>7, <2>1
  <1> QED BY <1>8, <1>9, <1>10

LEMMA TokenCommands == TypeOK /\ ResetSection /\ TokenInv /\ Commands => TokenInv'
  <1> SUFFICES ASSUME TypeOK, ResetSection, TokenInv, Commands PROVE TokenInv'
    OBVIOUS
  <1>1. /\ Only("main") /\ due' = due /\ alarms' = alarms /\ UNCHANGED checking
    BY CommandMoves DEF Commands, ecu_reset, ecu_set_fault, queue_clear, prvClearBeats,
                        MainPrint, verdicts
  <1>2. ~prvClearBeats => SlotKept
    BY DEF Commands, ecu_reset, ecu_set_fault, queue_clear, MainPrint, slots, SlotKept
  <1>3. CASE ecu_reset
    <2>1. SlotKept /\ stalls' = stalls /\ fault_mode' = fault_mode
      BY <1>2, <1>3 DEF ecu_reset, slots, SlotKept
    <2>2. ShortPeriod' <=> ShortPeriod
      BY <1>1, <2>1, ProcessorFrame, Names
    <2>3. ShortWait => ShortWait'
      <3>1. sequence' = 0 /\ queue' = queue /\ (0 + 1) % 8 # 0
        BY <1>3 DEF ecu_reset
      <3>2. pc'["processor"] = pc["processor"] /\ pc'["sensor"] = pc["sensor"]
        BY <1>1, Names DEF Only
      <3> QED BY <1>1, <2>1, <3>1, <3>2 DEF ShortWait, SlotKept
    <2> QED BY <1>1, <2>1, <2>2, <2>3, TokenFrame, Names DEF Armed, Calm
  <1>4. CASE queue_clear
    <2>1. SlotKept /\ stalls' = stalls /\ fault_mode' = fault_mode /\ sequence' = sequence
      BY <1>4 DEF queue_clear, slots, SlotKept, control
    <2>2. ShortPeriod' <=> ShortPeriod
      BY <1>1, <2>1, ProcessorFrame, Names
    <2>3. CASE queue' = queue
      BY <1>1, <2>1, <2>2, <2>3, ProcessorFrame, TokenFrame, Names DEF Armed, Calm
    <2>4. CASE pc["main"] = "clear_sensor" /\ queue' = <<>>
      <3>1. sequence \in {0, 1}
        BY <2>4 DEF ResetSection
      <3>2. (sequence + 1) % 8 # 0
        BY <3>1
      <3>3. ShortWait'
        BY <2>1, <2>4, <3>2 DEF ShortWait
      <3> QED BY <1>1, <2>1, <2>2, <3>3, TokenFrame, Names DEF Armed, Calm
    <2> QED BY <1>4, <2>3, <2>4 DEF queue_clear, Step
  <1>5. CASE prvClearBeats
    <2>1. stalls' = stalls /\ fault_mode' = fault_mode /\ beat_initialized' = {}
      BY <1>5 DEF prvClearBeats, control
    <2>2. ~Late' /\ ShortWait'
      BY <2>1 DEF Late, ShortWait
    <2>3. ShortPeriod' <=> ShortPeriod
      BY <1>1, Names DEF ShortPeriod, Only
    <2>4. (Condemned' <=> Condemned) /\ checks' = checks
      BY <1>1, WatchdogFrame, Names
    <2> QED BY <1>1, <2>1, <2>2, <2>3, <2>4, TokenKept DEF Pending, Armed, Calm, TokenInv
  <1>6. CASE MainPrint
    <2>1. /\ SlotKept /\ stalls' = stalls /\ fault_mode' = fault_mode
          /\ UNCHANGED <<queue, sequence>>
      BY <1>6 DEF MainPrint, slots, SlotKept, control, data
    <2>2. (ShortPeriod' <=> ShortPeriod) /\ (ShortWait' <=> ShortWait)
      BY <1>1, <2>1, ProcessorFrame, Names
    <2> QED BY <1>1, <2>1, <2>2, TokenFrame, Names DEF Armed, Calm
  <1>7. ASSUME NEW m \in Modes, ecu_set_fault(m) PROVE TokenInv'
    <2>1. SlotKept /\ UNCHANGED <<queue, sequence>>
      BY <1>7 DEF ecu_set_fault, slots, SlotKept, data
    <2>2. (ShortPeriod' <=> ShortPeriod) /\ (ShortWait' <=> ShortWait)
      BY <1>1, <2>1, ProcessorFrame, Names
    <2>3. /\ Late' <=> Late
          /\ pc'["processor"] = pc["processor"] /\ Left("processor")' = Left("processor")
      BY <1>1, <2>1, ProcessorFrame, Names
    <2>4. (Condemned' <=> Condemned) /\ (Passed' <=> Passed) /\ checks' = checks
      BY <1>1, <2>3, WatchdogFrame, Names
    <2>5. fault_mode' = m /\ stalls' = IF m = "stall" THEN stalls + 1 ELSE stalls
      BY <1>7 DEF ecu_set_fault
    <2>6. One(Condemned)' = One(Condemned) /\ One(Pending)' = One(Pending)
      BY <2>3, <2>4 DEF One, Pending
    <2>7. /\ One(Condemned) \in 0..1 /\ One(Pending) \in 0..1
          /\ One(Armed) \in 0..1 /\ One(Armed)' \in 0..1
          /\ m # "stall" => One(Armed)' = 0
      BY <2>5 DEF One, Armed
    <2>8. alarms \in Nat /\ stalls \in Nat
      BY DEF TypeOK
    <2>9. alarms' + One(Condemned)' + One(Pending)' + One(Armed)' <= stalls'
      BY <1>1, <2>5, <2>6, <2>7, <2>8 DEF TokenInv
    <2> QED BY <2>4, <2>9 DEF TokenInv
  <1> QED BY <1>3, <1>4, <1>5, <1>6, <1>7 DEF Commands

LEMMA TokenLog ==
    ASSUME TypeOK, PaceInv, TokenInv, NEW t \in Threads, Log(t)
    PROVE  TokenInv'
  <1>1. /\ Only(t) /\ pc[t] = "log" /\ pc'[t] = AfterLog[t]
        /\ UNCHANGED slots /\ UNCHANGED checking /\ UNCHANGED <<queue, sequence>>
        /\ alarms' = alarms /\ stalls' = stalls /\ fault_mode' = fault_mode
    BY LogMoves DEF Log, verdicts, control, data
  <1>2. SlotKept /\ age' = age /\ beat_initialized' = beat_initialized
    BY <1>1 DEF slots, SlotKept
  <1>3. CASE t = "logger"
    <2>1. (ShortPeriod' <=> ShortPeriod) /\ (ShortWait' <=> ShortWait)
      BY <1>1, <1>2, <1>3, ProcessorFrame
    <2> QED BY <1>1, <1>2, <1>3, <2>1, TokenFrame DEF Armed, Calm
  <1>4. CASE t = "sensor"
    <2>1. due' = due /\ pc'["sensor"] = "make" /\ pc["sensor"] = "log"
      BY <1>1, <1>4, LogMoves DEF AfterLog
    <2>2. pc'["processor"] = pc["processor"]
      BY <1>1, <1>4, Names DEF Only
    <2>3. UntilMade' = UntilMade
      BY <2>1 DEF UntilMade
    <2>4. ShortPeriod => ShortPeriod'
      BY <2>1, <2>2 DEF ShortPeriod
    <2>5. ShortWait => ShortWait'
      BY <1>1, <1>2, <2>2, <2>3 DEF ShortWait
    <2> QED BY <1>1, <1>2, <1>4, <2>4, <2>5, TokenFrame DEF Armed, Calm
  <1>5. CASE t = "watchdog"
    <2>1. (ShortPeriod' <=> ShortPeriod) /\ (ShortWait' <=> ShortWait)
      BY <1>1, <1>2, <1>5, ProcessorFrame
    <2>2. /\ Late' <=> Late
          /\ pc'["processor"] = pc["processor"] /\ Left("processor")' = Left("processor")
      BY <1>1, <1>2, <1>5, ProcessorFrame
    <2>3. pc'["watchdog"] = "look" /\ pc["watchdog"] = "log" /\ checks' = checks
      BY <1>1, <1>5 DEF AfterLog, checking
    <2>4. ~Condemned' /\ (Passed => Passed')
      BY <2>2, <2>3 DEF Condemned, Passed
    <2> QED BY <1>1, <2>1, <2>2, <2>4, TokenKept DEF Armed, Calm, Pending
  <1>6. CASE t = "processor"
    <2>1. due'["processor"] = 25 /\ pc'["processor"] = "stall" /\ pc["processor"] = "log"
      BY <1>1, <1>6, LogMoves, Numbers DEF AfterLog
    <2>2. due["sensor"] \in Nat /\ due["sensor"] <= 6 /\ due'["sensor"] = due["sensor"]
      BY <1>1, <1>6, Names DEF TypeOK, Only, PaceInv, SensorPace
    <2>3. age["processor"] \in Nat
      BY Names DEF TypeOK
    <2>4. ShortPeriod' /\ ShortWait'
      BY <2>1, <2>2 DEF ShortPeriod, ShortWait
    <2>5. Late' => Late
      BY <1>2, <2>1, <2>3, Lengths, Numbers DEF Late, Left
    <2>6. ~Passed
      BY <2>1 DEF Passed
    <2>7. (Condemned' <=> Condemned) /\ checks' = checks
      BY <1>1, <1>6, WatchdogFrame
    <2> QED BY <1>1, <2>4, <2>5, <2>6, <2>7, TokenKept DEF Armed, Calm, Pending, TokenInv
  <1> QED BY <1>3, <1>4, <1>5, <1>6, Names

LEMMA TokenLogger ==
    TypeOK /\ TokenInv /\ (LoggerPop \/ PopTimeout("logger")) => TokenInv'
  <1> SUFFICES ASSUME TypeOK, TokenInv, LoggerPop \/ PopTimeout("logger") PROVE TokenInv'
    OBVIOUS
  <1>1. /\ Only("logger") /\ UNCHANGED slots /\ UNCHANGED checking
        /\ UNCHANGED <<queue, sequence>>
        /\ alarms' = alarms /\ stalls' = stalls /\ fault_mode' = fault_mode
    BY LoggerMoves DEF LoggerPop, PopTimeout, verdicts, control, data
  <1>2. SlotKept
    BY <1>1 DEF slots, SlotKept
  <1>3. (ShortPeriod' <=> ShortPeriod) /\ (ShortWait' <=> ShortWait)
    BY <1>1, <1>2, ProcessorFrame, Names
  <1> QED BY <1>1, <1>2, <1>3, TokenFrame, Names DEF Armed, Calm

\* The verdict on the processor's stall takes the token from it, and the warning
\* keeps it.
LEMMA TokenWatchdog ==
    TypeOK /\ PaceInv /\ clogs = 0 /\ TokenInv /\ prvWatchdogThread => TokenInv'
  <1> SUFFICES ASSUME TypeOK, PaceInv, clogs = 0, TokenInv, prvWatchdogThread PROVE TokenInv'
    OBVIOUS
  <1>1. /\ Only("watchdog") /\ UNCHANGED slots /\ UNCHANGED <<queue, sequence>>
        /\ stalls' = stalls /\ fault_mode' = fault_mode
    BY WatchdogMoves DEF prvWatchdogThread, WatchdogWakes, CopyBeat, JudgeBeat, Warn,
                         WatchdogDone, control, data
  <1>2. SlotKept /\ age' = age
    BY <1>1 DEF slots, SlotKept
  <1>3. /\ Late' <=> Late
        /\ pc'["processor"] = pc["processor"] /\ Left("processor")' = Left("processor")
    BY <1>1, <1>2, ProcessorFrame, Names
  <1>4. Armed' <=> Armed
    BY <1>1, <1>2, ProcessorFrame, Names DEF Armed, Calm
  <1>5. Left("processor") \in Nat /\ alarms \in Nat /\ stalls \in Nat
    BY Names DEF TypeOK, Left
  <1>6. CASE WatchdogWakes
    <2>1. /\ pc["watchdog"] = "sleep" /\ pc'["watchdog"] = "look" /\ due["watchdog"] = 0
          /\ alarms' = alarms
      BY <1>6, WatchdogMoves DEF WatchdogWakes, verdicts
    <2>2. ~Passed /\ ~Condemned'
      BY <1>5, <2>1 DEF Passed, Condemned
    <2> QED BY <1>1, <1>3, <1>4, <2>1, <2>2, TokenKept DEF Pending
  <1>7. CASE CopyBeat
    <2>1. pc["watchdog"] = "look" /\ checks \in 1..3 /\ alarms' = alarms
      BY <1>7 DEF CopyBeat, verdicts, TypeOK
    <2>2. CASE Order[checks] \notin beat_initialized
      <3>1. pc'["watchdog"] = "look" /\ checks' = checks + 1
        BY <1>7, <2>2, WatchdogMoves DEF CopyBeat
      <3>2. ~Condemned' /\ (Passed => Passed')
        BY <1>3, <2>1, <3>1 DEF Passed, Condemned
      <3> QED BY <1>1, <1>3, <1>4, <2>1, <3>2, TokenKept DEF Pending
    <2>3. CASE Order[checks] \in beat_initialized
      <3>1. pc'["watchdog"] = "judge" /\ checks' = checks /\ last' = age[Order[checks]]
        BY <1>7, <2>3, WatchdogMoves DEF CopyBeat
      <3>2. Passed => Passed'
        BY <1>3, <2>1, <3>1 DEF Passed, Condemned
      <3>3. CASE ~Condemned'
        BY <1>1, <1>3, <1>4, <2>1, <3>2, <3>3, TokenKept DEF Pending
      <3>4. CASE Condemned'
        <4>1. age[Order[checks]] > Deadline[Order[checks]]
          BY <3>1, <3>4 DEF Condemned
        <4>2. PICK t \in Watched : t = Order[checks] /\ t \in beat_initialized
          BY <2>1, <2>3, Places
        <4>3. /\ age[t] \in Nat /\ Left(t) \in Nat /\ age[t] + Left(t) <= Gap[t]
              /\ t = "processor" /\ pc[t] \in {"pop", "log"} => age[t] + Left(t) <= 9
              /\ pc[t] # "start" /\ (pc[t] = "count" => age[t] = 0)
          BY <4>2, Names, Numbers DEF PaceInv, PaceOf, TypeOK, Left
        <4>4. t = "processor"
          BY <4>1, <4>2, <4>3, Lengths, Numbers, Names
        <4>5. pc[t] \in {"stall", "push", "beat"}
          <5>1. age[t] > 30 /\ Deadline[t] = 30
            BY <4>1, <4>2, <4>4, Numbers
          <5>2. pc[t] \notin {"pop", "log", "count", "start"}
            BY <4>3, <4>4, <5>1
          <5> QED BY <4>4, <5>2, LabelsNow, LabelsOf
        <4>6. checks = 2
          BY <2>1, <4>2, <4>4 DEF Order
        <4>7. Late
          BY <4>1, <4>2, <4>3, <4>4, <4>5, Numbers DEF Late
        <4>8. ~Passed /\ ~Condemned
          BY <2>1, <4>6 DEF Passed, Condemned
        <4>9. Passed'
          <5>1. age["processor"] > 30 /\ age["processor"] + Left("processor") <= 34
            BY <4>1, <4>2, <4>3, <4>4, Numbers, Lengths
          <5>2. Left("processor")' < CheckEvery
            BY <1>3, <1>5, <4>3, <4>4, <5>1, Numbers
          <5>3. pc'["processor"] # "log"
            BY <1>3, <4>4, <4>5
          <5> QED BY <3>4, <5>2, <5>3 DEF Passed
        <4>10. /\ One(Condemned)' = 1 /\ One(Condemned) = 0
               /\ One(Pending)' = 0 /\ One(Pending) = 1
          BY <3>4, <4>7, <4>8, <4>9 DEF One, Pending
        <4>11. One(Armed)' = One(Armed) /\ One(Armed) \in 0..1
          BY <1>4 DEF One
        <4> QED BY <1>1, <1>5, <2>1, <3>1, <4>6, <4>10, <4>11 DEF TokenInv
      <3> QED BY <3>3, <3>4
    <2> QED BY <2>2, <2>3
  <1>8. CASE JudgeBeat
    <2>1. pc["watchdog"] = "judge" /\ checks \in 1..3 /\ alarms' = alarms
      BY <1>8 DEF JudgeBeat, verdicts, TypeOK
    <2>2. CASE last > Deadline[Order[checks]]
      <3>1. pc'["watchdog"] = "warn" /\ checks' = checks
        BY <1>8, <2>2, WatchdogMoves DEF JudgeBeat
      <3>2. Condemned /\ Condemned'
        BY <2>1, <2>2, <3>1 DEF Condemned
      <3>3. Passed => Passed'
        BY <1>3, <3>2 DEF Passed
      <3> QED BY <1>1, <1>3, <1>4, <2>1, <3>1, <3>2, <3>3, TokenKept DEF Pending, TokenInv
    <2>3. CASE ~(last > Deadline[Order[checks]])
      <3>1. pc'["watchdog"] = "look" /\ checks' = checks + 1
        BY <1>8, <2>3, WatchdogMoves DEF JudgeBeat
      <3>2. ~Condemned /\ ~Condemned'
        BY <2>1, <2>3, <3>1 DEF Condemned
      <3>3. Passed => Passed'
        BY <1>3, <2>1, <3>1, <3>2 DEF Passed
      <3> QED BY <1>1, <1>3, <1>4, <2>1, <3>2, <3>3, TokenKept DEF Pending
    <2> QED BY <2>2, <2>3
  <1>9. CASE Warn
    <2>1. /\ pc["watchdog"] = "warn" /\ pc'["watchdog"] = "log" /\ checks' = checks + 1
          /\ alarms' = alarms + 1
      BY <1>9, WatchdogMoves DEF Warn
    <2>2. Condemned /\ ~Condemned' /\ checks = 2
      BY <2>1 DEF Condemned, TokenInv
    <2>3. Passed => Passed'
      BY <1>3, <2>1, <2>2 DEF Passed
    <2>4. One(Condemned)' = 0 /\ One(Condemned) = 1
      BY <2>2 DEF One
    <2>5. /\ One(Pending)' <= One(Pending) /\ One(Pending) \in 0..1 /\ One(Pending)' \in 0..1
          /\ One(Armed)' = One(Armed) /\ One(Armed) \in 0..1
      BY <1>3, <1>4, <2>3 DEF One, Pending
    <2>6. alarms + 1 + One(Pending) + One(Armed) <= stalls
      BY <1>5, <2>4, <2>5 DEF TokenInv
    <2>7. alarms' + One(Condemned)' + One(Pending)' + One(Armed)' <= stalls'
      BY <1>1, <1>5, <2>1, <2>4, <2>5, <2>6
    <2> QED BY <2>2, <2>7 DEF TokenInv
  <1>10. CASE WatchdogDone
    <2>1. /\ pc["watchdog"] = "look" /\ pc'["watchdog"] = "beat" /\ due'["watchdog"] = CheckEvery
          /\ alarms' = alarms
      BY <1>10, WatchdogMoves DEF WatchdogDone, verdicts
    <2>2. ~Condemned' /\ (Passed => Passed')
      BY <1>3, <2>1 DEF Condemned, Passed
    <2> QED BY <1>1, <1>3, <1>4, <2>1, <2>2, TokenKept DEF Pending
  <1> QED BY <1>6, <1>7, <1>8, <1>9, <1>10 DEF prvWatchdogThread

LEMMA TokenBeats ==
    ASSUME TypeOK, PaceInv, TokenInv, NEW t \in Threads, BeatStore(t) \/ BeatCount(t)
    PROVE  TokenInv'
  <1>1. /\ Only(t) /\ UNCHANGED checking /\ UNCHANGED <<queue, sequence>>
        /\ alarms' = alarms /\ stalls' = stalls /\ fault_mode' = fault_mode
    BY BeatMoves DEF BeatStore, BeatCount, verdicts, control, data
  <1>2. ASSUME t # "processor" PROVE SlotKept
    <2>1. CASE BeatStore(t) /\ t \in Watched
      <3>1. /\ age' = [age EXCEPT ![t] = 0]
            /\ beat_initialized' = beat_initialized \cup {t}
        BY <2>1 DEF BeatStore
      <3>2. age \in [Watched -> Nat] /\ "processor" \in Watched
        BY Names DEF TypeOK
      <3> QED BY <1>2, <3>1, <3>2 DEF SlotKept
    <2>2. CASE BeatStore(t) /\ t \notin Watched
      BY <2>2 DEF BeatStore, slots, SlotKept
    <2>3. CASE BeatCount(t)
      BY <2>3 DEF BeatCount, slots, SlotKept
    <2> QED BY <2>1, <2>2, <2>3
  <1>3. CASE t = "logger"
    <2>1. (ShortPeriod' <=> ShortPeriod) /\ (ShortWait' <=> ShortWait)
      BY <1>1, <1>2, <1>3, ProcessorFrame
    <2> QED BY <1>1, <1>2, <1>3, <2>1, TokenFrame DEF Armed, Calm
  <1>4. CASE t = "sensor"
    <2>1. /\ due'["sensor"] = due["sensor"]
          /\ pc["sensor"] \notin {"make", "log"} /\ pc'["sensor"] \notin {"make", "log"}
      BY <1>4, BeatMoves DEF AfterBeat, WaitFor
    <2>2. pc'["processor"] = pc["processor"] /\ due'["processor"] = due["processor"]
      BY <1>1, <1>4, Names DEF Only
    <2>3. UntilMade' = UntilMade
      BY <2>1 DEF UntilMade
    <2>4. ShortPeriod => ShortPeriod'
      BY <2>1, <2>2 DEF ShortPeriod
    <2>5. ShortWait => ShortWait'
      BY <1>1, <1>2, <1>4, <2>2, <2>3 DEF ShortWait, SlotKept
    <2> QED BY <1>1, <1>2, <1>4, <2>4, <2>5, TokenFrame DEF Armed, Calm
  <1>5. CASE t = "watchdog"
    <2>1. (ShortPeriod' <=> ShortPeriod) /\ (ShortWait' <=> ShortWait)
      BY <1>1, <1>2, <1>5, ProcessorFrame
    <2>2. /\ Late' <=> Late
          /\ pc'["processor"] = pc["processor"] /\ Left("processor")' = Left("processor")
      BY <1>1, <1>2, <1>5, ProcessorFrame
    <2>3. /\ due'["watchdog"] = due["watchdog"]
          /\ pc["watchdog"] \in {"start", "beat", "count"} /\ pc'["watchdog"] \in {"count", "sleep"}
      BY <1>5, BeatMoves DEF AfterBeat, WaitFor
    <2>4. ~Condemned' /\ (Passed => Passed')
      BY <2>2, <2>3 DEF Condemned, Passed
    <2> QED BY <1>1, <2>1, <2>2, <2>4, TokenKept DEF Armed, Calm, Pending
  <1>6. CASE t = "processor"
    <2>1. (Condemned' <=> Condemned) /\ checks' = checks
      BY <1>1, <1>6, WatchdogFrame
    <2>2. /\ pc["processor"] \in {"start", "beat", "count"} /\ pc'["processor"] \in {"count", "pop"}
          /\ due'["sensor"] = due["sensor"] /\ pc'["sensor"] = pc["sensor"]
      BY <1>1, <1>6, BeatMoves, Names DEF AfterBeat, Only
    <2>3. ~Late'
      BY <2>2 DEF Late
    <2>4. ShortPeriod => due["sensor"] <= 3 /\ ShortPeriod'
      BY <2>2 DEF ShortPeriod
    <2>5. ShortPeriod => ShortWait'
      <3>1. CASE BeatStore(t)
        BY <1>6, <3>1, BeatMoves DEF ShortWait
      <3>2. CASE BeatCount(t)
        <4>1. UNCHANGED slots /\ pc["processor"] = "count"
          BY <1>6, <3>2, BeatMoves DEF BeatCount
        <4>2. "processor" \in beat_initialized' => age'["processor"] = 0
          BY <4>1, Names DEF PaceInv, PaceOf, slots
        <4>3. ShortPeriod => UntilMade' \in Nat /\ UntilMade' <= 3
          <5>1. due["sensor"] \in Nat
            BY Names DEF TypeOK
          <5> QED BY <2>2, <2>4, <5>1 DEF UntilMade
        <4> QED BY <4>2, <4>3, Lengths DEF ShortWait
      <3> QED BY <3>1, <3>2
    <2> QED BY <1>1, <2>1, <2>3, <2>4, <2>5, TokenKept DEF Armed, Calm, Pending, TokenInv
  <1> QED BY <1>3, <1>4, <1>5, <1>6, Names

LEMMA TokenPass == TypeOK /\ PaceInv /\ TokenInv /\ Pass => TokenInv'
  <1> SUFFICES ASSUME TypeOK, PaceInv, TokenInv, Pass PROVE TokenInv'
    OBVIOUS
  <1>1. /\ UNCHANGED <<pc, beat_initialized, queue, sequence, checks, last>>
        /\ alarms' = alarms /\ stalls' = stalls /\ fault_mode' = fault_mode
    BY DEF Pass, data, checking, control, verdicts
  <1>2. /\ pc["sensor"] = "sleep" /\ pc["processor"] \in {"pop", "stall"}
        /\ pc["watchdog"] = "sleep" /\ (pc["processor"] = "pop" => queue = <<>>)
    BY PassWaits DEF PaceInv
  <1>3. /\ Span \in Nat /\ age["processor"] \in Nat /\ age'["processor"] \in Nat
        /\ age'["processor"] <= age["processor"] + Span
        /\ \A t \in {"sensor", "processor", "watchdog"} :
             due[t] \in Nat /\ due'[t] \in Nat /\ due'[t] = due[t] - Span
    BY <1>2, PassMoves, Names DEF TypeOK
  <1>4. /\ Left("processor") = due["processor"] /\ Left("processor")' = due'["processor"]
        /\ UntilMade = due["sensor"] /\ UntilMade' = due'["sensor"]
    BY <1>1, <1>2 DEF Left, UntilMade
  <1>5. ~Condemned'
    BY <1>1, <1>2 DEF Condemned
  <1>6. ASSUME Late' PROVE Late
    <2>1. pc["processor"] = "stall" /\ "processor" \in beat_initialized
      BY <1>1, <1>2, <1>6 DEF Late
    <2>2. age'["processor"] + due'["processor"] > Deadline["processor"]
      BY <1>1, <1>2, <1>4, <1>6, <2>1 DEF Late
    <2>3. age["processor"] + due["processor"] > Deadline["processor"]
      BY <1>3, <2>2, Numbers
    <2> QED BY <1>4, <2>1, <2>3 DEF Late
  <1>7. Passed => Passed'
    <2>1. ~Condemned
      BY <1>2 DEF Condemned
    <2>2. Passed => due["watchdog"] > due["processor"] /\ due["processor"] < 17
      BY <1>2, <1>4, <2>1, Numbers DEF Passed
    <2>3. Passed => due'["watchdog"] > due'["processor"] /\ due'["processor"] < 17
      BY <1>3, <2>2
    <2> QED BY <1>1, <1>2, <1>4, <2>3, Numbers DEF Passed
  <1>8. ShortPeriod => ShortPeriod'
    BY <1>1, <1>2, <1>3 DEF ShortPeriod
  <1>9. ShortWait => ShortWait'
    <2>1. /\ Soon(age["processor"] + UntilMade) <=> age["processor"] + due["sensor"] <= 5
          /\ Soon(age["processor"] + UntilMade)' <=> age'["processor"] + due'["sensor"] <= 5
      BY <1>4, Numbers DEF Soon
    <2>2. Soon(age["processor"] + UntilMade) => Soon(age["processor"] + UntilMade)'
      BY <1>3, <2>1
    <2> QED BY <1>1, <1>2, <2>2 DEF ShortWait
  <1> QED BY <1>1, <1>5, <1>6, <1>7, <1>8, <1>9, TokenKept DEF Armed, Calm, Pending

LEMMA TokenStep ==
    TypeOK /\ PaceInv /\ ~clogged' /\ clogs = 0 /\ ResetSection /\ TokenInv /\ [Next]_vars
        => TokenInv'
  <1> SUFFICES ASSUME TypeOK, PaceInv, ~clogged', clogs = 0, ResetSection, TokenInv, [Next]_vars
               PROVE  TokenInv'
    OBVIOUS
  <1>1. CASE UNCHANGED vars
    <2>1. /\ UNCHANGED <<pc, due>> /\ UNCHANGED slots /\ UNCHANGED checking
          /\ UNCHANGED <<queue, sequence>>
          /\ alarms' = alarms /\ stalls' = stalls /\ fault_mode' = fault_mode
      BY <1>1 DEF vars, verdicts, control, data
    <2>2. SlotKept /\ Only("main")
      BY <2>1 DEF slots, SlotKept, Only
    <2>3. (ShortPeriod' <=> ShortPeriod) /\ (ShortWait' <=> ShortWait)
      BY <2>1, <2>2, ProcessorFrame, Names
    <2> QED BY <2>1, <2>2, <2>3, TokenFrame, Names DEF Armed, Calm
  <1>2. CASE Printing
    <2>1. ~Clog /\ ~Unclog /\ \A t \in Threads : ~LogBlocks(t)
      BY DEF Clog, Unclog, LogBlocks, PaceInv
    <2> QED BY <1>2, <2>1, TokenLog DEF Printing
  <1>3. CASE Pipeline
    BY <1>3, TokenSensor, TokenProcessor, TokenLogger DEF Pipeline
  <1> QED BY <1>1, <1>2, <1>3, NextCases, TokenCommands, TokenWatchdog, TokenBeats, TokenPass


\* Only Clog makes the output block, and it counts; warnings then count no more.
LEMMA ClogCounts ==
    ASSUME TypeOK, [Next]_vars
    PROVE  /\ clogs' \in Nat /\ stalls' >= stalls
           /\ clogs' = 0 => clogs = 0 /\ (clogged' => clogged)
           /\ clogs' # 0 => alarms' = alarms
  <1>1. clogs \in Nat /\ stalls \in Nat
    BY DEF TypeOK
  <1>2. CASE Clog
    BY <1>1, <1>2 DEF Clog, verdicts, control
  <1>3. CASE Unclog
    BY <1>1, <1>3 DEF Unclog, verdicts, control
  <1>4. ASSUME UNCHANGED output, stalls' >= stalls, alarms' = alarms
        PROVE  /\ clogs' \in Nat /\ stalls' >= stalls
               /\ clogs' = 0 => clogs = 0 /\ (clogged' => clogged)
               /\ clogs' # 0 => alarms' = alarms
    BY <1>1, <1>4 DEF output
  <1>5. CASE Pipeline \/ Pass
    <2>1. UNCHANGED output /\ UNCHANGED control /\ UNCHANGED verdicts
      BY <1>5 DEF Pipeline, SensorRound, SensorPush, ProcessorPop, StallOver, ProcessorPush,
                  PopTimeout, LoggerPop, Pass
    <2> QED BY <1>1, <1>4, <2>1 DEF control, verdicts
  <1>6. CASE Commands
    <2>1. UNCHANGED output /\ alarms' = alarms /\ (stalls' = stalls \/ stalls' = stalls + 1)
      BY <1>6 DEF Commands, ecu_reset, ecu_set_fault, queue_clear, prvClearBeats, MainPrint,
                  control, verdicts
    <2> QED BY <1>1, <1>4, <2>1
  <1>7. CASE prvWatchdogThread
    <2>1. UNCHANGED output /\ UNCHANGED control /\ (clogs # 0 => alarms' = alarms)
      BY <1>7 DEF prvWatchdogThread, WatchdogWakes, CopyBeat, JudgeBeat, Warn, WatchdogDone, verdicts
    <2> QED BY <1>1, <2>1 DEF output, control
  <1>8. ASSUME NEW t \in Threads, BeatStore(t) \/ BeatCount(t) \/ Log(t) \/ LogBlocks(t)
        PROVE  /\ clogs' \in Nat /\ stalls' >= stalls
               /\ clogs' = 0 => clogs = 0 /\ (clogged' => clogged)
               /\ clogs' # 0 => alarms' = alarms
    <2>1. UNCHANGED output /\ UNCHANGED control /\ alarms' = alarms
      BY <1>8 DEF BeatStore, BeatCount, Log, LogBlocks, verdicts
    <2> QED BY <1>1, <1>4, <2>1 DEF control
  <1>9. CASE UNCHANGED vars
    BY <1>1, <1>4, <1>9 DEF vars, control, verdicts
  <1> QED BY <1>2, <1>3, <1>5, <1>6, <1>7, <1>8, <1>9, NextCases DEF Printing

LEMMA AlarmStep == TypeOK /\ AlarmInv /\ [Next]_vars => AlarmInv'
  <1> SUFFICES ASSUME TypeOK, AlarmInv, [Next]_vars PROVE AlarmInv'
    OBVIOUS
  <1>1. clogs' = 0 => PaceInv' /\ ResetSection' /\ TokenInv'
    <2> SUFFICES ASSUME clogs' = 0 PROVE PaceInv' /\ ResetSection' /\ TokenInv'
      OBVIOUS
    <2>1. clogs = 0 /\ PaceInv /\ ResetSection /\ TokenInv /\ ~clogged'
      BY ClogCounts DEF AlarmInv, PaceInv
    <2> QED BY <2>1, PaceStep, ResetStep, TokenStep
  <1>2. alarms' <= stalls'
    <2>1. alarms \in Nat /\ stalls \in Nat /\ alarms <= stalls /\ stalls' \in Nat /\ alarms' \in Nat
      BY NextTypes DEF AlarmInv, TypeOK
    <2>2. CASE clogs' = 0
      <3>1. One(Condemned)' \in 0..1 /\ One(Pending)' \in 0..1 /\ One(Armed)' \in 0..1
        BY DEF One
      <3>2. alarms' + One(Condemned)' + One(Pending)' + One(Armed)' <= stalls'
        BY <1>1, <2>2 DEF TokenInv
      <3> QED BY <2>1, <3>1, <3>2
    <2>3. CASE clogs' # 0
      BY <2>1, <2>3, ClogCounts
    <2> QED BY <2>2, <2>3
  <1> QED BY <1>1, <1>2 DEF AlarmInv

LEMMA InitAlarms == Init => AlarmInv
  <1> SUFFICES ASSUME Init PROVE AlarmInv
    OBVIOUS
  <1>1. /\ \A t \in Threads : pc[t] = "start" /\ due[t] = 0
        /\ pc["main"] = "idle"
    BY Names DEF Init
  <1>2. /\ beat_initialized = {} /\ log_mutex = "free" /\ ~clogged
        /\ fault_mode = "none" /\ stalls = 0 /\ alarms = 0
    BY DEF Init
  <1>3. PaceInv
    BY <1>1, <1>2, Names DEF PaceInv, SensorPace, PaceOf
  <1>4. ResetSection
    BY <1>1 DEF ResetSection
  <1>5. ~Condemned /\ ~Pending /\ ~Armed
    BY <1>1, <1>2, Names DEF Condemned, Pending, Late, Armed
  <1>6. TokenInv
    BY <1>2, <1>5 DEF TokenInv, One
  <1> QED BY <1>2, <1>3, <1>4, <1>6 DEF AlarmInv

\* While its output is read, prvWatchdogThread never warns of a pause, of a reset,
\* of a beat it has read too early, or of a stall that its samples kept waiting
\* for less: each warning is paid for by a command "fault stall" of its own.
THEOREM AlarmsArePaidFor == Spec => []AlarmsNeedStalls
  <1>1. AlarmInv => AlarmsNeedStalls
    BY DEF AlarmInv, AlarmsNeedStalls
  <1> QED BY <1>1, InitAlarms, InitTypes, NextTypes, AlarmStep, PTL DEF Spec
=============================================================================
