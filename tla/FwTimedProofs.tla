---------------------------- MODULE FwTimedProofs ----------------------------
(***************************************************************************)
(* FwTimed is FwSim with time: it implements the steps of FwSim, whatever  *)
(* the durations are, and so has what FwSimProofs proves of them.          *)
(***************************************************************************)
EXTENDS FwTimed, FwSimProofs

\* A step of the timed firmware is one of the untimed firmware, or time passes.
LEMMA TimedNextImplements == [TimedNext]_tvars => [Next]_vars
  <1> SUFFICES ASSUME TimedNext
               PROVE  [Next]_vars
    BY DEF tvars
  <1>1. CASE \/ TimedTask(prvSensorTask, 0) \/ TimedTask(prvProcessorTask, 0)
             \/ TimedTask(prvLoggerTask, 0) \/ TimedTask(prvWatchdogTask, 0)
    BY <1>1 DEF TimedTask, Next
  <1>2. CASE TimedDiagnostics
    BY <1>2 DEF TimedDiagnostics, TimedTask, Next
  <1>3. CASE TimedTick
    BY <1>3 DEF TimedTick, Next
  <1>4. CASE Expiry
    BY <1>4 DEF Expiry, Next
  <1>5. CASE Pass
    BY <1>5 DEF Pass
  <1>6. CASE Exited /\ UNCHANGED <<due, slack>>
    BY <1>6 DEF Next
  <1> QED BY <1>1, <1>2, <1>3, <1>4, <1>5, <1>6 DEF TimedNext

\* With its durations, the timer, the delays, the stall and the wait of
\* firmware/src/main.c only choose among the behaviours of FwSim.
THEOREM TimedImplements == TimedSpec => Init /\ [][Next]_vars
  <1>1. TimedInit => Init
    BY DEF TimedInit
  <1> QED BY <1>1, TimedNextImplements, PTL DEF TimedSpec

\* So in time as well the samples are accounted for and printed in order, the
\* counters are exact when they are shown, those of "stats" add up and "healthy"
\* is true, for any capacities, script and delays.
THEOREM TimedIsSafe ==
    TimedSpec => [](/\ Accounting /\ StatusExact /\ HealthyMeansAllBeat
                    /\ PrintedInOrder /\ StatsAddUp)
  <1>1. IInv /\ StatsInv /\ OrderInv => /\ Accounting /\ StatusExact /\ HealthyMeansAllBeat
                                        /\ PrintedInOrder /\ StatsAddUp
    BY StatusOfIInv, StatsOfInv DEF IInv, BeatInv, OrderInv
  <1>2. IInv /\ StatsInv /\ OrderInv /\ [Next]_vars => IInv' /\ StatsInv' /\ OrderInv'
    BY NextIInv, NextStats, NextOrder
  <1> QED BY <1>1, <1>2, TimedImplements, InitIInv, InitStats, InitOrder, PTL
=============================================================================
