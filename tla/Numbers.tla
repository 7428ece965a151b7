------------------------------ MODULE Numbers ------------------------------
(***************************************************************************)
(* The fixed-point arithmetic of the two firmwares, from a sample to the   *)
(* line that prints it: prvMakeSample, prvProcessSample and prvPrintFrame  *)
(* of the STM32 firmware; sensor_task, processing_task and telemetry_task  *)
(* of the LM3S6965 one.                                                    *)
(*                                                                         *)
(* Every step of the specification is one sample's way through; the queues *)
(* between the tasks are in FwSim and Lm3s.  The STM32 samples are those   *)
(* of the program, whose generator needs its low bits only: they repeat    *)
(* after 3840.  The LM3S6965 ones draw from Draws.                         *)
(***************************************************************************)
EXTENDS Format, TLC

CONSTANTS Draws,   (* triples of values of rng & 0xFFFF                   *)
          Phases   (* values of (now_ms / 100) % 63                       *)

Int16  == -32768..32767
UInt16 == 0..65535

ASSUME NumbersAssumption == /\ Draws \subseteq UInt16 \X UInt16 \X UInt16
                            /\ Phases \subseteq 0..62

VARIABLES board,    (* the firmware this behaviour is of                  *)
          seq,      (* STM32: the sequence number, modulo 3840            *)
          speed,    (* LM3S6965: speed_kmh_x10 of processing_task         *)
          frame     (* the frame printed last                             *)
vars == <<board, seq, speed, frame>>

\* C's / and %, which truncate toward zero.
Quot(a, b) == IF a >= 0 THEN a \div b ELSE -((-a) \div b)
Rem(a, b)  == IF a >= 0 THEN a % b ELSE -((-a) % b)
Abs(a)     == IF a < 0 THEN -a ELSE a

Bounded(a, low, high) == IF a < low THEN low ELSE IF a > high THEN high ELSE a

-----------------------------------------------------------------------------
(***************************************************************************)
(* STM32                                                                   *)
(***************************************************************************)
\* prvLcgNext, its low eight bits.
prvLcgNext(state) == (state * 13 + 95) % 256

Sample(t, x, y, z, ok) == [temp |-> t, x |-> x, y |-> y, z |-> z, valid |-> ok]

\* The sample that fault sensor stands for, of either firmware.
Failed == Sample(1550, 420, 420, 420, FALSE)

prvMakeSample(n, failure) ==
    LET a == prvLcgNext(n + 1)
        b == prvLcgNext(a)
        c == prvLcgNext(b)
    IN  IF failure THEN Failed
        ELSE Sample(720 + ((n % 30) - 15) * 6, a - 128, b - 128, 100 + (c % 64), TRUE)

prvAccelMagnitude(s) == (Abs(s.x) + Abs(s.y) + Abs(s.z)) \div 3

\* rpm, throttle and speed of a sample.
prvProcessSample(s) ==
    LET mag == prvAccelMagnitude(s)
    IN  [sample |-> s, rpm |-> 700 + s.temp \div 2 + mag * 3,
         throttle |-> Bounded(120 + mag \div 2, 0, 1000),
         speed |-> Bounded(mag * 2, 0, 2500), fault_code |-> 0]

-----------------------------------------------------------------------------
(***************************************************************************)
(* LM3S6965                                                                *)
(***************************************************************************)
\* Up from 20.0 degrees, and down from 80.0.
Temperature(phase) == IF phase < 32 THEN 200 + phase * (600 \div 31)
                                    ELSE 800 - (phase - 32) * (600 \div 31)

sensor_task(phase, d, failure) ==
    IF failure THEN Failed
    ELSE Sample(Temperature(phase), (d[1] * 200) \div 65535 - 100,
                (d[2] * 200) \div 65535 - 100, 980 + (d[3] * 40) \div 65535 - 20, TRUE)

\* Mutant: the loop goes on while the root changes by more than one.
isqrt32_Early(n) ==
    LET root[x \in 1..n] == LET y == (x + n \div x) \div 2
                           IN  IF y < x - 1 THEN root[y] ELSE x
    IN  IF n = 0 THEN 0 ELSE root[n]

\* Newton's method, from above.
isqrt32(n) ==
    LET root[x \in 1..n] == LET y == (x + n \div x) \div 2
                           IN  IF y < x THEN root[y] ELSE x
    IN  IF n = 0 THEN 0 ELSE root[n]

mag_sq(s) == s.x * s.x + s.y * s.y + s.z * s.z

\* Mutant: only the upper bound.
SpeedAfter_Below(mag) == LET v == speed + Quot(mag - 980, 10)
                         IN  IF v > 2000 THEN 2000 ELSE v

SpeedAfter(mag) == Bounded(speed + Quot(mag - 980, 10), 0, 2000)

processing_task(s) ==
    LET mag == isqrt32(mag_sq(s))
        ok  == s.valid /\ s.temp <= 750
    IN  [sample |-> [s EXCEPT !.valid = ok],
         rpm |-> 700 + (s.temp * 175) \div 1000 + (mag * 125) \div 10000,
         throttle |-> Bounded(120 + (mag * 140) \div 10000 + (s.temp * 10) \div 60, 0, 1000),
         speed |-> SpeedAfter(mag), fault_code |-> IF ok THEN 0 ELSE 1]

-----------------------------------------------------------------------------
(***************************************************************************)
(* The lines                                                               *)
(***************************************************************************)
\* The two numbers a value is printed as.
Whole(v, scale) == Quot(v, scale)
Rest_Signed(v, scale) == Rem(v, scale)   \* Mutant: with the sign of the value.
Rest(v, scale)  == Abs(Rem(v, scale))

\* %d and %0nd, %u, and %02X, on either board.
Signed(v, width)   == IF board = "stm32" THEN prvAppendSigned(v, width, width > 0)
                                         ELSE fmt_int(v, width, width > 0, FALSE)
Unsigned(v) == IF board = "stm32" THEN prvAppendUnsigned(v, 10, 0, FALSE)
                                  ELSE fmt_uint(v, 10, 0, FALSE, FALSE)
Hex(v) == fmt_uint(v, 16, 2, TRUE, FALSE)

\* What is printed on either side of the point.
Temp(v)  == <<Signed(Whole(v, 10), 0), Signed(Rest(v, 10), 0)>>
Accel(v) == <<Signed(Whole(v, 100), 0), Signed(Rest(v, 100), 2)>>
Tenths(v) == <<Unsigned(Whole(v, 10)), Unsigned(Rest(v, 10))>>

Both(p) == p[1] \o p[2]

\* The fields that both lines have; a counter or a time as long as it can be.
Counter == Unsigned(2147483647)
Fields == LET s == frame.sample IN
    Counter \o Both(Temp(s.temp)) \o Both(Accel(s.x)) \o Both(Accel(s.y)) \o
    Both(Accel(s.z)) \o Both(Tenths(frame.speed)) \o Unsigned(frame.rpm) \o
    Both(Tenths(frame.throttle))

YesNo(b) == Text(IF b THEN 3 ELSE 2)

\* prvPrintFrame's line and telemetry_task's, their text gathered in front.
prvPrintFrame  == Text(75) \o Fields \o YesNo(frame.sample.valid) \o Counter
telemetry_task == Text(74) \o Fields \o Hex(frame.fault_code) \o
                  Signed(IF frame.sample.valid THEN 1 ELSE 0, 0)

Line == IF board = "stm32" THEN prvPrintFrame ELSE telemetry_task
LineSize_Short == IF board = "stm32" THEN 256 ELSE 100   \* Mutant: a smaller buf.
LineSize == IF board = "stm32" THEN 256 ELSE 200

-----------------------------------------------------------------------------
Nothing == [sample |-> Sample(0, 0, 0, 0, TRUE), rpm |-> 0, throttle |-> 0,
            speed |-> 0, fault_code |-> 0]

Init == board \in {"stm32", "lm3s"} /\ seq = 0 /\ speed = 0 /\ frame = Nothing

StmFrame == /\ board = "stm32"
            /\ seq' = (seq + 1) % 3840
            /\ \E failure \in BOOLEAN : frame' = prvProcessSample(prvMakeSample(seq', failure))
            /\ UNCHANGED <<board, speed>>

LmFrame == /\ board = "lm3s"
           /\ \E p \in Phases, d \in Draws, failure \in BOOLEAN :
                frame' = processing_task(sensor_task(p, d, failure))
           /\ speed' = frame'.speed
           /\ UNCHANGED <<board, seq>>

Next == StmFrame \/ LmFrame

Spec == Init /\ [][Next]_vars

-----------------------------------------------------------------------------
\* Every number fits the field it is cast to: none of the casts to int16_t and
\* uint16_t of prvMakeSample, prvProcessSample, sensor_task and processing_task
\* loses anything, nor does the accumulator of the speed leave its bounds.
\* prvProcessSample casts throttle and speed before it bounds them; rpm, which
\* it does not bound, is above either of them then, so they fit as rpm does.
FieldsFit ==
    /\ \A v \in {frame.sample.temp, frame.sample.x, frame.sample.y, frame.sample.z} : v \in Int16
    /\ \A v \in {frame.rpm, frame.throttle, frame.speed} : v \in UInt16
    /\ speed \in 0..2000

\* isqrt32 is the square root, rounded down: its loop neither stops early nor
\* passes it.
MagnitudeExact == LET r == isqrt32(mag_sq(frame.sample))
                  IN  r * r <= mag_sq(frame.sample) /\ mag_sq(frame.sample) < (r + 1) * (r + 1)

\* The number that a text of digits says.
Said(chars) == LET n == Len(chars) IN
    CASE n = 1 -> chars[1]
      [] n = 2 -> chars[1] * 10 + chars[2]
      [] n = 3 -> (chars[1] * 10 + chars[2]) * 10 + chars[3]
      [] n = 4 -> ((chars[1] * 10 + chars[2]) * 10 + chars[3]) * 10 + chars[4]

\* A reader of the line takes p for the value v: the digits on both sides of the
\* point, those after it being as many as the scale has zeros, and the sign.
Reads(p, v, scale) ==
    LET below == Head(p[1]) = Minus
        whole == IF below THEN Tail(p[1]) ELSE p[1]
        size  == Said(whole) * scale + Said(p[2])
    IN  /\ \A i \in 1..Len(p[2]) : p[2][i] \in 0..9
        /\ Len(p[2]) = IF scale = 10 THEN 1 ELSE 2
        /\ v = IF below THEN -size ELSE size

\* Between -1.00 and 0 the whole part is 0, and nothing says that it is below.
SignIsLost(v, scale) == -scale < v /\ v < 0

Correct(p, v, scale) == Reads(p, IF SignIsLost(v, scale) THEN -v ELSE v, scale)

\* What prvPrintFrame and telemetry_task print is what the frame holds, but for
\* the sign of an acceleration between -1.00 and 0, which comes out positive.
ReadsBack ==
    LET s == frame.sample IN
    /\ Correct(Temp(s.temp), s.temp, 10)
    /\ \A v \in {s.x, s.y, s.z} : Correct(Accel(v), v, 100)
    /\ \A v \in {frame.speed, frame.throttle} : Reads(Tenths(v), v, 10)

\* No line is cut by its buffer, of 256 or 200 bytes: its end of line is printed.
LineFits == Buffered(Line, LineSize) = Line

\* REPORT.md:256 gives an acceleration of 7 as the one printed as 0.07.
PrintedIsMeant == \A v \in {frame.sample.x, frame.sample.y, frame.sample.z} :
                     Reads(Accel(v), v, 100)
=============================================================================
