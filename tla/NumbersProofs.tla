--------------------------- MODULE NumbersProofs ---------------------------
(***************************************************************************)
(* Proofs about Numbers: for whatever the generator draws, the casts lose  *)
(* nothing, the root is exact, and the lines say what the frames hold and  *)
(* fit their buffers.                                                      *)
(*                                                                         *)
(* The two loops of the code, Newton's and the one that takes digits off,  *)
(* are recursive functions.  What they compute is proved by the least      *)
(* counterexample: LeastNat speaks of a set, not of a predicate.           *)
(***************************************************************************)
EXTENDS Numbers, NaturalsInduction, WellFoundedInduction, SequenceTheorems, TLAPS

LEMMA LeastNat ==
    ASSUME NEW S \in SUBSET Nat, S # {}
    PROVE  \E n \in S : \A m \in S : n <= m
  <1> DEFINE R == {ss \in Nat \X Nat : ss[1] < ss[2]}
  <1>1. IsWellFoundedOn(R, Nat)
    BY NatLessThanWellFounded DEF OpToRel
  <1>2. \A m, n \in Nat : <<m, n>> \in R <=> m < n
    OBVIOUS
  <1> HIDE DEF R
  <1>3. PICK n \in S : \A m \in S : ~ (<<m, n>> \in R)
    BY <1>1, WFMin
  <1>4. ASSUME NEW m \in S PROVE n <= m
    <2>1. ~ (m < n)
      BY <1>2, <1>3
    <2> QED BY <2>1
  <1> QED BY <1>4

-----------------------------------------------------------------------------
(***************************************************************************)
(* isqrt32                                                                 *)
(***************************************************************************)
IsRoot(n, r) == r \in Nat /\ r * r <= n /\ n < (r + 1) * (r + 1)

\* What the loop makes of x.
Better(n, x) == (x + n \div x) \div 2

LEMMA Quotient ==
    ASSUME NEW n \in Nat, NEW x \in Nat, x >= 1
    PROVE  n \div x \in Nat /\ (n \div x) * x <= n /\ n < ((n \div x) + 1) * x
  OBVIOUS

\* A step of the loop stays at or above the root; it goes up only from the root
\* or below, and never down from below.
LEMMA NewtonStep ==
    ASSUME NEW n \in Nat, NEW x \in 1..n
    PROVE  /\ Better(n, x) \in 1..n
           /\ n < (Better(n, x) + 1) * (Better(n, x) + 1)
           /\ Better(n, x) >= x => x * x <= n
           /\ n >= (x + 1) * (x + 1) => Better(n, x) >= x
  <1> DEFINE q == n \div x
             y == (x + q) \div 2
  <1>1. q \in Nat /\ q * x <= n /\ n < (q + 1) * x
    BY Quotient
  <1>2. q >= 1
    BY <1>1
  <1>3. q <= n
    <2>1. q * 1 <= q * x
      BY <1>1
    <2> QED BY <1>1, <2>1
  <1> HIDE DEF q
  <1>4. y \in Nat /\ 2 * y <= x + q /\ x + q < 2 * y + 2
    BY <1>1
  <1>5. y \in 1..n
    BY <1>1, <1>2, <1>3, <1>4
  <1> HIDE DEF y
  <1>6. n < (y + 1) * (y + 1)
    <2>1. x + (q + 1) <= 2 * (y + 1)
      BY <1>1, <1>4
    <2>2. (x + (q + 1)) * (x + (q + 1)) <= (2 * (y + 1)) * (2 * (y + 1))
      BY <1>1, <1>4, <2>1
    <2>3. 4 * (x * (q + 1)) <= (x + (q + 1)) * (x + (q + 1))
      BY <1>1
    <2>4. (2 * (y + 1)) * (2 * (y + 1)) = 4 * ((y + 1) * (y + 1))
      BY <1>4
    <2>5. n < x * (q + 1)
      BY <1>1
    <2>6. x * (q + 1) \in Nat /\ (y + 1) * (y + 1) \in Nat
      BY <1>1, <1>4
    <2> QED BY <2>2, <2>3, <2>4, <2>5, <2>6, <1>1, <1>4
  <1>7. ASSUME y >= x PROVE x * x <= n
    <2>1. q >= x
      BY <1>1, <1>4, <1>7
    <2>2. x * x <= q * x
      BY <1>1, <2>1
    <2> QED BY <1>1, <2>2
  <1>8. ASSUME n >= (x + 1) * (x + 1) PROVE y >= x
    <2>1. q >= x
      <3>1. SUFFICES ASSUME q + 1 <= x PROVE FALSE
        BY <1>1
      <3>2. (q + 1) * x <= x * x
        BY <1>1, <3>1
      <3>3. x * x <= (x + 1) * (x + 1)
        OBVIOUS
      <3> QED BY <1>1, <1>8, <3>2, <3>3
    <2> QED BY <1>1, <1>4, <2>1
  <1> QED BY <1>5, <1>6, <1>7, <1>8 DEF Better, q, y

LEMMA RootExists ==
    ASSUME NEW n \in Nat, n >= 1
    PROVE  \E r \in 1..n : IsRoot(n, r)
  <1> DEFINE S == {m \in Nat : n < (m + 1) * (m + 1)}
  <1>1. n \in S
    OBVIOUS
  <1>2. PICK r \in S : \A m \in S : r <= m
    BY <1>1, LeastNat
  <1>3. r \in 1..n /\ n < (r + 1) * (r + 1)
    BY <1>1, <1>2
  <1>4. r - 1 \in Nat /\ r - 1 \notin S
    BY <1>2, <1>3
  <1>5. r * r <= n
    BY <1>3, <1>4
  <1> QED BY <1>3, <1>5 DEF IsRoot

LEMMA RootUnique ==
    ASSUME NEW n \in Nat, NEW r, NEW s, IsRoot(n, r), IsRoot(n, s)
    PROVE  r = s
  <1>1. ASSUME NEW a \in Nat, NEW b \in Nat, a < b
        PROVE  (a + 1) * (a + 1) <= b * b
    BY <1>1
  <1>2. r \in Nat /\ s \in Nat
    BY DEF IsRoot
  <1>3. ~(r < s)
    BY <1>1, <1>2 DEF IsRoot
  <1>4. ~(s < r)
    BY <1>1, <1>2 DEF IsRoot
  <1> QED BY <1>2, <1>3, <1>4

\* f is the function root of isqrt32.
Newton(n, f) == f = [x \in 1..n |-> IF Better(n, x) < x THEN f[Better(n, x)] ELSE x]

LEMMA NewtonExists ==
    ASSUME NEW n \in Nat, n >= 1
    PROVE  \E f : Newton(n, f)
  <1>1. PICK r \in 1..n : IsRoot(n, r)
    BY RootExists
  <1> DEFINE f == [x \in 1..n |-> IF n < (x + 1) * (x + 1) THEN r ELSE x]
  <1>2. ASSUME NEW x \in 1..n
        PROVE  f[x] = IF Better(n, x) < x THEN f[Better(n, x)] ELSE x
    <2>0. /\ Better(n, x) \in 1..n
          /\ n < (Better(n, x) + 1) * (Better(n, x) + 1)
          /\ Better(n, x) >= x => x * x <= n
          /\ n >= (x + 1) * (x + 1) => Better(n, x) >= x
      BY NewtonStep
    <2>1. CASE n < (x + 1) * (x + 1)
      <3>1. f[x] = r
        BY <2>1
      <3>2. CASE Better(n, x) < x
        <4>1. f[Better(n, x)] = r
          BY <2>0
        <4> QED BY <3>1, <3>2, <4>1
      <3>3. CASE ~(Better(n, x) < x)
        <4>1. IsRoot(n, x)
          BY <2>0, <2>1, <3>3 DEF IsRoot
        <4> QED BY <1>1, <3>1, <3>3, <4>1, RootUnique
      <3> QED BY <3>2, <3>3
    <2>2. CASE ~(n < (x + 1) * (x + 1))
      <3>1. f[x] = x
        BY <2>2
      <3>2. ~(Better(n, x) < x)
        BY <2>0, <2>2
      <3> QED BY <3>1, <3>2
    <2> QED BY <2>1, <2>2
  <1>3. f = [x \in 1..n |-> f[x]]
    OBVIOUS
  <1> HIDE DEF f
  <1>4. f = [x \in 1..n |-> IF Better(n, x) < x THEN f[Better(n, x)] ELSE x]
    BY <1>2, <1>3
  <1> QED BY <1>4 DEF Newton

LEMMA NewtonIsRoot ==
    ASSUME NEW n \in Nat, n >= 1, NEW f, Newton(n, f)
    PROVE  IsRoot(n, f[n])
  <1> DEFINE Bad == {x \in 1..n : n < (x + 1) * (x + 1) /\ ~IsRoot(n, f[x])}
  <1>1. SUFFICES Bad = {}
    <2>1. n \in 1..n /\ n < (n + 1) * (n + 1)
      OBVIOUS
    <2> QED BY <1>1, <2>1
  <1>2. SUFFICES ASSUME Bad # {} PROVE FALSE
    OBVIOUS
  <1>3. Bad \in SUBSET Nat
    OBVIOUS
  <1>4. PICK x \in Bad : \A m \in Bad : x <= m
    BY <1>2, <1>3, LeastNat
  <1>5. x \in 1..n /\ n < (x + 1) * (x + 1) /\ ~IsRoot(n, f[x])
    OBVIOUS
  <1>6. /\ Better(n, x) \in 1..n
        /\ n < (Better(n, x) + 1) * (Better(n, x) + 1)
        /\ Better(n, x) >= x => x * x <= n
    BY <1>5, NewtonStep
  <1>7. f[x] = IF Better(n, x) < x THEN f[Better(n, x)] ELSE x
    BY <1>5 DEF Newton
  <1>8. CASE Better(n, x) < x
    <2>1. Better(n, x) \notin Bad
      BY <1>4, <1>5, <1>6, <1>8
    <2>2. IsRoot(n, f[Better(n, x)])
      BY <1>6, <2>1
    <2> QED BY <1>5, <1>7, <1>8, <2>2
  <1>9. CASE ~(Better(n, x) < x)
    <2>1. x * x <= n
      BY <1>5, <1>6, <1>9
    <2> QED BY <1>5, <1>7, <1>9, <2>1 DEF IsRoot
  <1> QED BY <1>8, <1>9

\* isqrt32 is the square root, rounded down, of every number: the loop of
\* processing_task.c stops, and neither early nor late.  That its sums fit
\* uint32_t is SumsFit's.
THEOREM RootIsExact == \A n \in Nat : IsRoot(n, isqrt32(n))
  <1> SUFFICES ASSUME NEW n \in Nat PROVE IsRoot(n, isqrt32(n))
    OBVIOUS
  <1>1. CASE n = 0
    BY <1>1 DEF isqrt32, IsRoot
  <1>2. CASE n >= 1
    <2> DEFINE f == CHOOSE g : Newton(n, g)
    <2>1. isqrt32(n) = f[n]
      BY <1>2 DEF isqrt32, Newton, Better
    <2>2. Newton(n, f)
      BY <1>2, NewtonExists
    <2> QED BY <1>2, <2>1, <2>2, NewtonIsRoot
  <1> QED BY <1>1, <1>2

\* No sum of the loop exceeds n + 1, which x + 1 is at its start.
LEMMA SumOfStep ==
    ASSUME NEW n \in Nat, NEW x \in 1..n
    PROVE  x + n \div x <= n + 1
  <1>1. PICK q \in Nat : q = n \div x /\ q * x <= n /\ n < (q + 1) * x
    BY Quotient
  <1>2. q >= 1
    <2>1. CASE q = 0
      BY <1>1, <2>1
    <2> QED BY <2>1
  <1>3. (q - 1) * (x - 1) >= 0
    BY <1>2
  <1>4. (q - 1) * (x - 1) = q * x - q - x + 1
    OBVIOUS
  <1> QED BY <1>1, <1>3, <1>4

-----------------------------------------------------------------------------
(***************************************************************************)
(* The numbers                                                             *)
(***************************************************************************)
Within(v, low, high) == v \in Int /\ low <= v /\ v <= high

\* What the arithmetic keeps the numbers of a sample and of a frame within.
SampleInv(s) == /\ Within(s.temp, 0, 1550)
                /\ Within(s.x, -128, 420) /\ Within(s.y, -128, 420) /\ Within(s.z, 0, 1000)

Derived(f) == /\ Within(f.rpm, 0, 9999) /\ Within(f.throttle, 0, 1000)
              /\ Within(f.speed, 0, 2500) /\ f.fault_code \in {0, 1}

FrameInv == /\ board \in {"stm32", "lm3s"}
            /\ Within(seq, 0, 3839) /\ Within(speed, 0, 2000)
            /\ SampleInv(frame.sample) /\ Derived(frame)

LEMMA RangeIs ==
    ASSUME NEW a \in Int, NEW b \in Int, NEW v
    PROVE  v \in a..b <=> v \in Int /\ a <= v /\ v <= b
  OBVIOUS

LEMMA InUInt16 == \A v : v \in UInt16 <=> v \in Int /\ 0 <= v /\ v <= 65535
  <1> DEFINE n == 65535
  <1>1. n \in Int
    BY SMT
  <1>2. UInt16 = 0..n
    BY SMT DEF UInt16
  <1> HIDE DEF n
  <1>3. \A v : v \in UInt16 <=> v \in Int /\ 0 <= v /\ v <= n
    BY <1>1, <1>2, RangeIs
  <1> QED BY <1>3 DEF n

LEMMA BoundedIn ==
    ASSUME NEW a \in Int, NEW low \in Int, NEW high \in Int, low <= high
    PROVE  Within(Bounded(a, low, high), low, high)
  BY DEF Bounded, Within

LEMMA LcgByte == \A n \in Int : Within(prvLcgNext(n), 0, 255)
  BY DEF prvLcgNext, Within

LEMMA InTriple ==
    ASSUME NEW A, NEW d \in A \X A \X A
    PROVE  d[1] \in A /\ d[2] \in A /\ d[3] \in A
  OBVIOUS

LEMMA FailedSample == SampleInv(Failed)
  BY SMT DEF SampleInv, Failed, Sample, Within

\* The samples of the STM32 firmware.
LEMMA StmSample ==
    ASSUME NEW n, Within(n, 0, 3839), NEW failure \in BOOLEAN
    PROVE  SampleInv(prvMakeSample(n, failure))
  <1> DEFINE s == prvMakeSample(n, failure)
  <1> SUFFICES SampleInv(s)
    OBVIOUS
  <1>1. CASE failure
    <2>1. s = Failed
      BY <1>1, SMT DEF prvMakeSample
    <2> HIDE DEF s
    <2> QED BY <2>1, FailedSample, SMT
  <1>2. CASE ~failure
    <2>1. PICK a \in Int : a = prvLcgNext(n + 1) /\ 0 <= a /\ a <= 255
      BY LcgByte, SMT DEF Within
    <2>2. PICK b \in Int : b = prvLcgNext(a) /\ 0 <= b /\ b <= 255
      BY LcgByte, SMT DEF Within
    <2>3. PICK c \in Int : c = prvLcgNext(b) /\ 0 <= c /\ c <= 255
      BY LcgByte, SMT DEF Within
    <2>4. PICK t \in Int : t = 720 + ((n % 30) - 15) * 6 /\ 0 <= t /\ t <= 1550
      BY SMT DEF Within
    <2>5. s.temp = t /\ s.x = a - 128 /\ s.y = b - 128 /\ s.z = 100 + (c % 64)
      BY <1>2, <2>1, <2>2, <2>3, <2>4, SMT DEF prvMakeSample, Sample
    <2> HIDE DEF s
    <2> QED BY <2>1, <2>2, <2>3, <2>4, <2>5, SMT DEF SampleInv, Within
  <1> QED BY <1>1, <1>2

\* The samples of the LM3S6965 firmware, whatever the generator draws.
LEMMA LmSample ==
    ASSUME NEW p \in Phases, NEW d \in Draws, NEW failure \in BOOLEAN
    PROVE  SampleInv(sensor_task(p, d, failure))
  <1> DEFINE s == sensor_task(p, d, failure)
  <1> SUFFICES SampleInv(s)
    OBVIOUS
  <1>1. p \in 0..62 /\ d \in UInt16 \X UInt16 \X UInt16
    BY NumbersAssumption, SMT
  <1>2. Within(Temperature(p), 0, 1550)
    BY <1>1, SMT DEF Temperature, Within
  <1>3. d[1] \in UInt16 /\ d[2] \in UInt16 /\ d[3] \in UInt16
    BY <1>1, InTriple
  <1>4. \A v \in UInt16 : /\ Within((v * 200) \div 65535 - 100, -128, 420)
                          /\ Within(980 + (v * 40) \div 65535 - 20, 0, 1000)
    <2>1. SUFFICES ASSUME NEW v \in UInt16
                   PROVE  /\ Within((v * 200) \div 65535 - 100, -128, 420)
                          /\ Within(980 + (v * 40) \div 65535 - 20, 0, 1000)
      OBVIOUS
    <2>2. v \in Int /\ 0 <= v /\ v <= 65535
      BY InUInt16
    <2>3. (v * 200) \div 65535 \in Int /\ 0 <= (v * 200) \div 65535 /\ (v * 200) \div 65535 <= 200
      BY <2>2, SMT
    <2>4. (v * 40) \div 65535 \in Int /\ 0 <= (v * 40) \div 65535 /\ (v * 40) \div 65535 <= 40
      BY <2>2, SMT
    <2> QED BY <2>3, <2>4, SMT DEF Within
  <1>5. CASE failure
    <2>1. s = Failed
      BY <1>5, SMT DEF sensor_task
    <2> HIDE DEF s
    <2> QED BY <2>1, FailedSample, SMT
  <1>6. CASE ~failure
    <2>1. /\ s.temp = Temperature(p)
          /\ s.x = (d[1] * 200) \div 65535 - 100
          /\ s.y = (d[2] * 200) \div 65535 - 100
          /\ s.z = 980 + (d[3] * 40) \div 65535 - 20
      BY <1>6, SMT DEF sensor_task, Sample
    <2> HIDE DEF s
    <2>2. Within(s.x, -128, 420) /\ Within(s.y, -128, 420) /\ Within(s.z, 0, 1000)
      BY <1>3, <1>4, <2>1, SMT
    <2> QED BY <1>2, <2>1, <2>2, SMT DEF SampleInv
  <1> QED BY <1>5, <1>6

LEMMA AbsWithin ==
    ASSUME NEW a, NEW b \in Nat, Within(a, -b, b)
    PROVE  Within(Abs(a), 0, b)
  BY DEF Abs, Within

\* The magnitude of either firmware.
LEMMA StmMagnitude ==
    ASSUME NEW s, SampleInv(s)
    PROVE  Within(prvAccelMagnitude(s), 0, 1000)
  <1>1. Within(s.x, -1000, 1000) /\ Within(s.y, -1000, 1000) /\ Within(s.z, -1000, 1000)
    BY SMT DEF SampleInv, Within
  <1>2. Within(Abs(s.x), 0, 1000) /\ Within(Abs(s.y), 0, 1000) /\ Within(Abs(s.z), 0, 1000)
    BY <1>1, AbsWithin, SMT
  <1> QED BY <1>2, SMT DEF prvAccelMagnitude, Within

LEMMA SquareWithin ==
    ASSUME NEW a, NEW b \in Nat, Within(a, -b, b)
    PROVE  Within(a * a, 0, b * b)
  <1>1. a \in Int /\ -b <= a /\ a <= b
    BY DEF Within
  <1>2. CASE a >= 0
    BY <1>1, <1>2 DEF Within
  <1>3. CASE a < 0
    <2>1. (-a) * (-a) = a * a
      BY <1>1
    <2>2. (-a) * (-a) >= 0 /\ (-a) * (-a) <= b * b
      BY <1>1, <1>3
    <2> QED BY <1>1, <2>1, <2>2 DEF Within
  <1> QED BY <1>1, <1>2, <1>3

LEMMA SumOfSquares ==
    ASSUME NEW s, SampleInv(s)
    PROVE  Within(mag_sq(s), 0, 3 * (1000 * 1000))
  <1>1. Within(s.x, -1000, 1000) /\ Within(s.y, -1000, 1000) /\ Within(s.z, -1000, 1000)
    BY SMT DEF SampleInv, Within
  <1>2. /\ Within(s.x * s.x, 0, 1000 * 1000) /\ Within(s.y * s.y, 0, 1000 * 1000)
        /\ Within(s.z * s.z, 0, 1000 * 1000)
    BY <1>1, SquareWithin, SMT
  <1> QED BY <1>2, SMT DEF mag_sq, Within

LEMMA LmMagnitude ==
    ASSUME NEW s, SampleInv(s)
    PROVE  mag_sq(s) \in Nat /\ Within(isqrt32(mag_sq(s)), 0, 2000)
  <1>1. Within(mag_sq(s), 0, 3 * (1000 * 1000))
    BY SumOfSquares
  <1> DEFINE m == mag_sq(s)
             r == isqrt32(m)
  <1>2. m \in Nat
    BY <1>1, SMT DEF Within
  <1>3. IsRoot(m, r)
    BY <1>2, RootIsExact
  <1> HIDE DEF r, m
  <1>4. r \in Nat /\ r * r <= m
    BY <1>3 DEF IsRoot
  <1>5. ASSUME r > 2000 PROVE FALSE
    <2>1. r * r >= 2000 * 2000
      BY <1>4, <1>5, SMT
    <2>2. m <= 3 * (1000 * 1000)
      BY <1>1, SMT DEF m, Within
    <2> QED BY <1>2, <1>4, <2>1, <2>2, SMT
  <1>6. Within(r, 0, 2000)
    BY <1>4, <1>5, SMT DEF Within
  <1> QED BY <1>2, <1>6 DEF m, r

LEMMA StmDerived ==
    ASSUME NEW s, SampleInv(s), NEW f, f = prvProcessSample(s)
    PROVE  SampleInv(f.sample) /\ Derived(f)
  <1> DEFINE mag == prvAccelMagnitude(s)
  <1>1. mag \in Int /\ 0 <= mag /\ mag <= 1000
    BY StmMagnitude, SMT DEF Within
  <1>2. /\ f.sample = s /\ f.rpm = 700 + s.temp \div 2 + mag * 3
        /\ f.throttle = Bounded(120 + mag \div 2, 0, 1000)
        /\ f.speed = Bounded(mag * 2, 0, 2500) /\ f.fault_code = 0
    BY SMT DEF prvProcessSample
  <1> HIDE DEF mag
  <1>3. Within(f.throttle, 0, 1000)
    BY <1>1, <1>2, BoundedIn, SMT
  <1>4. Within(f.speed, 0, 2500)
    BY <1>1, <1>2, BoundedIn, SMT
  <1>5. Within(f.rpm, 0, 9999)
    BY <1>1, <1>2, SMT DEF SampleInv, Within
  <1> QED BY <1>2, <1>3, <1>4, <1>5, SMT DEF Derived

LEMMA LmDerived ==
    ASSUME NEW s, SampleInv(s), Within(speed, 0, 2000), NEW f, f = processing_task(s)
    PROVE  SampleInv(f.sample) /\ Derived(f) /\ Within(f.speed, 0, 2000)
  <1> DEFINE mag == isqrt32(mag_sq(s))
             ok  == s.valid /\ s.temp <= 750
  <1>1. mag \in Int /\ 0 <= mag /\ mag <= 2000
    BY LmMagnitude, SMT DEF Within
  <1>2. /\ f.sample = [s EXCEPT !.valid = ok]
        /\ f.rpm = 700 + (s.temp * 175) \div 1000 + (mag * 125) \div 10000
        /\ f.throttle = Bounded(120 + (mag * 140) \div 10000 + (s.temp * 10) \div 60, 0, 1000)
        /\ f.speed = SpeedAfter(mag) /\ f.fault_code = IF ok THEN 0 ELSE 1
    BY SMT DEF processing_task
  <1> HIDE DEF mag, ok
  <1>3. SampleInv(f.sample)
    BY <1>2, SMT DEF SampleInv
  <1>4. s.temp \in Int /\ 0 <= s.temp /\ s.temp <= 1550
    BY SMT DEF SampleInv, Within
  <1>5. Within(f.throttle, 0, 1000)
    <2>1. PICK a \in Int : a = 120 + (mag * 140) \div 10000 + (s.temp * 10) \div 60
      BY <1>1, <1>4, SMT
    <2>2. f.throttle = Bounded(a, 0, 1000)
      BY <1>2, <2>1
    <2>3. Within(Bounded(a, 0, 1000), 0, 1000)
      BY BoundedIn, SMT
    <2> QED BY <2>2, <2>3
  <1>6. Within(f.speed, 0, 2000)
    <2>1. PICK a \in Int : a = speed + Quot(mag - 980, 10)
      BY <1>1, SMT DEF Quot, Within
    <2>2. f.speed = Bounded(a, 0, 2000)
      BY <1>2, <2>1 DEF SpeedAfter
    <2>3. Within(Bounded(a, 0, 2000), 0, 2000)
      BY BoundedIn, SMT
    <2> QED BY <2>2, <2>3
  <1>7. Within(f.rpm, 0, 9999)
    <2>1. (s.temp * 175) \div 1000 \in Int /\ 0 <= (s.temp * 175) \div 1000
          /\ (s.temp * 175) \div 1000 <= 272
      BY <1>4, SMT
    <2>2. (mag * 125) \div 10000 \in Int /\ 0 <= (mag * 125) \div 10000
          /\ (mag * 125) \div 10000 <= 25
      BY <1>1, SMT
    <2> QED BY <1>2, <2>1, <2>2, SMT DEF Within
  <1>8. f.fault_code \in {0, 1} /\ Within(f.speed, 0, 2500)
    BY <1>2, <1>6, SMT DEF Within
  <1> QED BY <1>3, <1>5, <1>6, <1>7, <1>8 DEF Derived

LEMMA FramesBounded == Spec => []FrameInv
  <1>1. Init => FrameInv
    BY SMT DEF Init, FrameInv, SampleInv, Derived, Nothing, Sample, Within
  <1>2. ASSUME FrameInv, [Next]_vars
        PROVE  FrameInv'
    <2>0. /\ board \in {"stm32", "lm3s"} /\ Within(seq, 0, 3839) /\ Within(speed, 0, 2000)
          /\ SampleInv(frame.sample) /\ Derived(frame)
      BY <1>2 DEF FrameInv
    <2>1. CASE StmFrame
      <3>1. Within(seq', 0, 3839) /\ UNCHANGED <<board, speed>>
        BY <2>0, <2>1, SMT DEF StmFrame, Within
      <3>2. PICK failure \in BOOLEAN : frame' = prvProcessSample(prvMakeSample(seq', failure))
        BY <2>1 DEF StmFrame
      <3>3. SampleInv(prvMakeSample(seq', failure))
        BY <3>1, StmSample
      <3>4. SampleInv(frame'.sample) /\ Derived(frame')
        BY <3>2, <3>3, StmDerived
      <3> QED BY <2>0, <3>1, <3>4 DEF FrameInv, SampleInv, Derived, Within
    <2>2. CASE LmFrame
      <3>1. PICK p \in Phases, d \in Draws, failure \in BOOLEAN :
              frame' = processing_task(sensor_task(p, d, failure))
        BY <2>2 DEF LmFrame
      <3>2. SampleInv(sensor_task(p, d, failure))
        BY LmSample
      <3>3. SampleInv(frame'.sample) /\ Derived(frame') /\ Within(frame'.speed, 0, 2000)
        BY <2>0, <3>1, <3>2, LmDerived
      <3>4. UNCHANGED <<board, seq>> /\ speed' = frame'.speed
        BY <2>2 DEF LmFrame
      <3> QED BY <2>0, <3>3, <3>4 DEF FrameInv, SampleInv, Derived, Within
    <2>3. CASE UNCHANGED vars
      BY <2>0, <2>3 DEF FrameInv, SampleInv, Derived, Within, vars
    <2> QED BY <1>2, <2>1, <2>2, <2>3 DEF Next
  <1> QED BY <1>1, <1>2, PTL DEF Spec

\* FieldsFit holds in every reachable state: no cast of prvMakeSample,
\* prvProcessSample, sensor_task or processing_task loses anything, whatever
\* the generator draws.
THEOREM CastsAreExact == Spec => []FieldsFit
  <1>1. \A v : Within(v, -128, 1550) => v \in Int16
    <2> DEFINE a == -32768
               b == 32767
    <2>1. a \in Int /\ b \in Int /\ a <= -128 /\ 1550 <= b
      BY SMT
    <2>2. Int16 = a..b
      BY SMT DEF Int16
    <2> HIDE DEF a, b
    <2>3. \A v : v \in Int16 <=> v \in Int /\ a <= v /\ v <= b
      BY <2>1, <2>2, RangeIs
    <2> QED BY <2>1, <2>3, SMT DEF Within
  <1>2. \A v : Within(v, 0, 9999) => v \in UInt16
    BY InUInt16, SMT DEF Within
  <1>3. ASSUME FrameInv PROVE FieldsFit
    <2>1. /\ Within(frame.sample.temp, -128, 1550) /\ Within(frame.sample.x, -128, 1550)
          /\ Within(frame.sample.y, -128, 1550) /\ Within(frame.sample.z, -128, 1550)
      BY <1>3, SMT DEF FrameInv, SampleInv, Within
    <2>2. \A v \in {frame.sample.temp, frame.sample.x, frame.sample.y, frame.sample.z} :
            v \in Int16
      BY <1>1, <2>1, SMT
    <2>3. /\ Within(frame.rpm, 0, 9999) /\ Within(frame.throttle, 0, 9999)
          /\ Within(frame.speed, 0, 9999)
      BY <1>3, SMT DEF FrameInv, Derived, Within
    <2>4. \A v \in {frame.rpm, frame.throttle, frame.speed} : v \in UInt16
      BY <1>2, <2>3, SMT
    <2>5. speed \in 0..2000
      BY <1>3, SMT DEF FrameInv, Within
    <2> QED BY <2>2, <2>4, <2>5 DEF FieldsFit
  <1> QED BY <1>3, FramesBounded, PTL

\* MagnitudeExact holds in every reachable state.
THEOREM MagnitudeIsExact == Spec => []MagnitudeExact
  <1>1. ASSUME FrameInv PROVE MagnitudeExact
    <2>1. mag_sq(frame.sample) \in Nat
      BY <1>1, LmMagnitude DEF FrameInv
    <2>2. IsRoot(mag_sq(frame.sample), isqrt32(mag_sq(frame.sample)))
      BY <2>1, RootIsExact
    <2> QED BY <2>2 DEF IsRoot, MagnitudeExact
  <1> QED BY <1>1, FramesBounded, PTL

\* The sum of the squares fits int32_t, and each sum of isqrt32's loop uint32_t:
\* the integers of the model, which have no width, are those of the code.
SumsFit == LET n == mag_sq(frame.sample)
           IN  n < 2147483648 /\ \A x \in 1..n : x + n \div x < 2147483648

\* SumsFit holds in every reachable state, for the samples that
\* processing_task squares.
THEOREM NoSumOverflows == Spec => []SumsFit
  <1>1. ASSUME FrameInv PROVE SumsFit
    <2> DEFINE n == mag_sq(frame.sample)
    <2>1. n \in Nat /\ n <= 3 * (1000 * 1000)
      BY <1>1, SumOfSquares, SMT DEF FrameInv, Within
    <2> HIDE DEF n
    <2>2. ASSUME NEW x \in 1..n PROVE x + n \div x < 2147483648
      <3>1. PICK q \in Nat : q = n \div x
        BY <2>1, Quotient
      <3>2. x + q <= n + 1
        <4>1. n \in Nat
          BY <2>1
        <4>2. x + n \div x <= n + 1
          BY <4>1, SumOfStep, Zenon
        <4> QED BY <3>1, <4>2
      <3>3. x + q < 2147483648
        BY <2>1, <3>1, <3>2, SMT
      <3> QED BY <3>1, <3>3, SMT
    <2>3. n < 2147483648
      BY <2>1, SMT
    <2> QED BY <2>2, <2>3, SMT DEF SumsFit, n
  <1> QED BY <1>1, FramesBounded, PTL

-----------------------------------------------------------------------------
(***************************************************************************)
(* Digits                                                                  *)
(***************************************************************************)
\* What the loop makes of v, f being what it makes of smaller numbers.
Taken(base, f, v) == IF v < base THEN <<v>> ELSE Append(f[v \div base], v % base)

\* g is the function digits of Digits, on the numbers below m.
Part(base, g, m) == \A v \in Nat : v < m => g[v] = Taken(base, g, v)

LEMMA Smaller ==
    ASSUME NEW base \in Nat, base >= 2, NEW v \in Nat, v >= base
    PROVE  v \div base \in Nat /\ v \div base < v
  <1>1. /\ v \div base \in Nat
        /\ (v \div base) * base <= v
    BY Quotient
  <1>2. CASE v \div base = 0
    BY <1>2
  <1>3. CASE v \div base >= 1
    <2>1. (v \div base) * 2 <= (v \div base) * base
      BY <1>1
    <2> QED BY <1>1, <1>3, <2>1
  <1> QED BY <1>1, <1>2, <1>3

LEMMA PartsExist ==
    ASSUME NEW base \in Nat, base >= 2, NEW m \in Nat
    PROVE  \E g : Part(base, g, m)
  <1> DEFINE Bad == {k \in Nat : ~ \E g : Part(base, g, k)}
  <1>1. SUFFICES ASSUME Bad # {} PROVE FALSE
    OBVIOUS
  <1>2. PICK k \in Bad : \A j \in Bad : k <= j
    BY <1>1, LeastNat
  <1>3. k \in Nat /\ ~ \E g : Part(base, g, k)
    OBVIOUS
  <1>4. k # 0
    BY <1>3 DEF Part
  <1>5. k - 1 \in Nat /\ k - 1 \notin Bad
    BY <1>2, <1>3, <1>4
  <1>6. PICK g : Part(base, g, k - 1)
    BY <1>5
  <1> HIDE DEF Bad
  <1> DEFINE h == [v \in Nat |-> IF v < k - 1 THEN g[v] ELSE Taken(base, g, v)]
  <1>7. ASSUME NEW v \in Nat, v < k
        PROVE  h[v] = Taken(base, h, v)
    <2>1. h[v] = Taken(base, g, v)
      BY <1>6, <1>7 DEF Part
    <2>2. v >= base => h[v \div base] = g[v \div base]
      <3>1. v >= base => v \div base \in Nat /\ v \div base < k - 1
        BY <1>3, <1>7, Smaller
      <3> QED BY <3>1
    <2> HIDE DEF h
    <2> QED BY <2>1, <2>2 DEF Taken
  <1>8. Part(base, h, k)
    BY <1>7 DEF Part
  <1> QED BY <1>3, <1>8

LEMMA PartsAgree ==
    ASSUME NEW base \in Nat, base >= 2, NEW m \in Nat, NEW n \in Nat, NEW g, NEW h,
           Part(base, g, m), Part(base, h, n)
    PROVE  \A v \in Nat : v < m /\ v < n => g[v] = h[v]
  <1> DEFINE Bad == {v \in Nat : v < m /\ v < n /\ g[v] # h[v]}
  <1>1. SUFFICES ASSUME Bad # {} PROVE FALSE
    OBVIOUS
  <1>2. PICK v \in Bad : \A u \in Bad : v <= u
    BY <1>1, LeastNat
  <1>3. v \in Nat /\ v < m /\ v < n /\ g[v] # h[v]
    OBVIOUS
  <1>4. g[v] = Taken(base, g, v) /\ h[v] = Taken(base, h, v)
    BY <1>3 DEF Part
  <1>5. v >= base => g[v \div base] = h[v \div base]
    <2>1. v >= base => v \div base \in Nat /\ v \div base < v
      BY <1>3, Smaller
    <2> QED BY <1>2, <1>3, <2>1
  <1> QED BY <1>3, <1>4, <1>5 DEF Taken

LEMMA DigitsExist ==
    ASSUME NEW base \in Nat, base >= 2
    PROVE  \E f : f = [v \in Nat |-> Taken(base, f, v)]
  <1> DEFINE G(v) == CHOOSE g : Part(base, g, v + 1)
             f == [v \in Nat |-> G(v)[v]]
  <1>1. \A v \in Nat : Part(base, G(v), v + 1)
    BY PartsExist
  <1> HIDE DEF G
  <1>2. ASSUME NEW v \in Nat
        PROVE  f[v] = Taken(base, f, v)
    <2>1. f[v] = Taken(base, G(v), v)
      BY <1>1 DEF Part
    <2>2. ASSUME v >= base PROVE f[v \div base] = G(v)[v \div base]
      <3> DEFINE u == v \div base
      <3>1. u \in Nat /\ u < v
        BY <2>2, Smaller
      <3> HIDE DEF u
      <3>2. f[u] = G(u)[u] /\ Part(base, G(u), u + 1) /\ Part(base, G(v), v + 1)
        BY <1>1, <3>1
      <3>3. G(u)[u] = G(v)[u]
        BY <3>1, <3>2, PartsAgree
      <3> QED BY <3>2, <3>3 DEF u
    <2> HIDE DEF f
    <2> QED BY <2>1, <2>2 DEF Taken
  <1>3. f = [v \in Nat |-> f[v]]
    OBVIOUS
  <1> HIDE DEF f
  <1>4. f = [v \in Nat |-> Taken(base, f, v)]
    BY <1>2, <1>3
  <1> QED BY <1>4

\* The digits of a number are those of its quotient by the base and the
\* remainder: the loops of prvAppendUnsigned and fmt_uint, of every number.
LEMMA DigitsOf ==
    ASSUME NEW base \in Nat, base >= 2, NEW v \in Nat
    PROVE  Digits(v, base) = IF v < base THEN <<v>>
                             ELSE Append(Digits(v \div base, base), v % base)
  <1> DEFINE f == CHOOSE g : g = [u \in Nat |-> Taken(base, g, u)]
  <1>1. f = [u \in Nat |-> Taken(base, f, u)]
    BY DigitsExist
  <1>2. \A u \in Nat : Digits(u, base) = f[u]
    BY DEF Digits, Taken
  <1> HIDE DEF f
  <1>3. f[v] = Taken(base, f, v)
    BY <1>1
  <1>4. v >= base => v \div base \in Nat
    BY Smaller
  <1>5. CASE v < base
    BY <1>2, <1>3, <1>5 DEF Taken
  <1>6. CASE ~(v < base)
    <2>1. Digits(v \div base, base) = f[v \div base]
      BY <1>2, <1>4, <1>6
    <2> QED BY <1>2, <1>3, <1>6, <2>1 DEF Taken
  <1> QED BY <1>5, <1>6

-----------------------------------------------------------------------------
(***************************************************************************)
(* What a reader of the line sees                                          *)
(***************************************************************************)
LEMMA OneDigit ==
    ASSUME NEW v \in Nat, v < 10
    PROVE  Digits(v, 10) = <<v>>
  BY DigitsOf, SMT

LEMMA Pair ==
    ASSUME NEW d \in Seq(Int), Len(d) = 2
    PROVE  d = <<d[1], d[2]>>
  OBVIOUS

LEMMA Triple ==
    ASSUME NEW d \in Seq(Int), Len(d) = 3
    PROVE  d = <<d[1], d[2], d[3]>>
  OBVIOUS

LEMMA Appended ==
    ASSUME NEW q \in Nat, NEW r \in 0..9, NEW v, v = q * 10 + r, v >= 10
    PROVE  Digits(v, 10) = Append(Digits(q, 10), r)
  <1>1. v \in Nat /\ ~(v < 10) /\ v \div 10 = q /\ v % 10 = r
    BY SMT
  <1>2. 10 \in Nat /\ 10 >= 2
    OBVIOUS
  <1>3. Digits(v, 10) = IF v < 10 THEN <<v>> ELSE Append(Digits(v \div 10, 10), v % 10)
    BY <1>1, <1>2, DigitsOf
  <1> QED BY <1>1, <1>3

LEMMA TwoDigits ==
    ASSUME NEW a \in 1..9, NEW b \in 0..9
    PROVE  Digits(a * 10 + b, 10) = <<a, b>>
  <1> DEFINE v == a * 10 + b
             d == Digits(v, 10)
             e == Digits(a, 10)
  <1>1. e = <<a>>
    BY OneDigit
  <1>2. d = Append(e, b)
    <2>1. a \in Nat /\ v >= 10
      BY SMT
    <2> QED BY <2>1, Appended
  <1> HIDE DEF v, d, e
  <1>3. d \in Seq(Int) /\ Len(d) = 2 /\ d[1] = a /\ d[2] = b
    BY <1>1, <1>2
  <1>4. d = <<a, b>>
    BY <1>3, Pair
  <1> QED BY <1>4 DEF d, v

LEMMA ThreeDigits ==
    ASSUME NEW a \in 1..9, NEW b \in 0..9, NEW c \in 0..9
    PROVE  Digits((a * 10 + b) * 10 + c, 10) = <<a, b, c>>
  <1> DEFINE u == a * 10 + b
             v == u * 10 + c
             d == Digits(v, 10)
             e == Digits(u, 10)
  <1>1. e = <<a, b>>
    BY TwoDigits
  <1>2. d = Append(e, c)
    <2>1. u \in Nat /\ v >= 10
      BY SMT
    <2> HIDE DEF u
    <2> QED BY <2>1, Appended
  <1> HIDE DEF u, v, d, e
  <1>3. d \in Seq(Int) /\ Len(d) = 3 /\ d[1] = a /\ d[2] = b /\ d[3] = c
    BY <1>1, <1>2
  <1>4. d = <<a, b, c>>
    BY <1>3, Triple
  <1> QED BY <1>4 DEF d, v, u

\* A text t of at most three digits that says v.
Says(t, v) == /\ t \in Seq(Int) /\ Len(t) \in {1, 2, 3}
              /\ Said(t) = v /\ t[1] # Minus

LEMMA DigitsSay ==
    ASSUME NEW v \in Nat, v < 1000
    PROVE  Says(Digits(v, 10), v)
  <1> DEFINE d == Digits(v, 10)
  <1>1. CASE v < 10
    <2>1. d = <<v>>
      BY <1>1, OneDigit
    <2> HIDE DEF d
    <2>2. d \in Seq(Int) /\ Len(d) = 1 /\ d[1] = v
      BY <2>1
    <2>3. Says(d, v)
      BY <1>1, <2>2, SMT DEF Says, Said, Minus
    <2> QED BY <2>3 DEF d
  <1>2. CASE v >= 10 /\ v < 100
    <2>1. PICK a \in 1..9, b \in 0..9 : v = a * 10 + b
      <3>1. v \div 10 \in 1..9 /\ v % 10 \in 0..9 /\ v = (v \div 10) * 10 + (v % 10)
        BY <1>2, SMT
      <3> QED BY <3>1
    <2>2. d = <<a, b>>
      BY <2>1, TwoDigits
    <2> HIDE DEF d
    <2>3. d \in Seq(Int) /\ Len(d) = 2 /\ d[1] = a /\ d[2] = b
      BY <2>2
    <2>4. Says(d, v)
      BY <2>1, <2>3, SMT DEF Says, Said, Minus
    <2> QED BY <2>4 DEF d
  <1>3. CASE v >= 100
    <2>1. PICK a \in 1..9, b \in 0..9, c \in 0..9 : v = (a * 10 + b) * 10 + c
      <3>1. PICK u \in Int : u = v \div 10
        BY SMT
      <3>2. u \in 10..99 /\ v % 10 \in 0..9 /\ v = u * 10 + (v % 10)
        BY <1>3, <3>1, SMT
      <3>3. u \div 10 \in 1..9 /\ u % 10 \in 0..9 /\ u = (u \div 10) * 10 + (u % 10)
        BY <3>2, SMT
      <3> QED BY <3>2, <3>3
    <2>2. d = <<a, b, c>>
      BY <2>1, ThreeDigits
    <2> HIDE DEF d
    <2>3. d \in Seq(Int) /\ Len(d) = 3 /\ d[1] = a /\ d[2] = b /\ d[3] = c
      BY <2>2
    <2>4. Says(d, v)
      BY <2>1, <2>3, SMT DEF Says, Said, Minus
    <2> QED BY <2>4 DEF d
  <1> QED BY <1>1, <1>2, <1>3

LEMMA NoPadding ==
    ASSUME NEW n \in Int, n <= 0, NEW char, NEW t \in Seq(Int)
    PROVE  Padding(n, char) \o t = t
  <1>1. Padding(n, char) = <<>>
    BY DEF Padding
  <1> QED BY <1>1, ConcatEmptySeq

LEMMA UnsignedIs ==
    ASSUME NEW v \in Nat, Digits(v, 10) \in Seq(Int)
    PROVE  Unsigned(v) = Digits(v, 10)
  <1> DEFINE d == Digits(v, 10)
  <1>1. d \in Seq(Int) /\ 0 - Len(d) \in Int /\ 0 - Len(d) <= 0
    OBVIOUS
  <1>2. Padding(0 - Len(d), Blank) \o d = d
    BY <1>1, NoPadding
  <1> QED BY <1>2, Zenon DEF Unsigned, prvAppendUnsigned, fmt_uint, Pad

LEMMA SignedIs ==
    ASSUME NEW v \in Int, NEW w, w = (IF v < 0 THEN -v ELSE v), Digits(w, 10) \in Seq(Int)
    PROVE  Signed(v, 0) = IF v < 0 THEN <<Minus>> \o Digits(w, 10) ELSE Digits(w, 10)
  <1> DEFINE d == Digits(w, 10)
  <1>1. 0 - Len(d) \in Int /\ 0 - Len(d) <= 0 /\ ~(0 > 0)
    OBVIOUS
  <1>2. Padding(0 - Len(d), Blank) \o d = d
    BY <1>1, NoPadding
  <1>3. CASE v < 0
    <2>1. w = -v
      BY <1>3
    <2> QED BY <1>1, <1>2, <1>3, <2>1, Zenon
            DEF Signed, prvAppendSigned, fmt_int, prvAppendUnsigned, fmt_uint, Pad
  <1>4. CASE ~(v < 0)
    <2>1. w = v
      BY <1>4
    <2> QED BY <1>1, <1>2, <1>4, <2>1, Zenon
            DEF Signed, prvAppendSigned, fmt_int, prvAppendUnsigned, fmt_uint, Pad
  <1> QED BY <1>3, <1>4

LEMMA PlainIs ==
    ASSUME NEW v \in Int, -1000 < v, v < 1000
    PROVE  Signed(v, 0) = IF v < 0 THEN <<Minus>> \o Digits(-v, 10) ELSE Digits(v, 10)
  <1>1. PICK w \in Nat : w = (IF v < 0 THEN -v ELSE v) /\ w < 1000
    BY SMT
  <1>2. Digits(w, 10) \in Seq(Int)
    BY <1>1, DigitsSay, SMT DEF Says
  <1> QED BY <1>1, <1>2, SignedIs, SMT

\* %02d, below 100.
LEMMA PaddedIs ==
    ASSUME NEW a \in 0..9, NEW b \in 0..9
    PROVE  Signed(a * 10 + b, 2) = <<a, b>>
  <1> DEFINE v == a * 10 + b
             d == Digits(v, 10)
             p == Padding(2 - Len(d), 0)
  <1>0. v \in Nat /\ ~(v < 0) /\ 2 > 0
    BY SMT
  <1>1. Signed(v, 2) = p \o d
    <2> HIDE DEF v
    <2> QED BY <1>0, Zenon
            DEF Signed, prvAppendSigned, fmt_int, prvAppendUnsigned, fmt_uint, Pad
  <1>2. CASE a = 0
    <2>1. d = <<b>>
      BY <1>2, OneDigit
    <2>2. p = <<0>>
      <3> HIDE DEF d
      <3>1. 2 - Len(d) = 1
        BY <2>1
      <3> QED BY <3>1 DEF Padding
    <2> DEFINE s == p \o d
    <2> HIDE DEF p, d
    <2>3. s \in Seq(Int) /\ Len(s) = 2 /\ s[1] = a /\ s[2] = b
      BY <1>2, <2>1, <2>2
    <2> HIDE DEF s
    <2>4. s = <<a, b>>
      BY <2>3, Pair
    <2> QED BY <1>1, <2>4 DEF s, v
  <1>3. CASE a # 0
    <2>1. d = <<a, b>>
      BY <1>3, TwoDigits
    <2> HIDE DEF d
    <2>2. d \in Seq(Int) /\ 2 - Len(d) \in Int /\ 2 - Len(d) <= 0
      BY <2>1
    <2>3. p \o d = d
      BY <2>2, NoPadding
    <2> HIDE DEF p
    <2> QED BY <1>1, <2>1, <2>3 DEF v
  <1> QED BY <1>2, <1>3
-----------------------------------------------------------------------------
\* One digit after the point, and two of them, after a whole part without sign.
LEMMA ReadsTenths ==
    ASSUME NEW w \in Nat, NEW t, Says(t, w), NEW r \in 0..9, NEW u, u = <<r>>
    PROVE  Reads(<<t, u>>, w * 10 + r, 10)
  <1>1. t \in Seq(Int) /\ Head(t) # Minus /\ Said(t) = w
    BY DEF Says
  <1>2. Len(u) = 1 /\ u[1] = r
    OBVIOUS
  <1>3. Said(u) = r
    BY <1>2 DEF Said
  <1> DEFINE p == <<t, u>>
  <1>4. p[1] = t /\ p[2] = u
    OBVIOUS
  <1> HIDE DEF p
  <1>5. Reads(p, w * 10 + r, 10)
    BY <1>1, <1>2, <1>3, <1>4, SMT DEF Reads
  <1> QED BY <1>5 DEF p

LEMMA ReadsHundredths ==
    ASSUME NEW w \in Nat, NEW t, Says(t, w), NEW a \in 0..9, NEW b \in 0..9,
           NEW u, u = <<a, b>>, NEW p, p = <<t, u>>, NEW v, v = w * 100 + (a * 10 + b)
    PROVE  Reads(p, v, 100)
  <1>1. t \in Seq(Int) /\ Head(t) # Minus /\ Said(t) = w
    BY DEF Says
  <1>2. Len(u) = 2 /\ u[1] = a /\ u[2] = b
    OBVIOUS
  <1>3. Said(u) = a * 10 + b
    BY <1>2 DEF Said
  <1>4. p[1] = t /\ p[2] = u
    OBVIOUS
  <1> QED BY <1>1, <1>2, <1>3, <1>4, SMT DEF Reads

LEMMA HundredthsRead ==
    ASSUME NEW w \in Nat, Says(Digits(w, 10), w), NEW a \in 0..9, NEW b \in 0..9
    PROVE  Reads(<<Digits(w, 10), <<a, b>>>>, w * 100 + (a * 10 + b), 100)
  <1> DEFINE d == Digits(w, 10)
             u == <<a, b>>
             p == <<d, u>>
             v == w * 100 + (a * 10 + b)
  <1>1. Says(d, w)
    OBVIOUS
  <1>2. u = <<a, b>> /\ p = <<d, u>> /\ v = w * 100 + (a * 10 + b)
    OBVIOUS
  <1> HIDE DEF d, u, p, v
  <1>3. Reads(p, v, 100)
    BY <1>1, <1>2, ReadsHundredths
  <1> QED BY <1>3 DEF d, u, p, v

\* Below -1.00, the only whole part that a sample has is -1.
LEMMA MinusOne ==
    ASSUME NEW t, t = <<Minus>> \o Digits(1, 10)
    PROVE  t \in Seq(Int) /\ Head(t) = Minus /\ Said(Tail(t)) = 1
  <1> DEFINE d == Digits(1, 10)
             m == <<Minus>>
  <1>1. Minus \in Int
    BY DEF Minus
  <1>2. d \in Seq(Int) /\ Len(d) = 1 /\ d[1] = 1
    <2>1. d = <<1>>
      BY OneDigit
    <2> HIDE DEF d
    <2> QED BY <2>1
  <1>3. m \in Seq(Int) /\ Len(m) = 1 /\ m[1] = Minus
    BY <1>1
  <1>4. t = m \o d
    OBVIOUS
  <1> HIDE DEF d, m
  <1>5. t \in Seq(Int) /\ Len(t) = 2 /\ t[1] = Minus /\ t[2] = 1
    <2>1. m \in Seq(Int) /\ d \in Seq(Int)
      BY <1>2, <1>3
    <2>2. /\ m \o d \in Seq(Int) /\ Len(m \o d) = Len(m) + Len(d)
          /\ \A i \in 1..Len(m) + Len(d) :
                (m \o d)[i] = IF i <= Len(m) THEN m[i] ELSE d[i - Len(m)]
      BY <2>1, ConcatProperties, Zenon
    <2>3. Len(t) = 2 /\ t[1] = m[1] /\ t[2] = d[1]
      BY <1>2, <1>3, <1>4, <2>2
    <2> QED BY <1>2, <1>3, <1>4, <2>2, <2>3, Zenon
  <1>6. Len(Tail(t)) = 1 /\ Tail(t)[1] = 1
    BY <1>5
  <1>7. Said(Tail(t)) = 1
    BY <1>6 DEF Said
  <1> QED BY <1>5, <1>7

LEMMA ReadsBelow ==
    ASSUME NEW a \in 0..9, NEW b \in 0..9,
           NEW t \in Seq(Int), Head(t) = Minus, Said(Tail(t)) = 1, NEW u, u = <<a, b>>
    PROVE  Reads(<<t, u>>, -(100 + (a * 10 + b)), 100)
  <1>1. Len(u) = 2 /\ u[1] = a /\ u[2] = b
    OBVIOUS
  <1>2. PICK n \in Int : n = a * 10 + b /\ Said(u) = n
    BY <1>1 DEF Said
  <1> DEFINE p == <<t, u>>
  <1>3. p[1] = t /\ p[2] = u
    OBVIOUS
  <1> HIDE DEF p
  <1>4. /\ \A i \in 1..Len(p[2]) : p[2][i] \in 0..9
        /\ Len(p[2]) = IF 100 = 10 THEN 1 ELSE 2
    BY <1>1, <1>3
  <1>5. Said(Tail(p[1])) * 100 + Said(p[2]) = 100 + n
    BY <1>2, <1>3
  <1>6. Head(p[1]) = Minus
    BY <1>3
  <1>7. Reads(p, -(100 + n), 100)
    BY <1>4, <1>5, <1>6, Zenon DEF Reads
  <1> QED BY <1>2, <1>7 DEF p

LEMMA TempReads ==
    ASSUME NEW v, Within(v, 0, 1550)
    PROVE  Correct(Temp(v), v, 10)
  <1>1. PICK w \in 0..155, r \in 0..9 : v = w * 10 + r
    <2>1. v \div 10 \in 0..155 /\ v % 10 \in 0..9 /\ v = (v \div 10) * 10 + (v % 10)
      BY SMT DEF Within
    <2> QED BY <2>1
  <1>2. Whole(v, 10) = w /\ Rest(v, 10) = r /\ ~ SignIsLost(v, 10)
    BY <1>1, SMT DEF Whole, Rest, Quot, Rem, Abs, SignIsLost
  <1>3. w \in Nat /\ w < 1000 /\ -1000 < w /\ ~(w < 0) /\ r \in Nat /\ -1000 < r /\ ~(r < 0)
    BY SMT
  <1>4. Signed(w, 0) = Digits(w, 10) /\ Signed(r, 0) = <<r>>
    BY <1>3, PlainIs, OneDigit, SMT
  <1>5. Reads(<<Digits(w, 10), <<r>>>>, v, 10)
    BY <1>1, <1>3, DigitsSay, ReadsTenths
  <1>6. Temp(v) = <<Digits(w, 10), <<r>>>>
    BY <1>2, <1>4 DEF Temp
  <1> QED BY <1>2, <1>5, <1>6 DEF Correct

LEMMA TenthsReads ==
    ASSUME NEW v, Within(v, 0, 2500)
    PROVE  Reads(Tenths(v), v, 10)
  <1>1. PICK w \in 0..250, r \in 0..9 : v = w * 10 + r
    <2>1. v \div 10 \in 0..250 /\ v % 10 \in 0..9 /\ v = (v \div 10) * 10 + (v % 10)
      BY SMT DEF Within
    <2> QED BY <2>1
  <1>2. Whole(v, 10) = w /\ Rest(v, 10) = r
    BY <1>1, SMT DEF Whole, Rest, Quot, Rem, Abs
  <1>3. w \in Nat /\ w < 1000 /\ r \in Nat /\ r < 1000
    BY SMT
  <1>4. Unsigned(w) = Digits(w, 10) /\ Unsigned(r) = <<r>>
    <2>1. Digits(w, 10) \in Seq(Int) /\ Digits(r, 10) \in Seq(Int)
      BY <1>3, DigitsSay, SMT DEF Says
    <2>2. Digits(r, 10) = <<r>>
      BY OneDigit
    <2> QED BY <1>3, <2>1, <2>2, UnsignedIs
  <1>5. Reads(<<Digits(w, 10), <<r>>>>, v, 10)
    BY <1>1, <1>3, DigitsSay, ReadsTenths
  <1>6. Tenths(v) = <<Digits(w, 10), <<r>>>>
    BY <1>2, <1>4 DEF Tenths
  <1> QED BY <1>5, <1>6

LEMMA AccelReads ==
    ASSUME NEW v, Within(v, -128, 1000)
    PROVE  Correct(Accel(v), v, 100)
  <1>1. PICK w \in 0..10, a \in 0..9, b \in 0..9 :
          Abs(v) = w * 100 + (a * 10 + b) /\ (v < 0 => w \in {0, 1})
    <2>1. PICK m \in Int : m = Abs(v) /\ 0 <= m /\ m <= 1000 /\ (v < 0 => m <= 128)
      BY SMT DEF Within, Abs
    <2>2. PICK k \in Int : k = m % 100
      BY <2>1, SMT
    <2>3. PICK w \in Int : w = m \div 100
      BY <2>1, SMT
    <2>4. w \in 0..10 /\ m = w * 100 + k /\ k \in 0..99 /\ (v < 0 => w \in {0, 1})
      BY <2>1, <2>2, <2>3, SMT
    <2>5. PICK a \in 0..9, b \in 0..9 : k = a * 10 + b
      <3>1. k \div 10 \in 0..9 /\ k % 10 \in 0..9 /\ k = (k \div 10) * 10 + (k % 10)
        BY <2>4, SMT
      <3> QED BY <3>1
    <2>6. Abs(v) = w * 100 + (a * 10 + b)
      BY <2>1, <2>4, <2>5
    <2> QED BY <2>4, <2>6
  <1> DEFINE r == a * 10 + b
  <1>2. Rest(v, 100) = r
    BY <1>1, SMT DEF Rest, Rem, Abs, Within
  <1>3. Signed(r, 2) = <<a, b>>
    BY PaddedIs
  <1>4. w \in Nat /\ w < 1000 /\ -1000 < w /\ ~(w < 0)
    BY SMT
  <1>5. Reads(<<Digits(w, 10), <<a, b>>>>, w * 100 + r, 100)
    <2>1. w \in Nat /\ Says(Digits(w, 10), w)
      BY <1>4, DigitsSay
    <2> QED BY <2>1, HundredthsRead, Zenon
  <1>6. Signed(w, 0) = Digits(w, 10)
    BY <1>4, PlainIs
  <1>7. CASE v >= 0
    <2>1. Whole(v, 100) = w /\ ~ SignIsLost(v, 100) /\ v = w * 100 + r
      BY <1>1, <1>7, SMT DEF Whole, Quot, Abs, SignIsLost, Within
    <2> HIDE DEF r
    <2> QED BY <1>2, <1>3, <1>5, <1>6, <2>1, Zenon DEF Correct, Accel
  <1>8. CASE v < 0 /\ w = 0
    <2>1. Whole(v, 100) = w /\ SignIsLost(v, 100) /\ -v = w * 100 + r
      BY <1>1, <1>8, SMT DEF Whole, Quot, Abs, SignIsLost, Within
    <2> HIDE DEF r
    <2> QED BY <1>2, <1>3, <1>5, <1>6, <2>1, Zenon DEF Correct, Accel
  <1>9. CASE v < 0 /\ w = 1
    <2>1. PICK n \in Int : n + 1 = 0
      <3>1. (0 - 1) \in Int /\ (0 - 1) + 1 = 0
        OBVIOUS
      <3> QED BY <3>1
    <2>2. Whole(v, 100) = n /\ ~ SignIsLost(v, 100) /\ v = -(100 + r)
      BY <1>1, <1>9, <2>1, SMT DEF Whole, Quot, Abs, SignIsLost, Within
    <2>3. n \in Int /\ -1000 < n /\ n < 1000 /\ n < 0 /\ -n = 1
      BY <2>1, SMT
    <2> DEFINE t == <<Minus>> \o Digits(1, 10)
    <2>4. Signed(n, 0) = t
      BY <2>3, PlainIs, SMT
    <2>5. t \in Seq(Int) /\ Head(t) = Minus /\ Said(Tail(t)) = 1
      BY MinusOne
    <2> HIDE DEF t
    <2>6. Reads(<<t, <<a, b>>>>, -(100 + r), 100)
      BY <2>5, ReadsBelow
    <2> HIDE DEF r
    <2> QED BY <1>2, <1>3, <2>2, <2>4, <2>6, Zenon DEF Correct, Accel
  <1> QED BY <1>1, <1>7, <1>8, <1>9 DEF Within

\* ReadsBack holds in every reachable state: what prvPrintFrame and
\* telemetry_task print on the two sides of a point is the value of the frame,
\* but for the sign of an acceleration between -1.00 and 0.
THEOREM LinesReadBack == Spec => []ReadsBack
  <1>1. ASSUME FrameInv PROVE ReadsBack
    <2>1. /\ Within(frame.sample.temp, 0, 1550) /\ Within(frame.sample.x, -128, 1000)
          /\ Within(frame.sample.y, -128, 1000) /\ Within(frame.sample.z, -128, 1000)
          /\ Within(frame.speed, 0, 2500) /\ Within(frame.throttle, 0, 2500)
      BY <1>1, SMT DEF FrameInv, SampleInv, Derived, Within
    <2>2. Correct(Temp(frame.sample.temp), frame.sample.temp, 10)
      BY <2>1, TempReads
    <2>3. \A v \in {frame.sample.x, frame.sample.y, frame.sample.z} : Correct(Accel(v), v, 100)
      BY <2>1, AccelReads
    <2>4. \A v \in {frame.speed, frame.throttle} : Reads(Tenths(v), v, 10)
      BY <2>1, TenthsReads
    <2> QED BY <2>2, <2>3, <2>4 DEF ReadsBack
  <1> QED BY <1>1, FramesBounded, PTL
-----------------------------------------------------------------------------
(***************************************************************************)
(* How long the line is                                                    *)
(***************************************************************************)
Sized(t, n) == t \in Seq(Int) /\ Len(t) <= n

\* Every number below n has at most k digits.
Below(n, k) == \A v \in Nat : v < n => Sized(Digits(v, 10), k)

LEMMA Longer ==
    ASSUME NEW n \in Nat, NEW k \in Nat, n >= 10, Below(n, k),
           NEW m, m = n * 10, NEW j, j = k + 1
    PROVE  Below(m, j)
  <1> SUFFICES ASSUME NEW v \in Nat, v < m PROVE Sized(Digits(v, 10), j)
    BY DEF Below
  <1>1. CASE v < 10
    BY <1>1 DEF Below, Sized
  <1>2. CASE v >= 10
    <2>1. PICK q \in Nat, r \in 0..9 : v = q * 10 + r
      <3>1. v \div 10 \in Nat /\ v % 10 \in 0..9 /\ v = (v \div 10) * 10 + (v % 10)
        BY SMT
      <3> QED BY <3>1
    <2>2. q < n
      BY <2>1, SMT
    <2> DEFINE d == Digits(v, 10)
               e == Digits(q, 10)
    <2>3. d = Append(e, r)
      BY <1>2, <2>1, Appended
    <2>4. e \in Seq(Int) /\ Len(e) <= k
      BY <2>1, <2>2 DEF Below, Sized
    <2> HIDE DEF d, e
    <2>5. d \in Seq(Int) /\ Len(d) <= j
      BY <2>1, <2>3, <2>4
    <2> QED BY <2>5 DEF Sized, d
  <1> QED BY <1>1, <1>2

LEMMA DigitsSized ==
    /\ Below(1000, 3) /\ Below(10000, 4)
    /\ \A v \in Nat : v <= 2147483647 => Sized(Digits(v, 10), 10)
  <1>1. Below(10, 1)
    <2> SUFFICES ASSUME NEW v \in Nat, v < 10 PROVE Sized(Digits(v, 10), 1)
      BY DEF Below
    <2> DEFINE d == Digits(v, 10)
    <2>1. d = <<v>>
      BY OneDigit
    <2> HIDE DEF d
    <2>2. Sized(d, 1)
      BY <2>1 DEF Sized
    <2> QED BY <2>2 DEF d
  <1>2. Below(100, 2)
    BY <1>1, Longer, SMT
  <1>3. Below(1000, 3)
    BY <1>2, Longer, SMT
  <1>4. Below(10000, 4)
    BY <1>3, Longer, SMT
  <1>5. Below(100000, 5)
    BY <1>4, Longer, SMT
  <1>6. Below(1000000, 6)
    BY <1>5, Longer, SMT
  <1>7. Below(10000000, 7)
    BY <1>6, Longer, SMT
  <1>8. Below(100000000, 8)
    BY <1>7, Longer, SMT
  <1>9. Below(1000000000, 9)
    BY <1>8, Longer, SMT
  <1>10. Below(10000000000, 10)
    BY <1>9, Longer, SMT
  <1>11. \A v \in Nat : v <= 2147483647 => Sized(Digits(v, 10), 10)
    BY <1>10, SMT DEF Below
  <1> QED BY <1>3, <1>4, <1>11, SMT

LEMMA Joined ==
    ASSUME NEW m \in Nat, NEW n \in Nat, NEW s, NEW t, Sized(s, m), Sized(t, n),
           NEW k \in Int, m + n <= k
    PROVE  Sized(s \o t, k)
  <1>1. s \in Seq(Int) /\ t \in Seq(Int)
    BY DEF Sized
  <1>2. s \o t \in Seq(Int) /\ Len(s \o t) = Len(s) + Len(t)
    BY <1>1, ConcatProperties, Zenon
  <1>3. Len(s) \in Nat /\ Len(t) \in Nat /\ Len(s) <= m /\ Len(t) <= n
    BY <1>1 DEF Sized
  <1>4. Len(s \o t) <= k
    BY <1>2, <1>3
  <1> QED BY <1>2, <1>4 DEF Sized

LEMMA TextSized ==
    ASSUME NEW n \in Nat
    PROVE  Sized(Text(n), n)
  BY DEF Text, Letter, Sized

LEMMA UnsignedSized ==
    ASSUME NEW v \in Nat, NEW k \in Int, Sized(Digits(v, 10), k)
    PROVE  Sized(Unsigned(v), k)
  BY UnsignedIs, Zenon DEF Sized

LEMMA SignedSized ==
    ASSUME NEW v \in Int, -1000 < v, v < 1000
    PROVE  Sized(Signed(v, 0), 4)
  <1> DEFINE w == IF v < 0 THEN -v ELSE v
             d == Digits(w, 10)
  <1>1. Sized(d, 3)
    <2>1. w \in Nat /\ w < 1000
      BY SMT
    <2> HIDE DEF w
    <2> QED BY <2>1, DigitsSized, SMT DEF Below
  <1>2. CASE v < 0
    <2>1. Signed(v, 0) = <<Minus>> \o d
      BY <1>2, PlainIs, SMT
    <2>2. Sized(<<Minus>>, 1)
      BY DEF Sized, Minus
    <2> HIDE DEF d
    <2>3. Sized(<<Minus>> \o d, 4)
      BY <1>1, <2>2, Joined
    <2> QED BY <2>1, <2>3
  <1>3. CASE ~(v < 0)
    <2>1. Signed(v, 0) = d
      BY <1>3, PlainIs, SMT
    <2> HIDE DEF d
    <2>2. Sized(d, 4)
      BY <1>1 DEF Sized
    <2> QED BY <2>1, <2>2
  <1> QED BY <1>2, <1>3

LEMMA PaddedSized ==
    ASSUME NEW v \in 0..99
    PROVE  Sized(Signed(v, 2), 2)
  <1>1. PICK a \in 0..9, b \in 0..9 : v = a * 10 + b
    <2>1. v \div 10 \in 0..9 /\ v % 10 \in 0..9 /\ v = (v \div 10) * 10 + (v % 10)
      BY SMT
    <2> QED BY <2>1
  <1> DEFINE s == Signed(v, 2)
  <1>2. s = <<a, b>>
    BY <1>1, PaddedIs
  <1> HIDE DEF s
  <1>3. Sized(s, 2)
    BY <1>2 DEF Sized
  <1> QED BY <1>3 DEF s

LEMMA TempSized ==
    ASSUME NEW v, Within(v, 0, 1550)
    PROVE  Sized(Both(Temp(v)), 8)
  <1> DEFINE s == Signed(Whole(v, 10), 0)
             t == Signed(Rest(v, 10), 0)
  <1>1. Sized(s, 4)
    <2>1. Whole(v, 10) \in Int /\ -1000 < Whole(v, 10) /\ Whole(v, 10) < 1000
      BY SMT DEF Whole, Quot, Within
    <2> QED BY <2>1, SignedSized
  <1>2. Sized(t, 4)
    <2>1. Rest(v, 10) \in Int /\ -1000 < Rest(v, 10) /\ Rest(v, 10) < 1000
      BY SMT DEF Rest, Rem, Abs, Within
    <2> QED BY <2>1, SignedSized
  <1>3. Both(Temp(v)) = s \o t
    BY DEF Both, Temp
  <1> HIDE DEF s, t
  <1>4. Sized(s \o t, 8)
    BY <1>1, <1>2, Joined
  <1> QED BY <1>3, <1>4

LEMMA AccelSized ==
    ASSUME NEW v, Within(v, -128, 1000)
    PROVE  Sized(Both(Accel(v)), 6)
  <1> DEFINE s == Signed(Whole(v, 100), 0)
             t == Signed(Rest(v, 100), 2)
  <1>1. Sized(s, 4)
    <2>1. Whole(v, 100) \in Int /\ -1000 < Whole(v, 100) /\ Whole(v, 100) < 1000
      BY SMT DEF Whole, Quot, Within
    <2> QED BY <2>1, SignedSized
  <1>2. Sized(t, 2)
    <2>1. Rest(v, 100) \in 0..99
      BY SMT DEF Rest, Rem, Abs, Within
    <2> QED BY <2>1, PaddedSized
  <1>3. Both(Accel(v)) = s \o t
    BY DEF Both, Accel
  <1> HIDE DEF s, t
  <1>4. Sized(s \o t, 6)
    BY <1>1, <1>2, Joined
  <1> QED BY <1>3, <1>4

LEMMA TenthsSized ==
    ASSUME NEW v, Within(v, 0, 2500)
    PROVE  Sized(Both(Tenths(v)), 6)
  <1> DEFINE s == Unsigned(Whole(v, 10))
             t == Unsigned(Rest(v, 10))
  <1>1. Sized(s, 3)
    <2>1. Whole(v, 10) \in Nat /\ Whole(v, 10) < 1000
      BY SMT DEF Whole, Quot, Within
    <2>2. Sized(Digits(Whole(v, 10), 10), 3)
      BY <2>1, DigitsSized, SMT DEF Below
    <2> QED BY <2>1, <2>2, UnsignedSized
  <1>2. Sized(t, 3)
    <2>1. Rest(v, 10) \in Nat /\ Rest(v, 10) < 1000
      BY SMT DEF Rest, Rem, Abs, Within
    <2>2. Sized(Digits(Rest(v, 10), 10), 3)
      BY <2>1, DigitsSized, SMT DEF Below
    <2> QED BY <2>1, <2>2, UnsignedSized
  <1>3. Both(Tenths(v)) = s \o t
    BY DEF Both, Tenths
  <1> HIDE DEF s, t
  <1>4. Sized(s \o t, 6)
    BY <1>1, <1>2, Joined
  <1> QED BY <1>3, <1>4

LEMMA HexSized ==
    ASSUME NEW v \in {0, 1}
    PROVE  Sized(Hex(v), 2)
  <1> DEFINE d == Digits(v, 16)
             p == Padding(2 - Len(d), 0)
  <1>1. Hex(v) = p \o d
    BY Zenon DEF Hex, fmt_uint, Pad
  <1>2. d = <<v>>
    BY DigitsOf, SMT
  <1> HIDE DEF d
  <1>3. Sized(d, 1) /\ Len(d) = 1
    BY <1>2 DEF Sized
  <1>4. Sized(p, 1)
    BY <1>3 DEF Padding, Sized
  <1> HIDE DEF p
  <1>5. Sized(p \o d, 2)
    BY <1>3, <1>4, Joined
  <1> QED BY <1>1, <1>5

\* LineFits holds in every reachable state: the buffers of prvPrintFrame and
\* telemetry_task take the longest line their formats give.
THEOREM NoLineIsCut == Spec => []LineFits
  <1>1. ASSUME FrameInv PROVE LineFits
    <2> DEFINE f1 == Counter
               f2 == Both(Temp(frame.sample.temp))
               f3 == Both(Accel(frame.sample.x))
               f4 == Both(Accel(frame.sample.y))
               f5 == Both(Accel(frame.sample.z))
               f6 == Both(Tenths(frame.speed))
               f7 == Unsigned(frame.rpm)
               f8 == Both(Tenths(frame.throttle))
    <2>1. /\ Within(frame.sample.temp, 0, 1550) /\ Within(frame.sample.x, -128, 1000)
          /\ Within(frame.sample.y, -128, 1000) /\ Within(frame.sample.z, -128, 1000)
          /\ Within(frame.speed, 0, 2500) /\ Within(frame.throttle, 0, 2500)
          /\ frame.rpm \in Nat /\ frame.rpm < 10000 /\ frame.fault_code \in {0, 1}
      BY <1>1, SMT DEF FrameInv, SampleInv, Derived, Within
    <2>2. Sized(f1, 10)
      <3> DEFINE v == 2147483647
      <3>1. v \in Nat /\ Sized(Digits(v, 10), 10)
        BY DigitsSized, SMT
      <3>2. Counter = Unsigned(v)
        BY SMT DEF Counter
      <3> HIDE DEF v
      <3> QED BY <3>1, <3>2, UnsignedSized
    <2>3. Sized(f7, 4)
      <3>1. Sized(Digits(frame.rpm, 10), 4)
        BY <2>1, DigitsSized, SMT DEF Below
      <3> QED BY <2>1, <3>1, UnsignedSized
    <2>4. /\ Sized(f2, 8) /\ Sized(f3, 6) /\ Sized(f4, 6) /\ Sized(f5, 6)
          /\ Sized(f6, 6) /\ Sized(f8, 6)
      BY <2>1, TempSized, AccelSized, TenthsSized
    <2>5. Fields = f1 \o f2 \o f3 \o f4 \o f5 \o f6 \o f7 \o f8
      BY DEF Fields
    <2> HIDE DEF f1, f2, f3, f4, f5, f6, f7, f8
    <2>6. Sized(f1 \o f2 \o f3 \o f4 \o f5 \o f6 \o f7 \o f8, 60)
      <3>1. Sized(f1 \o f2, 18)
        BY <2>2, <2>4, Joined
      <3>2. Sized(f1 \o f2 \o f3, 24)
        BY <2>4, <3>1, Joined
      <3>3. Sized(f1 \o f2 \o f3 \o f4, 30)
        BY <2>4, <3>2, Joined
      <3>4. Sized(f1 \o f2 \o f3 \o f4 \o f5, 36)
        BY <2>4, <3>3, Joined
      <3>5. Sized(f1 \o f2 \o f3 \o f4 \o f5 \o f6, 42)
        BY <2>4, <3>4, Joined
      <3>6. Sized(f1 \o f2 \o f3 \o f4 \o f5 \o f6 \o f7, 46)
        BY <2>3, <3>5, Joined
      <3> QED BY <2>4, <3>6, Joined
    <2>7. Sized(Fields, 60)
      BY <2>5, <2>6
    <2>8. Sized(prvPrintFrame, 199)
      <3> DEFINE b == YesNo(frame.sample.valid)
      <3>1. Sized(b, 3)
        <4>1. b = Text(3) \/ b = Text(2)
          BY DEF YesNo
        <4>2. Sized(Text(3), 3) /\ Sized(Text(2), 3)
          <5>1. Sized(Text(3), 3) /\ Sized(Text(2), 2)
            BY TextSized
          <5> QED BY <5>1 DEF Sized
        <4> QED BY <4>1, <4>2
      <3>2. Sized(Text(75), 75)
        BY TextSized
      <3>3. Sized(Text(75) \o Fields, 135)
        BY <2>7, <3>2, Joined
      <3> HIDE DEF b
      <3>4. Sized(Text(75) \o Fields \o b, 138)
        BY <3>1, <3>3, Joined
      <3>5. Sized(Text(75) \o Fields \o b \o Counter, 199)
        BY <2>2, <3>4, Joined DEF f1
      <3> QED BY <3>5 DEF prvPrintFrame, b
    <2>9. Sized(telemetry_task, 199)
      <3> DEFINE b == Signed(IF frame.sample.valid THEN 1 ELSE 0, 0)
                 h == Hex(frame.fault_code)
      <3>1. Sized(b, 4)
        <4>1. b = Signed(1, 0) \/ b = Signed(0, 0)
          OBVIOUS
        <4> QED BY <4>1, SignedSized
      <3>2. Sized(h, 2)
        BY <2>1, HexSized
      <3>3. Sized(Text(74), 74)
        BY TextSized
      <3>4. Sized(Text(74) \o Fields, 134)
        BY <2>7, <3>3, Joined
      <3> HIDE DEF b, h
      <3>5. Sized(Text(74) \o Fields \o h, 136)
        BY <3>2, <3>4, Joined
      <3>6. Sized(Text(74) \o Fields \o h \o b, 199)
        BY <3>1, <3>5, Joined
      <3> QED BY <3>6 DEF telemetry_task, b, h
    <2>10. Sized(Line, 199)
      BY <2>8, <2>9 DEF Line
    <2>11. Line \in Seq(Int) /\ Len(Line) < LineSize
      BY <2>10 DEF Sized, LineSize
    <2>12. Buffered(Line, LineSize) = SubSeq(Line, 1, Len(Line))
      BY <2>11, Zenon DEF Buffered
    <2>13. SubSeq(Line, 1, Len(Line)) = Line
      BY <2>11
    <2> QED BY <2>12, <2>13 DEF LineFits
  <1> QED BY <1>1, FramesBounded, PTL
=============================================================================
