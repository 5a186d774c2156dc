-------------------------- MODULE BsaValues_proofs --------------------------
(***************************************************************************)
(* Proofs about the pure arithmetic: time stamps and clock times           *)
(* (BsaTimeStamp) and alarms (BsaEpicsAlarms), for all values.             *)
(***************************************************************************)
EXTENDS BsaTimeStamp, BsaEpicsAlarms, TLAPS

-----------------------------------------------------------------------------
(* Time stamps. *)

LEMMA Radix == SEC \in Nat /\ ONE \in Nat /\ 0 < SEC /\ 2 * SEC <= ONE
  BY SMT DEF SEC, ONE

LEMMA Parts ==
  ASSUME NEW t \in Nat
  PROVE  /\ Sec(t) \in Nat
         /\ Nsec(t) \in 0 .. ONE - 1
         /\ t = ONE * Sec(t) + Nsec(t)
<1>1. ONE \in Nat /\ 0 < ONE
  BY Radix, SMT
<1>2. t % ONE \in 0 .. ONE - 1
  BY <1>1, SMT
<1>3. t \div ONE \in Nat
  BY <1>1, SMT
<1>4. t = ONE * (t \div ONE) + (t % ONE)
  BY <1>1, SMT
<1> QED
  BY <1>2, <1>3, <1>4 DEF Sec, Nsec

LEMMA PartsOfSum ==
  ASSUME NEW s \in Nat, NEW n \in 0 .. ONE - 1
  PROVE  Sec(ONE * s + n) = s /\ Nsec(ONE * s + n) = n
<1>1. ONE \in Nat /\ 0 < ONE
  BY Radix, SMT
<1>2. (ONE * s + n) \div ONE = s /\ (ONE * s + n) % ONE = n
  BY <1>1, SMT
<1> QED
  BY <1>2 DEF Sec, Nsec

(* The order of the words is the order of the times: the comparisons of    *)
(* checkMinFilled and processInput compare times.                          *)
THEOREM OrderExact ==
  ASSUME NEW a \in Stamps, NEW b \in Stamps, Normal(a), Normal(b)
  PROVE  (a <= b) <=> (ToNs(a) <= ToNs(b))
<1>1. a \in Nat /\ b \in Nat
  BY SMT DEF Stamps
<1>2. /\ Sec(a) \in Nat /\ Nsec(a) \in 0 .. ONE - 1 /\ a = ONE * Sec(a) + Nsec(a)
      /\ Sec(b) \in Nat /\ Nsec(b) \in 0 .. ONE - 1 /\ b = ONE * Sec(b) + Nsec(b)
  BY <1>1, Parts
<1>3. Nsec(a) < SEC /\ Nsec(b) < SEC
  BY DEF Normal
<1>4. CASE Sec(a) = Sec(b)
  BY <1>2, <1>4, Radix, SMT DEF ToNs
<1>5. CASE Sec(a) < Sec(b)
  <2>1. ONE * Sec(a) + ONE <= ONE * Sec(b) /\ SEC * Sec(a) + SEC <= SEC * Sec(b)
    BY <1>2, <1>5, Radix, SMT
  <2> QED
    BY <1>2, <1>3, <2>1, Radix, SMT DEF ToNs
<1>6. CASE Sec(b) < Sec(a)
  <2>1. ONE * Sec(b) + ONE <= ONE * Sec(a) /\ SEC * Sec(b) + SEC <= SEC * Sec(a)
    BY <1>2, <1>6, Radix, SMT
  <2> QED
    BY <1>2, <1>3, <2>1, Radix, SMT DEF ToNs
<1> QED
  BY <1>2, <1>4, <1>5, <1>6, SMT

LEMMA NoWrap ==
  ASSUME NEW x \in Nat, x < WORD
  PROVE  x % WORD = x
<1>1. WORD \in Nat
  BY Radix, SMT DEF WORD
<1>2. ASSUME NEW w \in Nat, x < w PROVE x % w = x
  <2>1. (w * 0 + x) % w = x
    BY <1>2, SMT
  <2>2. w * 0 + x = x
    BY SMT
  <2> QED
    BY <2>1, <2>2
<1> QED
  BY <1>1, <1>2

\* A normal time stamp in parts, with what there is to know of them.
LEMMA NormalParts ==
  ASSUME NEW a \in Stamps, Normal(a)
  PROVE  /\ a \in Nat /\ a < WORD
         /\ Sec(a) \in Nat
         /\ Nsec(a) \in Nat /\ Nsec(a) < SEC
         /\ a = ONE * Sec(a) + Nsec(a)
         /\ ToNs(a) = SEC * Sec(a) + Nsec(a)
<1>1. WORD \in Nat
  BY Radix, SMT DEF WORD
<1>2. a \in Nat /\ a < WORD
  BY <1>1, SMT DEF Stamps
<1>3. Sec(a) \in Nat /\ Nsec(a) \in 0 .. ONE - 1 /\ a = ONE * Sec(a) + Nsec(a)
  BY <1>2, Parts
<1> QED
  BY <1>2, <1>3, Radix, SMT DEF Normal, ToNs

\* What a word made of seconds and nanoseconds stands for.
LEMMA MadeOfParts ==
  ASSUME NEW s \in Nat, NEW n \in Nat, n < SEC
  PROVE  Normal(ONE * s + n) /\ ToNs(ONE * s + n) = SEC * s + n
<1>1. Sec(ONE * s + n) = s /\ Nsec(ONE * s + n) = n
  <2>1. n \in 0 .. ONE - 1
    BY Radix, SMT
  <2> QED
    BY <2>1, PartsOfSum
<1> QED
  BY <1>1, Radix, SMT DEF Normal, ToNs

(* A number of nanoseconds survives the way through a time stamp.          *)
THEOREM RoundTrip ==
  ASSUME NEW n \in Nat
  PROVE  Normal(FromNs(n)) /\ ToNs(FromNs(n)) = n
<1> DEFINE s == n \div SEC
           r == n % SEC
<1>1. s \in Nat /\ r \in 0 .. SEC - 1 /\ n = SEC * s + r
  <2>1. SEC \in Nat /\ 0 < SEC
    BY Radix, SMT
  <2>2. n % SEC \in 0 .. SEC - 1
    BY <2>1, SMT
  <2>3. n \div SEC \in Nat
    BY <2>1, SMT
  <2>4. n = SEC * (n \div SEC) + (n % SEC)
    BY <2>1, SMT
  <2> QED
    BY <2>2, <2>3, <2>4
<1>2. FromNs(n) = ONE * s + r
  BY <1>1, Radix, SMT DEF FromNs
<1> HIDE DEF s, r
<1>3. r \in Nat /\ r < SEC
  BY <1>1, Radix, SMT
<1> QED
  BY <1>1, <1>2, <1>3, MadeOfParts

(* operator+ adds times, as long as the seconds fit.                       *)
THEOREM PlusExact ==
  ASSUME NEW a \in Stamps, NEW b \in Stamps, Normal(a), Normal(b), a + b + ONE < WORD
  PROVE  Normal(Plus(a, b)) /\ ToNs(Plus(a, b)) = ToNs(a) + ToNs(b)
<1> DEFINE s == Sec(a) + Sec(b)
           n == Nsec(a) + Nsec(b)
<1>1. s \in Nat /\ n \in Nat /\ n < 2 * SEC /\ n \in 0 .. ONE - 1 /\ a + b \in Nat
  BY NormalParts, Radix, SMT
<1>2. a + b = ONE * s + n /\ ToNs(a) + ToNs(b) = SEC * s + n
  BY NormalParts, Radix, SMT
<1>3. (a + b) % WORD = ONE * s + n
  <2>1. a + b < WORD
    BY <1>1, Radix, SMT DEF WORD
  <2> QED
    BY <1>1, <1>2, <2>1, NoWrap
<1>4. Nsec(ONE * s + n) = n
  BY <1>1, PartsOfSum
<1> HIDE DEF s, n
<1>5. CASE n < SEC
  <2>1. Plus(a, b) = ONE * s + n
    BY <1>1, <1>3, <1>4, <1>5, Radix, SMT DEF Plus, Carry
  <2> QED
    BY <1>1, <1>2, <1>5, <2>1, MadeOfParts
<1>6. CASE n >= SEC
  <2>1. n - SEC \in Nat /\ n - SEC < SEC /\ s + 1 \in Nat
    BY <1>1, <1>6, Radix, SMT
  <2>2. ONE * s + n + (ONE - SEC) = ONE * (s + 1) + (n - SEC)
    BY <1>1, Radix, SMT
  <2>3. (ONE * s + n + (ONE - SEC)) % WORD = ONE * (s + 1) + (n - SEC)
    <3>1. ONE * s + n + (ONE - SEC) \in Nat /\ ONE * s + n + (ONE - SEC) < WORD
      BY <1>1, <1>2, Radix, SMT DEF WORD
    <3> QED
      BY <2>2, <3>1, NoWrap
  <2>4. Plus(a, b) = ONE * (s + 1) + (n - SEC)
    BY <1>1, <1>3, <1>4, <1>6, <2>3 DEF Plus, Carry
  <2>5. SEC * (s + 1) + (n - SEC) = SEC * s + n
    BY <1>1, Radix, SMT
  <2> QED
    BY <1>2, <2>1, <2>4, <2>5, MadeOfParts
<1> QED
  BY <1>1, <1>5, <1>6, Radix, SMT

(* The same for a number of nanoseconds.                                   *)
COROLLARY PlusNsExact ==
  ASSUME NEW a \in Stamps, NEW n \in Nat, Normal(a), FromNs(n) \in Stamps,
         a + FromNs(n) + ONE < WORD
  PROVE  Normal(PlusNs(a, n)) /\ ToNs(PlusNs(a, n)) = ToNs(a) + n
<1>1. PlusNs(a, n) = Plus(a, FromNs(n))
  BY DEF PlusNs, Plus
<1> QED
  BY <1>1, RoundTrip, PlusExact

(* nsDiff subtracts times, but its result is a time stamp as well and no   *)
(* number of nanoseconds.                                                  *)
THEOREM NsDiffPacked ==
  ASSUME NEW a \in Stamps, NEW b \in Stamps, Normal(a), Normal(b), b <= a
  PROVE  /\ nsDiff(a, b) \in Stamps /\ Normal(nsDiff(a, b))
         /\ ToNs(nsDiff(a, b)) = ToNs(a) - ToNs(b)
<1> DEFINE s == Sec(a) - Sec(b)
           n == Nsec(a) - Nsec(b)
<1>1. /\ s \in Int /\ n \in Int /\ 0 - SEC < n /\ n < SEC
      /\ a - b \in Nat /\ a - b < WORD /\ WORD \in Nat
      /\ a - b = ONE * s + n /\ ToNs(a) - ToNs(b) = SEC * s + n
  <2>1. /\ a \in Nat /\ a < WORD /\ Sec(a) \in Nat /\ Nsec(a) \in Nat /\ Nsec(a) < SEC
        /\ a = ONE * Sec(a) + Nsec(a) /\ ToNs(a) = SEC * Sec(a) + Nsec(a)
    BY NormalParts
  <2>2. /\ b \in Nat /\ Sec(b) \in Nat /\ Nsec(b) \in Nat /\ Nsec(b) < SEC
        /\ b = ONE * Sec(b) + Nsec(b) /\ ToNs(b) = SEC * Sec(b) + Nsec(b)
    BY NormalParts
  <2>3. WORD \in Nat
    BY Radix, SMT DEF WORD
  <2>4. a - b = ONE * s + n /\ ToNs(a) - ToNs(b) = SEC * s + n
    BY <2>1, <2>2, Radix, SMT
  <2> QED
    BY <2>1, <2>2, <2>3, <2>4, Radix, SMT
<1>2. (a - b) % WORD = a - b
  BY <1>1, NoWrap
<1> HIDE DEF s, n
<1>3. CASE n >= 0
  <2>1. s \in Nat
    <3>1. ASSUME s <= 0 - 1 PROVE FALSE
      <4>1. ONE * s <= 0 - ONE
        BY <1>1, <3>1, Radix, SMT
      <4> QED
        BY <1>1, <4>1, Radix, SMT
    <3> QED
      BY <1>1, <3>1, SMT
  <2>2. n \in Nat /\ n \in 0 .. ONE - 1
    BY <1>1, <1>3, Radix, SMT
  <2>3. Nsec(a - b) = n
    BY <1>1, <2>1, <2>2, PartsOfSum
  <2>4. nsDiff(a, b) = a - b
    BY <1>1, <1>2, <2>3, Radix, SMT DEF nsDiff
  <2>5. a - b \in Stamps
    BY <1>1, SMT DEF Stamps
  <2> QED
    BY <1>1, <2>1, <2>2, <2>4, <2>5, MadeOfParts
<1>4. CASE n < 0
  <2>1. s - 1 \in Nat
    <3>1. ASSUME s <= 0 PROVE FALSE
      <4>1. ONE * s <= 0
        BY <1>1, <3>1, Radix, SMT
      <4> QED
        BY <1>1, <1>4, <4>1, Radix, SMT
    <3> QED
      BY <1>1, <3>1, SMT
  <2>2. ONE + n \in 0 .. ONE - 1 /\ ONE + n >= SEC /\ SEC + n \in Nat /\ SEC + n < SEC
    BY <1>1, <1>4, Radix, SMT
  <2>3. a - b = ONE * (s - 1) + (ONE + n)
    BY <1>1, Radix, SMT
  <2>4. Nsec(a - b) = ONE + n
    BY <2>1, <2>2, <2>3, PartsOfSum
  <2>5. a - b + SEC - ONE = ONE * (s - 1) + (SEC + n)
    BY <1>1, Radix, SMT
  <2>6. a - b + SEC - ONE \in Nat /\ a - b + SEC - ONE < WORD
    <3>1. ONE * (s - 1) \in Nat
      BY <2>1, Radix, SMT
    <3> QED
      BY <1>1, <2>2, <2>5, <3>1, Radix, SMT DEF WORD
  <2>7. nsDiff(a, b) = ONE * (s - 1) + (SEC + n)
    BY <1>2, <2>2, <2>4, <2>5, <2>6, NoWrap DEF nsDiff
  <2>8. ONE * (s - 1) + (SEC + n) \in Stamps
    BY <2>5, <2>6, Radix, SMT DEF Stamps, WORD
  <2>9. SEC * (s - 1) + (SEC + n) = SEC * s + n
    BY <1>1, Radix, SMT
  <2> QED
    BY <1>1, <2>1, <2>2, <2>7, <2>8, <2>9, MadeOfParts
<1> QED
  BY <1>1, <1>3, <1>4, SMT

(* So the two minutes of CLOCK_REBASE_LIMIT are 28 seconds.                *)
THEOREM LimitIs28Seconds ==
  ASSUME NEW last \in Stamps, NEW item \in Stamps, Normal(last), Normal(item), item <= last
  PROVE  Rebased(last, item) <=> (ToNs(last) - ToNs(item) >= 28 * SEC)
<1> DEFINE d == nsDiff(last, item)
<1>1. d \in Stamps /\ Normal(d) /\ ToNs(d) = ToNs(last) - ToNs(item)
  BY NsDiffPacked
<1>2. 27 * ONE + SEC <= 120 * SEC /\ 120 * SEC < 28 * ONE
  BY SMT DEF SEC, ONE
<1>3. /\ Sec(d) \in Nat /\ Nsec(d) \in Nat /\ Nsec(d) < SEC
      /\ d = ONE * Sec(d) + Nsec(d) /\ ToNs(d) = SEC * Sec(d) + Nsec(d)
  BY <1>1, NormalParts
<1> HIDE DEF d
<1>4. CASE Sec(d) <= 27
  <2>1. ONE * Sec(d) <= 27 * ONE /\ SEC * Sec(d) <= 27 * SEC
    BY <1>3, <1>4, Radix, SMT
  <2>2. ~(d > 120 * SEC) /\ ~(ToNs(d) >= 28 * SEC)
    BY <1>2, <1>3, <2>1, Radix, SMT
  <2> QED
    BY <1>1, <2>2 DEF Rebased, CLOCK_REBASE_LIMIT, d
<1>5. CASE Sec(d) >= 28
  <2>1. ONE * Sec(d) >= 28 * ONE /\ SEC * Sec(d) >= 28 * SEC
    BY <1>3, <1>5, Radix, SMT
  <2>2. d > 120 * SEC /\ ToNs(d) >= 28 * SEC
    BY <1>2, <1>3, <2>1, Radix, SMT
  <2> QED
    BY <1>1, <2>2 DEF Rebased, CLOCK_REBASE_LIMIT, d
<1> QED
  BY <1>3, <1>4, <1>5, SMT

LEMMA Second == NSEC \in Nat /\ NSEC > 0
  BY SMT DEF NSEC

(* The sum of two clock times is exact, but not proper when the            *)
(* nanoseconds add up to one second: pthread_cond_timedwait rejects it.    *)
THEOREM PosixSumExact ==
  ASSUME NEW a \in [sec : Nat, nsec : 0 .. NSEC - 1], NEW b \in [sec : Nat, nsec : 0 .. NSEC - 1]
  PROVE  /\ Nanoseconds(PosixSum(a, b)) = Nanoseconds(a) + Nanoseconds(b)
         /\ (PosixSum(a, b).nsec \in 0 .. NSEC - 1) <=> (a.nsec + b.nsec # NSEC)
<1>1. a.sec \in Nat /\ b.sec \in Nat /\ a.nsec \in 0 .. NSEC - 1 /\ b.nsec \in 0 .. NSEC - 1
  OBVIOUS
<1>2. CASE a.nsec + b.nsec > NSEC
  <2>1. /\ PosixSum(a, b).sec = a.sec + b.sec + 1
        /\ PosixSum(a, b).nsec = a.nsec + b.nsec - NSEC
    BY <1>2 DEF PosixSum
  <2>2. (a.sec + b.sec + 1) * NSEC = a.sec * NSEC + b.sec * NSEC + NSEC
    BY <1>1, Second, SMT
  <2>3. a.sec * NSEC \in Nat /\ b.sec * NSEC \in Nat
    BY <1>1, Second, SMT
  <2> QED
    BY <1>1, <1>2, <2>1, <2>2, <2>3, Second, SMT DEF Nanoseconds
<1>3. CASE ~(a.nsec + b.nsec > NSEC)
  <2>1. PosixSum(a, b).sec = a.sec + b.sec /\ PosixSum(a, b).nsec = a.nsec + b.nsec
    BY <1>3 DEF PosixSum
  <2>2. (a.sec + b.sec) * NSEC = a.sec * NSEC + b.sec * NSEC
    BY <1>1, Second, SMT
  <2>3. a.sec * NSEC \in Nat /\ b.sec * NSEC \in Nat
    BY <1>1, Second, SMT
  <2> QED
    BY <1>1, <1>3, <2>1, <2>2, <2>3, Second, SMT DEF Nanoseconds
<1> QED
  BY <1>2, <1>3

-----------------------------------------------------------------------------
(* Alarms. *)

(* What the source already said is never played down, and the status only  *)
(* changes together with a severity that rises to that of the first alarm. *)
THEOREM SeverityNeverLowered ==
  ASSUME NEW l \in Limits, NEW val \in Int, NEW stat, NEW sevr \in Nat
  PROVE  LET r == CheckAlarms(val, l, stat, sevr) IN
         /\ r.sevr >= sevr
         /\ r.stat # stat => Alarm(val, l) /\ r.sevr = First(val, l).sevr /\ r.sevr > sevr
         /\ Alarm(val, l) => r.sevr >= First(val, l).sevr
<1> DEFINE f == First(val, l)
           r == CheckAlarms(val, l, stat, sevr)
<1>1. f.sevr \in Nat
  BY DEF First, Limits, Hihi, Lolo, High
<1> HIDE DEF f
<1>2. CASE ~Alarm(val, l)
  <2>1. r.sevr = sevr /\ r.stat = stat
    BY <1>2 DEF CheckAlarms
  <2> QED
    BY <1>2, <2>1, SMT
<1>3. CASE Alarm(val, l) /\ f.sevr > sevr
  <2>1. r.sevr = f.sevr
    BY <1>3 DEF CheckAlarms, f
  <2> QED
    BY <1>1, <1>3, <2>1, SMT DEF f
<1>4. CASE Alarm(val, l) /\ ~(f.sevr > sevr)
  <2>1. r.sevr = sevr /\ r.stat = stat
    BY <1>4 DEF CheckAlarms, f
  <2> QED
    BY <1>1, <1>4, <2>1, SMT DEF f
<1> QED
  BY <1>2, <1>3, <1>4

(* An alarm does not chatter: once one of the upper (lower) alarms has been *)
(* raised, there is an alarm until a value comes that is below (above) its  *)
(* level by more than the hysteresis.                                       *)
THEOREM NoChatter ==
  ASSUME NEW l \in Limits, NEW val \in Int, NEW next \in Int, NEW stat, NEW sevr \in Nat,
         Alarm(val, l), First(val, l).sevr > sevr,
         NEW l2, l2 = [l EXCEPT !.lalm = CheckAlarms(val, l, stat, sevr).lalm]
  PROVE  /\ First(val, l).stat \in {"HIHI", "HIGH"} /\ next >= First(val, l).lev - l.hyst
              => Alarm(next, l2)
         /\ First(val, l).stat \in {"LOLO", "LOW"} /\ next <= First(val, l).lev + l.hyst
              => Alarm(next, l2)
<1> DEFINE f == First(val, l)
<1>1. CheckAlarms(val, l, stat, sevr).lalm = f.lev
  BY DEF CheckAlarms
<1>2. l2 = [l EXCEPT !.lalm = f.lev]
  BY <1>1
<1>3. /\ l2.lalm = f.lev /\ l2.hyst = l.hyst
      /\ l2.hihi = l.hihi /\ l2.lolo = l.lolo /\ l2.high = l.high /\ l2.low = l.low
      /\ l2.hhsv = l.hhsv /\ l2.llsv = l.llsv /\ l2.hsv = l.hsv /\ l2.lsv = l.lsv
  BY <1>2 DEF Limits
<1>4. CASE Hihi(val, l)
  <2>1. f.lev = l.hihi /\ f.stat = "HIHI" /\ l.hhsv # 0
    BY <1>4 DEF First, Hihi
  <2> QED
    BY <1>3, <2>1 DEF Alarm, Hihi, Above
<1>5. CASE ~Hihi(val, l) /\ Lolo(val, l)
  <2>1. f.lev = l.lolo /\ f.stat = "LOLO" /\ l.llsv # 0
    BY <1>5 DEF First, Lolo
  <2> QED
    BY <1>3, <2>1 DEF Alarm, Lolo, Below
<1>6. CASE ~Hihi(val, l) /\ ~Lolo(val, l) /\ High(val, l)
  <2>1. f.lev = l.high /\ f.stat = "HIGH" /\ l.hsv # 0
    BY <1>6 DEF First, High
  <2> QED
    BY <1>3, <2>1 DEF Alarm, High, Above
<1>7. CASE ~Hihi(val, l) /\ ~Lolo(val, l) /\ ~High(val, l)
  <2>1. Low(val, l)
    BY <1>7 DEF Alarm
  <2>2. f.lev = l.low /\ f.stat = "LOW" /\ l.lsv # 0
    BY <1>7, <2>1 DEF First, Low
  <2> QED
    BY <1>3, <2>2 DEF Alarm, Low, Below
<1> QED
  BY <1>4, <1>5, <1>6, <1>7
=============================================================================
