---------------------------- MODULE BsaTimeStamp ----------------------------
(***************************************************************************)
(* Time stamps (BsaTimeStamp.h) and the clock's times (BsaPosixClock.cc).  *)
(*                                                                         *)
(* A time stamp is one word: seconds in the upper half, nanoseconds in the *)
(* lower.  BsaValues_proofs has theorems that say for all time stamps what *)
(* the rest of the models takes for granted, and where the arithmetic of   *)
(* the code is not what its names suggest.                                 *)
(***************************************************************************)
EXTENDS Integers

SEC  == 1000 * 1000 * 1000    \* nanoseconds of a second
ONE  == 256 * 256 * 256 * 256 \* 1 << SHF
WORD == ONE * ONE             \* 1 << 64

Stamps == 0 .. WORD - 1

Nsec(t) == t % ONE
Sec(t)  == t \div ONE

\* A time stamp with a proper number of nanoseconds.
Normal(t) == Nsec(t) < SEC

\* From and to nanoseconds.
FromNs(n) == (n % SEC) + ONE * (n \div SEC)
ToNs(t) == Nsec(t) + SEC * Sec(t)

\* A second's worth of nanoseconds is carried over.
Carry(s) == IF Nsec(s) >= SEC THEN (s + (ONE - SEC)) % WORD ELSE s

\* operator+ of two time stamps, and with a number of nanoseconds.
Plus(a, b) == Carry((a + b) % WORD)
PlusNs(a, n) == Carry((a + FromNs(n)) % WORD)

nsDiff(a, b) ==
  LET d == (a - b) % WORD IN IF Nsec(d) >= SEC THEN (d + SEC - ONE) % WORD ELSE d

\* The limit beyond which an old item is taken for a switch of the clock.
CLOCK_REBASE_LIMIT == 120 * SEC
Rebased(last, item) == nsDiff(last, item) > CLOCK_REBASE_LIMIT

-----------------------------------------------------------------------------
(* BsaPosixTime: [sec, nsec] *)

NSEC == 1000 * 1000 * 1000

\* operator+, operator+=: the carry comes past NSEC, not at it.
PosixSum(a, b) ==
  IF a.nsec + b.nsec > NSEC
    THEN [sec |-> a.sec + b.sec + 1, nsec |-> a.nsec + b.nsec - NSEC]
    ELSE [sec |-> a.sec + b.sec, nsec |-> a.nsec + b.nsec]

Nanoseconds(t) == t.sec * NSEC + t.nsec
=============================================================================
