----------------------------- MODULE RingBuffer -----------------------------
(***************************************************************************)
(* The ring buffer "WITHOUT range checking" (RingBuffer.h).  Head and tail *)
(* are unsigned counters that are never reduced to the buffer's size: they *)
(* wrap around at the width of the type, and only an access masks them.    *)
(* The operators are plain assignments of the caller, who holds the lock.  *)
(*                                                                         *)
(* An operator whose name ends in _Fault is the operator after it, with a  *)
(* plausible bug; no specification uses it.                                *)
(***************************************************************************)
EXTENDS Integers

CONSTANTS
  Capacity, \* m_ + 1, a power of two
  IdxMod    \* values of the type of h_ and t_: 2^32 in the code

(***************************************************************************)
(* MAX_LD_SZ keeps the capacity far below the width of the counters; that  *)
(* the width is a multiple of the capacity follows from both being powers  *)
(* of two.                                                                 *)
(***************************************************************************)
ASSUME RingAssumption ==
  /\ Capacity \in Nat \ {0}
  /\ IdxMod \in Nat
  /\ IdxMod > Capacity
  /\ IdxMod % Capacity = 0

VARIABLES
  buf, \* the elements, indexed by masked counters; 0 is the initial element
  h,   \* h_
  t    \* t_

ringVars == <<buf, h, t>>

RingInit == buf = [i \in 0 .. Capacity - 1 |-> 0] /\ h = 0 /\ t = 0

Inc_Fault(i) == i + 1

\* Unsigned arithmetic.
Inc(i) == IF i = IdxMod - 1 THEN 0 ELSE i + 1
size   == IF t >= h THEN t - h ELSE t - h + IdxMod

full_Fault == size > Capacity
full == size = Capacity

front == buf[h % Capacity]

\* push_back and pop.
Store(val) ==
  /\ buf' = [buf EXCEPT ![t % Capacity] = val]
  /\ t' = Inc(t)
  /\ UNCHANGED h

Drop ==
  /\ h' = Inc(h)
  /\ UNCHANGED <<buf, t>>
=============================================================================
