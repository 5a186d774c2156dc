--------------------------- MODULE PatternWindow ---------------------------
(***************************************************************************)
(* What the pattern buffer (PatternBuffer.cc) offers to its users, without *)
(* its ring arithmetic: the patterns stored so far are numbered in arrival *)
(* order, the buffer holds a window of them, and every pattern carries a   *)
(* reference count.  0 stands for the null pattern pointer.                *)
(*                                                                         *)
(* An operator whose name ends in _Fault is the operator after it, with a  *)
(* plausible bug; no specification uses it.                                *)
(*                                                                         *)
(* The operators below are the bodies of the critical sections executed    *)
(* with the pattern buffer's mutex held, so each is one atomic step of     *)
(* whoever calls it.                                                       *)
(***************************************************************************)
EXTENDS Integers, Sequences

CONSTANTS
  Edefs,     \* the event definitions in use
  ShiftMask, \* ShiftMask[e]: the bits of the C expression 1<<e, see below
  Capacity,  \* slots of the ring, 2^ldBufSz
  MinFill    \* patterns that always stay in the buffer

NUM_EDEF_MAX == 64

(***************************************************************************)
(* patternGetNext tests an edef's bit with (1<<edef), an int.  ShiftMask   *)
(* gives the bits that expression has once widened to 64 bits: {e} for     *)
(* e < 31; for e >= 31 the shift is undefined and the usual build yields   *)
(* the bit e-32, or all bits from 31 up.                                   *)
(***************************************************************************)
ASSUME WindowAssumption ==
  /\ Edefs \subseteq 0 .. NUM_EDEF_MAX - 1
  /\ ShiftMask \in [Edefs -> SUBSET Edefs]
  /\ Capacity \in Nat
  /\ MinFill \in Nat
  /\ MinFill < Capacity

VARIABLES
  pats,  \* every pattern stored so far: [ts, init, act]
  head,  \* how many of them have been popped
  refc   \* reference count of each of them

windowVars == <<pats, head, refc>>

Window == head + 1 .. Len(pats)
Front  == head + 1

Involved_Fault(n) == pats[n].act

\* The edefs a pattern is indexed under: initialised or active on its pulse.
Involved(n) == pats[n].init \cup pats[n].act

Earliest(S) == IF S = {} THEN 0 ELSE CHOOSE n \in S : \A m \in S : n <= m

-----------------------------------------------------------------------------

patternGetOldest(e) == Earliest({n \in Window : e \in Involved(n)})

patternGetNext(n, e) ==
  IF ShiftMask[e] \cap Involved(n) = {}
    THEN 0
    ELSE Earliest({m \in Window : m > n /\ e \in Involved(m)})

\* The pattern with exactly this time stamp.  Pattern time stamps increase,
\* so the binary search finds it when it is there; otherwise it ends in one
\* of the three exceptions, whose handlers only bump a counter.
patternGet(ts) == Earliest({n \in Window : pats[n].ts = ts})

incRef(r, n) == IF n = 0 THEN r ELSE [r EXCEPT ![n] = @ + 1]
decRef_Fault(r, n) == r
decRef(r, n) == IF n = 0 THEN r ELSE [r EXCEPT ![n] = @ - 1]

checkMinFilled == Len(pats) - head > MinFill
full           == Len(pats) - head = Capacity

\* RingBufferSync::push_back of a new pattern that is not full.
push_back(p) ==
  /\ ~full
  /\ pats' = Append(pats, p)
  /\ refc' = Append(refc, 0)
  /\ UNCHANGED head

frontUnused_Fault == TRUE

\* finalizePop waits, with the mutex released, until the front is unused.
frontUnused == refc[Front] = 0

pop ==
  /\ frontUnused
  /\ head' = head + 1
  /\ UNCHANGED <<pats, refc>>
=============================================================================
