--------------------------- MODULE PatternBuffer ---------------------------
(***************************************************************************)
(* The pattern buffer (PatternBuffer.cc): a ring of patterns and, for each *)
(* edef, a second ring of the same size with the positions of the patterns *)
(* that involve the edef.  Positions are counters of the first ring cut to *)
(* 16 bits; each pattern remembers, cut to 16 bits too, where its positions *)
(* are in the index rings.                                                 *)
(*                                                                         *)
(* Every operation holds the buffer's mutex, so each is one action.  A     *)
(* pattern pointer is the index of a ring element; its holders are         *)
(* represented by the element's reference count.                           *)
(*                                                                         *)
(* An operator whose name ends in _Fault is the operator after it, with a  *)
(* plausible bug; no specification uses it.                                *)
(***************************************************************************)
EXTENDS RingBuffer, Sequences, FiniteSets

CONSTANTS
  Edefs,     \* the event definitions in use
  ShiftMask, \* ShiftMask[e]: the bits of 1<<e, see PatternWindow
  MinFill,   \* patterns that always stay in the buffer
  PatMod,    \* values of the type PatternIdx: 2^16 in the code
  Shapes,    \* the [init, act] masks the timing system may send
  MaxTs,     \* bound: the last time stamp
  MaxRefs    \* bound: references held at a time

(***************************************************************************)
(* MAX_LD_SZ is 16: the width of PatternIdx is a multiple of the capacity. *)
(***************************************************************************)
ASSUME PatternBufferAssumption ==
  /\ PatMod \in Nat \ {0}
  /\ PatMod % Capacity = 0
  /\ IdxMod % PatMod = 0
  /\ MinFill \in Nat
  /\ MinFill < Capacity
  /\ ShiftMask \in [Edefs -> SUBSET Edefs]
  /\ Shapes \subseteq [init : SUBSET Edefs, act : SUBSET Edefs]
  /\ MaxTs \in Nat
  /\ MaxRefs \in Nat

VARIABLES
  ref,          \* ref[i]: refCount_ of a ring element
  index,        \* index[e]: the edef's index ring: [buf, h, t]
  activeEdefSet,
  lastTs        \* time stamp of the latest pattern sent

vars == <<ringVars, ref, index, activeEdefSet, lastTs>>

Elements == 0 .. Capacity - 1
\* The null pointer, and the exceptions of patternGet.
Null     == -1
TooNew   == -2
Expired  == -3
NotFound == -4

anyMask(p) == p.init \cup p.act

Init ==
  /\ buf = [i \in Elements |->
              [ts |-> 0, init |-> {}, act |-> {}, seqIdx |-> [e \in Edefs |-> 0]]]
  /\ h = 0 /\ t = 0
  /\ ref = [i \in Elements |-> 0]
  /\ index = [e \in Edefs |-> [buf |-> [i \in Elements |-> 0], h |-> 0, t |-> 0]]
  /\ activeEdefSet = {}
  /\ lastTs = 0

-----------------------------------------------------------------------------
(* Lookups. *)

\* operator[] of the ring, whose argument counts from the head.
At(k) == (h + k) % Capacity

\* The element at a position taken from an index ring: the difference to the
\* head is unsigned.
AtPosition(x) == At((x - h) % IdxMod)

IndexSize(e) == (index[e].t - index[e].h) % IdxMod
IndexAt(e, k) == index[e].buf[(index[e].h + k) % Capacity]

patternGetOldest(e) ==
  IF IndexSize(e) < 1 THEN Null ELSE AtPosition(IndexAt(e, 0))

IndexOffset_Fault(i, e) == (buf[i].seqIdx[e] - index[e].h) % IdxMod

\* Where an element is in an index ring, from the head.
IndexOffset(i, e) == (buf[i].seqIdx[e] - index[e].h) % Capacity

patternGetNext(i, e) ==
  LET k == IndexOffset(i, e) + 1 IN
  IF ShiftMask[e] \cap anyMask(buf[i]) = {} \/ k >= IndexSize(e)
    THEN Null
    ELSE AtPosition(IndexAt(e, k))

Midpoint(iold, inew) == (inew + iold) \div 2

\* Why a search that has left nothing between its bounds fails.
NotThere(iold, inew) ==
  IF iold = size THEN TooNew ELSE IF inew < 0 THEN Expired ELSE NotFound

\* Binary search between two offsets from the head, iold = r[1] and inew = r[2].
patternGet(ts) ==
  LET search[r \in (0 .. size) \X (-1 .. size - 1)] ==
        IF r[1] > r[2]
          THEN NotThere(r[1], r[2])
        ELSE IF ts < buf[At(Midpoint(r[1], r[2]))].ts
          THEN search[<<r[1], Midpoint(r[1], r[2]) - 1>>]
        ELSE IF ts > buf[At(Midpoint(r[1], r[2]))].ts
          THEN search[<<Midpoint(r[1], r[2]) + 1, r[2]>>]
        ELSE At(Midpoint(r[1], r[2]))
  IN search[<<0, size - 1>>]

-----------------------------------------------------------------------------
(* Operations. *)

\* finalizePush: enter the new pattern, at position pos, into the index rings.
finalizePush(p, pos) ==
  /\ activeEdefSet' = activeEdefSet \cup anyMask(p)
  /\ index' = [e \in Edefs |->
       IF e \in anyMask(p)
         THEN [index[e] EXCEPT !.buf[index[e].t % Capacity] = pos % PatMod,
                               !.t = Inc(@)]
         ELSE index[e]]

\* A pattern that involves no edef is not stored, nor is one that finds the
\* buffer full (an exception): only the time goes on.
PushBack(shape) ==
  LET new == [ts |-> lastTs + 1, init |-> shape.init, act |-> shape.act,
              seqIdx |-> [e \in Edefs |->
                IF e \in anyMask(shape) THEN index[e].t % PatMod
                                        ELSE buf[t % Capacity].seqIdx[e]]]
  IN
  /\ lastTs' = lastTs + 1
  /\ UNCHANGED ref
  /\ \/ /\ anyMask(shape) = {} \/ full
        /\ UNCHANGED <<ringVars, index, activeEdefSet>>
     \/ /\ anyMask(shape) # {}
        /\ ~full
        /\ Store(new)
        /\ finalizePush(new, t)

frontUnused_Fault == TRUE
frontUnused == ref[h % Capacity] = 0

finalizePop_Fault(p) ==
  /\ index' = [e \in Edefs |->
       IF e \in p.act THEN [index[e] EXCEPT !.h = Inc(@)] ELSE index[e]]
  /\ activeEdefSet' = {e \in activeEdefSet :
       e \in p.act => IndexSize(e) > 1}

\* finalizePop, after its wait: take the front pattern out of the index rings.
finalizePop(p) ==
  /\ index' = [e \in Edefs |->
       IF e \in anyMask(p) THEN [index[e] EXCEPT !.h = Inc(@)] ELSE index[e]]
  /\ activeEdefSet' = {e \in activeEdefSet :
       e \in anyMask(p) => IndexSize(e) > 1}

Pop ==
  /\ size > MinFill
  /\ frontUnused
  /\ finalizePop(front)
  /\ Drop
  /\ UNCHANGED <<ref, lastTs>>

References == {r \in Elements \X (1 .. MaxRefs) : r[2] <= ref[r[1]]}

\* A lookup hands out a reference.
incRef(i) ==
  /\ i \in Elements
  /\ Cardinality(References) < MaxRefs
  /\ ref' = [ref EXCEPT ![i] = @ + 1]
  /\ UNCHANGED <<ringVars, index, activeEdefSet, lastTs>>

\* The patterns a user may pass in: those it holds a reference of.
Held == {i \in Elements : ref[i] > 0}

Lookup ==
  \/ \E ts \in 0 .. MaxTs + 1 : incRef(patternGet(ts))
  \/ \E e \in Edefs : incRef(patternGetOldest(e))
  \/ \E i \in Held, e \in Edefs : incRef(patternGetNext(i, e))
  \/ \E i \in Held : incRef(i)

patternPut(i) ==
  /\ ref' = [ref EXCEPT ![i] = @ - 1]
  /\ UNCHANGED <<ringVars, index, activeEdefSet, lastTs>>

Next ==
  \/ lastTs < MaxTs /\ \E shape \in Shapes : PushBack(shape)
  \/ Pop
  \/ Lookup
  \/ \E i \in Held : patternPut(i)

Spec == Init /\ [][Next]_vars

-----------------------------------------------------------------------------
(* Properties. *)

\* Type correctness.
TypeOK ==
  /\ buf \in [Elements -> [ts : 0 .. MaxTs, init : SUBSET Edefs, act : SUBSET Edefs,
                           seqIdx : [Edefs -> 0 .. PatMod - 1]]]
  /\ h \in 0 .. IdxMod - 1 /\ t \in 0 .. IdxMod - 1
  /\ ref \in [Elements -> 0 .. MaxRefs]
  /\ index \in [Edefs -> [buf : [Elements -> 0 .. PatMod - 1],
                          h : 0 .. IdxMod - 1, t : 0 .. IdxMod - 1]]
  /\ activeEdefSet \subseteq Edefs
  /\ lastTs \in 0 .. MaxTs

\* The patterns in the buffer, oldest first, and what PatternWindow says of
\* them: the reference definition of every lookup.
Stored == [n \in 1 .. size |-> buf[At(n - 1)]]
W == INSTANCE PatternWindow WITH
       pats <- Stored, head <- 0, refc <- [n \in 1 .. size |-> ref[At(n - 1)]]
Pointer(n) == IF n = 0 THEN Null ELSE At(n - 1)

\* patternGetOldest, through an index ring with positions cut to 16 bits,
\* finds the oldest pattern that involves the edef.
OldestAgrees ==
  \A e \in Edefs : patternGetOldest(e) = Pointer(W!patternGetOldest(e))

\* patternGetNext, through the pattern's and the index ring's counters, which
\* wrap around at different widths, finds the next one.
NextAgrees ==
  \A n \in 1 .. size, e \in Edefs :
    patternGetNext(Pointer(n), e) = Pointer(W!patternGetNext(n, e))

\* patternGet's binary search over a ring that wraps around finds the pattern
\* that is there, and otherwise throws the exception that tells why not.
SearchAgrees ==
  \A ts \in 0 .. MaxTs + 1 :
    patternGet(ts) =
      CASE W!patternGet(ts) # 0 -> Pointer(W!patternGet(ts))
        [] \A n \in 1 .. size : Stored[n].ts < ts -> TooNew
        [] size > 0 /\ \A n \in 1 .. size : Stored[n].ts > ts -> Expired
        [] OTHER -> NotFound

\* What BsaCore takes for granted of the buffer is what its lookups deliver.
LookupsAgree == OldestAgrees /\ NextAgrees /\ SearchAgrees

\* BsaPattern::operator= never throws "refcount was not zero": an element is
\* only overwritten when nobody holds it, and nobody holds a pattern that is
\* not in the buffer.
NoOverwrite == \A i \in Held : \E n \in 1 .. size : i = Pointer(n)

\* activeEdefSet_ has the edefs that some pattern in the buffer involves.
ActiveExact == activeEdefSet = UNION {anyMask(Stored[n]) : n \in 1 .. size}
=============================================================================
