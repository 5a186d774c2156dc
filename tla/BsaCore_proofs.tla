--------------------------- MODULE BsaCore_proofs ---------------------------
(***************************************************************************)
(* Proofs about BsaCore, for any number of edefs, channels, input threads  *)
(* and pulses: type correctness, the lock discipline around deferred       *)
(* evictions, and the pointers: reference counts cover all of them, so     *)
(* that nothing dangles, and are exact where the bit test of               *)
(* patternGetNext is right; lookups find what they must; a slot's pattern  *)
(* only moves forward.                                                     *)
(***************************************************************************)
EXTENDS BsaCore, WellFoundedInduction, SequenceTheorems, FiniteSetTheorems, TLAPS

-----------------------------------------------------------------------------
(* The lookups and the reference counts of PatternWindow. *)

LessOnNat == {ss \in Nat \X Nat : ss[1] < ss[2]}

LEMMA NatWellFounded == IsWellFoundedOn(LessOnNat, Nat)
<1>1. LessOnNat = OpToRel(<, Nat)
  BY DEF OpToRel, LessOnNat
<1>2. QED  BY <1>1, NatLessThanWellFounded

\* The first of some patterns is one of them and not later than any.
LEMMA EarliestIsFirst ==
  ASSUME NEW S, S \subseteq Nat, S # {}
  PROVE  Earliest(S) \in S /\ \A m \in S : Earliest(S) <= m
<1>1. PICK n \in S : \A m \in S : ~ <<m, n>> \in LessOnNat
  BY NatWellFounded, WFMin
<1>2. ASSUME NEW m \in S
      PROVE  n <= m
  <2>1. m \in Nat /\ n \in Nat
    OBVIOUS
  <2>2. <<m, n>> \in Nat \X Nat /\ <<m, n>>[1] = m /\ <<m, n>>[2] = n
    BY <2>1
  <2>3. ~ <<m, n>> \in LessOnNat
    BY <1>1
  <2>4. ~ (<<m, n>>[1] < <<m, n>>[2])
    BY <2>2, <2>3, Zenon DEF LessOnNat
  <2>5. QED  BY <2>1, <2>2, <2>4
<1>3. QED  BY <1>2 DEF Earliest

\* Whatever a lookup returns is in the buffer, or the null pointer.
LEMMA EarliestInWindow ==
  ASSUME head \in Nat, Len(pats) \in Nat, NEW S, S \subseteq Window
  PROVE  Earliest(S) \in S \cup {0} /\ Earliest(S) \in Nat /\ 0 \notin S
<1>1. S \subseteq Nat /\ 0 \notin S
  BY DEF Window
<1>2. QED  BY <1>1, EarliestIsFirst DEF Earliest

LEMMA LookupTypes ==
  ASSUME head \in Nat, Len(pats) \in Nat
  PROVE  /\ \A ts : patternGet(ts) \in Nat
         /\ \A ts : patternGet(ts) # 0 => patternGet(ts) \in Window
         /\ \A e : patternGetOldest(e) \in Nat
         /\ \A e : patternGetOldest(e) # 0 => patternGetOldest(e) \in Window
         /\ \A n, e : patternGetNext(n, e) \in Nat
         /\ \A n, e : patternGetNext(n, e) # 0 => patternGetNext(n, e) \in Window
<1>1. ASSUME NEW ts
      PROVE  patternGet(ts) \in Nat /\ (patternGet(ts) # 0 => patternGet(ts) \in Window)
  <2> DEFINE S == {n \in Window : pats[n].ts = ts}
  <2>1. Earliest(S) \in S \cup {0} /\ Earliest(S) \in Nat /\ 0 \notin S
    BY EarliestInWindow
  <2>2. QED  BY <2>1 DEF patternGet
<1>2. ASSUME NEW e
      PROVE  patternGetOldest(e) \in Nat
             /\ (patternGetOldest(e) # 0 => patternGetOldest(e) \in Window)
  <2> DEFINE S == {n \in Window : e \in Involved(n)}
  <2>1. Earliest(S) \in S \cup {0} /\ Earliest(S) \in Nat /\ 0 \notin S
    BY EarliestInWindow
  <2>2. QED  BY <2>1 DEF patternGetOldest
<1>3. ASSUME NEW n, NEW e
      PROVE  patternGetNext(n, e) \in Nat
             /\ (patternGetNext(n, e) # 0 => patternGetNext(n, e) \in Window)
  <2> DEFINE S == {m \in Window : m > n /\ e \in Involved(m)}
  <2>1. Earliest(S) \in S \cup {0} /\ Earliest(S) \in Nat /\ 0 \notin S
    BY EarliestInWindow
  <2>2. QED  BY <2>1 DEF patternGetNext
<1>4. QED  BY <1>1, <1>2, <1>3

\* Changing a count keeps the counts a sequence of the same length, even for
\* a pattern that is not there.
LEMMA CountTypes ==
  ASSUME NEW r \in Seq(Int), NEW n, NEW v, n \in 1 .. Len(r) => v \in Int
  PROVE  [r EXCEPT ![n] = v] \in Seq(Int) /\ Len([r EXCEPT ![n] = v]) = Len(r)
<1>1. CASE n \in 1 .. Len(r)
  BY <1>1, ExceptSeq
<1>2. CASE n \notin 1 .. Len(r)
  <2>1. r = [i \in 1 .. Len(r) |-> r[i]] /\ DOMAIN r = 1 .. Len(r)
    BY LenProperties
  <2>2. [r EXCEPT ![n] = v] = r
    BY <1>2, <2>1
  <2>3. QED  BY <2>2
<1>3. QED  BY <1>1, <1>2

LEMMA RefTypes ==
  ASSUME NEW r \in Seq(Int), NEW n
  PROVE  /\ incRef(r, n) \in Seq(Int) /\ Len(incRef(r, n)) = Len(r)
         /\ decRef(r, n) \in Seq(Int) /\ Len(decRef(r, n)) = Len(r)
<1>1. n \in 1 .. Len(r) => r[n] + 1 \in Int /\ r[n] - 1 \in Int
  BY ElementOfSeq
<1>2. [r EXCEPT ![n] = r[n] + 1] \in Seq(Int) /\ Len([r EXCEPT ![n] = r[n] + 1]) = Len(r)
  BY <1>1, CountTypes
<1>3. [r EXCEPT ![n] = r[n] - 1] \in Seq(Int) /\ Len([r EXCEPT ![n] = r[n] - 1]) = Len(r)
  BY <1>1, CountTypes
<1>4. QED  BY <1>2, <1>3 DEF incRef, decRef

LEMMA EdefsFinite == IsFiniteSet(Edefs) /\ Edefs \subseteq Nat
<1>1. NUM_EDEF_MAX - 1 \in Int
  BY DEF NUM_EDEF_MAX
<1>2. IsFiniteSet(0 .. NUM_EDEF_MAX - 1)
  BY <1>1, FS_Interval
<1>3. Edefs \subseteq 0 .. NUM_EDEF_MAX - 1
  BY WindowAssumption
<1>4. IsFiniteSet(Edefs)
  BY <1>2, <1>3, FS_Subset
<1>5. QED  BY <1>1, <1>3, <1>4

-----------------------------------------------------------------------------
(* Type correctness. *)

\* While the core thread is at work there is a pattern to retire.
Retiring == core.pc # "wait" => head < Len(pats)

TypeInv == TypeOK /\ Retiring

Pattern == [ts : 1 .. MaxPulse, init : SUBSET Edefs, act : SUBSET Edefs]
Entry == [pat : Nat, item : BOOLEAN]

LEMMA TypeFacts ==
  ASSUME TypeOK
  PROVE  /\ head \in Nat /\ Len(pats) \in Nat
         /\ \A n \in Window : pats[n] \in Pattern
         /\ \A ch \in Channels, e \in Edefs : slot[ch][e] \in Nat
         /\ \A ch \in Channels, e \in Edefs : acct[ch][e] \in Seq(Entry)
         /\ \A ch \in Channels, e \in Edefs : NextPending(ch, e) \in Nat
<1>1. head \in Nat /\ pats \in Seq(Pattern) /\ Len(pats) \in Nat
  BY DEF TypeOK, Pattern
<1>2. \A n \in Window : pats[n] \in Pattern
  BY <1>1, ElementOfSeq DEF Window
<1>3. \A ch \in Channels, e \in Edefs :
        slot[ch][e] \in Nat /\ acct[ch][e] \in Seq(Entry)
  BY DEF TypeOK, Entry
<1>4. \A ch \in Channels, e \in Edefs : NextPending(ch, e) \in Nat
  BY <1>1, LookupTypes DEF NextPending
<1>5. QED  BY <1>1, <1>2, <1>3, <1>4

LEMMA ProcessTypes ==
  ASSUME TypeOK, NEW ch \in Channels, NEW e \in Edefs, NEW n \in Nat,
         NEW item \in BOOLEAN, process(ch, e, n, item)
  PROVE  acct' \in [Channels -> [Edefs -> Seq(Entry)]]
<1>1. [pat |-> n, item |-> item] \in Entry
  BY DEF Entry
<1>2. Append(acct[ch][e], [pat |-> n, item |-> item]) \in Seq(Entry)
  BY <1>1, TypeFacts, AppendProperties
<1>3. acct \in [Channels -> [Edefs -> Seq(Entry)]]
  BY DEF TypeOK, Entry
<1>4. QED  BY <1>2, <1>3 DEF process

-----------------------------------------------------------------------------
(* Type correctness, one lemma per thread. *)

LEMMA PushTypes ==
  ASSUME TypeInv, NEW shape \in Shapes, PushTimingData(shape)
  PROVE  TypeInv'
<1>1. MaxPulse \in Nat /\ shape \in [init : SUBSET Edefs, act : SUBSET Edefs]
  BY CoreAssumption
<1>2. pulse + 1 \in 1 .. MaxPulse /\ pulse' = pulse + 1
  BY <1>1 DEF TypeInv, TypeOK, PushTimingData
<1>3. told' \in 0 .. NumInpBufs /\ newest' = newest
  BY CoreAssumption DEF TypeInv, TypeOK, PushTimingData, windowVars
<1>4. /\ pats' \in Seq(Pattern) /\ refc' \in Seq(Int)
      /\ Len(refc') = Len(pats') /\ Len(pats') >= Len(pats)
      /\ head' = head
  <2>1. pats \in Seq(Pattern) /\ refc \in Seq(Int) /\ Len(refc) = Len(pats)
        /\ Len(pats) \in Nat
    BY DEF TypeInv, TypeOK, Pattern
  <2>2. CASE UNCHANGED windowVars
    BY <2>1, <2>2 DEF windowVars
  <2>3. CASE push_back([ts |-> pulse + 1, init |-> shape.init, act |-> shape.act])
    <3> DEFINE p == [ts |-> pulse + 1, init |-> shape.init, act |-> shape.act]
    <3>1. p \in Pattern
      BY <1>1, <1>2 DEF Pattern
    <3>2. pats' = Append(pats, p) /\ refc' = Append(refc, 0) /\ head' = head
      BY <2>3 DEF push_back
    <3> HIDE DEF p
    <3>3. QED  BY <2>1, <3>1, <3>2, AppendProperties
  <2>4. QED  BY <2>2, <2>3 DEF PushTimingData
<1>5. UNCHANGED <<chanVars, lastTimeout, core, inp>>
  BY DEF PushTimingData
<1>6. TypeOK'
  BY <1>2, <1>3, <1>4, <1>5 DEF TypeInv, TypeOK, Pattern, chanVars
<1>7. Retiring'
  BY <1>4, <1>5, TypeFacts DEF TypeInv, Retiring
<1>8. QED  BY <1>6, <1>7 DEF TypeInv

LEMMA UpdateTypes ==
  ASSUME TypeInv, UpdatePatternTimeStamp
  PROVE  TypeInv'
<1>1. /\ NumInpBufs \in Nat /\ MaxPulse \in Nat /\ told \in 0 .. NumInpBufs
      /\ pulse \in 0 .. MaxPulse /\ newest \in [Threads -> 0 .. MaxPulse]
  BY CoreAssumption DEF TypeInv, TypeOK
<1>2. told' \in 0 .. NumInpBufs /\ newest' \in [Threads -> 0 .. MaxPulse]
  <2>1. told < NumInpBufs /\ told' = told + 1 /\ newest' = [newest EXCEPT ![told] = pulse]
    BY DEF UpdatePatternTimeStamp
  <2>2. told' \in 0 .. NumInpBufs
    BY <1>1, <2>1
  <2>3. newest' \in [Threads -> 0 .. MaxPulse]
    BY <1>1, <2>1
  <2>4. QED  BY <2>2, <2>3
<1>3. TypeOK'
  BY <1>2 DEF UpdatePatternTimeStamp, TypeInv, TypeOK, windowVars, chanVars
<1>4. Retiring'
  BY DEF UpdatePatternTimeStamp, TypeInv, Retiring, windowVars
<1>5. QED  BY <1>3, <1>4 DEF TypeInv

LEMMA RetireTypes ==
  ASSUME TypeInv, RetireBegin \/ RetireCheck \/ RetirePop
  PROVE  TypeInv'
<1>1. /\ NumChannels \in Nat \ {0} /\ 0 \in Channels
      /\ MinFill \in Nat /\ head \in Nat /\ Len(pats) \in Nat
  BY CoreAssumption, WindowAssumption, TypeFacts DEF Channels, TypeInv
<1>2. CASE RetireBegin
  <2>1. TypeOK'
    BY <1>1, <1>2 DEF RetireBegin, TypeInv, TypeOK, timingVars, windowVars, chanVars
  <2>2. Retiring'
    BY <1>1, <1>2 DEF RetireBegin, checkMinFilled, Retiring, windowVars
  <2>3. QED  BY <2>1, <2>2 DEF TypeInv
<1>3. CASE RetireCheck
  <2>1. TypeOK'
    BY <1>3 DEF RetireCheck, TypeInv, TypeOK, timingVars, windowVars, chanVars
  <2>2. Retiring'
    BY <1>3 DEF RetireCheck, TypeInv, Retiring, windowVars
  <2>3. QED  BY <2>1, <2>2 DEF TypeInv
<1>4. CASE RetirePop
  <2>1. head' \in Nat /\ UNCHANGED <<pats, refc>>
    BY <1>1, <1>4 DEF RetirePop, pop
  <2>2. /\ mtx' \in [Channels -> Threads \cup {Core, Nobody}]
        /\ deferred' \in [Channels -> BOOLEAN]
    BY <1>4 DEF RetirePop, finalizePop, TypeInv, TypeOK
  <2>3. TypeOK'
    BY <1>1, <1>4, <2>1, <2>2 DEF RetirePop, TypeInv, TypeOK, timingVars
  <2>4. Retiring'
    BY <1>4 DEF RetirePop, Retiring
  <2>5. QED  BY <2>3, <2>4 DEF TypeInv
<1>5. QED  BY <1>2, <1>3, <1>4

LEMMA EvictTypes ==
  ASSUME TypeInv, Evict
  PROVE  TypeInv'
<1> DEFINE ch == core.ch
<1>1. /\ ch \in Channels /\ Front \in Window /\ Front \in Nat
      /\ head \in Nat /\ Len(pats) \in Nat
  BY TypeFacts DEF Evict, TypeInv, TypeOK, Retiring, Window, Front
<1>2. Involved(Front) \subseteq Edefs
  BY <1>1, TypeFacts DEF Involved, Pattern, TypeInv
<1>3. slot' \in [Channels -> [Edefs -> Nat]]
  BY <1>1 DEF Evict, TypeInv, TypeOK
<1>4. refc' \in Seq(Int) /\ Len(refc') = Len(refc)
  <2>1. Cardinality(Expiring(ch)) \in Nat
    BY <1>2, EdefsFinite, FS_Subset, FS_CardinalityType DEF Expiring, Scanned
  <2>2. refc \in Seq(Int)
    BY DEF TypeInv, TypeOK
  <2>3. Front \in 1 .. Len(refc) => refc[Front] - Cardinality(Expiring(ch)) \in Int
    BY <2>1, <2>2, ElementOfSeq
  <2>4. refc' = [refc EXCEPT ![Front] = refc[Front] - Cardinality(Expiring(ch))]
    BY DEF Evict
  <2>5. QED  BY <2>2, <2>3, <2>4, CountTypes
<1>5. acct' \in [Channels -> [Edefs -> Seq(Entry)]]
  <2>1. \A e \in Edefs : acct[ch][e] \in Seq(Entry)
    BY <1>1, TypeFacts DEF TypeInv
  <2>2. [pat |-> Front, item |-> FALSE] \in Entry
    BY <1>1 DEF Entry
  <2>3. \A e \in Edefs : Append(acct[ch][e], [pat |-> Front, item |-> FALSE]) \in Seq(Entry)
    BY <2>1, <2>2, AppendProperties
  <2>4. acct \in [Channels -> [Edefs -> Seq(Entry)]]
    BY DEF TypeInv, TypeOK, Entry
  <2>5. QED  BY <2>1, <2>3, <2>4 DEF Evict
<1>6. deferred' \in [Channels -> BOOLEAN]
  BY DEF Evict, TypeInv, TypeOK, Defers
<1>7. mtx' \in [Channels -> Threads \cup {Core, Nobody}]
  BY DEF Evict, TypeInv, TypeOK
<1>8. core' \in [pc : {"wait", "evict", "check", "pop"}, ch : Channels]
  <2>1. 0 \in Channels
    BY CoreAssumption DEF Channels
  <2>2. CASE ch + 1 \in Channels
    BY <2>2 DEF Evict, TypeInv, TypeOK
  <2>3. CASE ch + 1 \notin Channels
    BY <2>1, <2>3 DEF Evict
  <2>4. QED  BY <2>2, <2>3
<1>9. UNCHANGED <<pats, head, timingVars, lastTs, lastTimeout, inp>>
  BY DEF Evict
<1>10. TypeOK'
  BY <1>3, <1>4, <1>5, <1>6, <1>7, <1>8, <1>9 DEF TypeInv, TypeOK, timingVars, Entry
<1>11. Retiring'
  BY <1>9 DEF TypeInv, Retiring, Evict
<1>12. QED  BY <1>10, <1>11 DEF TypeInv

\* What every step of an input thread has to keep.  The window only changes
\* in the counts.
InputTypes ==
  /\ UNCHANGED <<pats, head, timingVars, core>>
  /\ refc' \in Seq(Int) /\ Len(refc') = Len(refc)
  /\ mtx' \in [Channels -> Threads \cup {Core, Nobody}]
  /\ deferred' = deferred
  /\ slot' \in [Channels -> [Edefs -> Nat]]
  /\ lastTs' \in [Channels -> 0 .. MaxPulse]
  /\ acct' \in [Channels -> [Edefs -> Seq(Entry)]]
  /\ lastTimeout' \in [Threads -> 0 .. MaxPulse]
  /\ inp' \in [Threads -> ThreadState]

LEMMA InputTypesSuffice ==
  ASSUME TypeInv, InputTypes
  PROVE  TypeInv'
<1>1. TypeOK'
  BY DEF InputTypes, TypeInv, TypeOK, timingVars, Entry
<1>2. Retiring'
  BY DEF InputTypes, TypeInv, Retiring
<1>3. QED  BY <1>1, <1>2 DEF TypeInv

LEMMA ThreadFacts ==
  ASSUME TypeInv, NEW t \in Threads
  PROVE  /\ inp[t] \in ThreadState /\ inp[t].ch \in Channels /\ t \in Nat
         /\ inp[t].ts \in 0 .. MaxPulse /\ inp[t].todo \subseteq Edefs
         /\ inp[t].pat \in Nat /\ inp[t].prev \in Nat
         /\ refc \in Seq(Int) /\ inp \in [Threads -> ThreadState]
         /\ acct \in [Channels -> [Edefs -> Seq(Entry)]]
         /\ Idle \in ThreadState /\ Popping \in ThreadState
<1>1. inp[t] \in ThreadState
  BY DEF TypeInv, TypeOK
<1>2. Idle \in ThreadState
  BY CoreAssumption DEF Idle, ThreadState, Channels
<1>3. Popping \in ThreadState
  BY CoreAssumption DEF Idle, Popping, ThreadState, Channels
<1>4. QED  BY <1>1, <1>2, <1>3 DEF ThreadState, Threads, TypeInv, TypeOK, Entry

LEMMA TimeoutTypes ==
  ASSUME TypeInv, NEW t \in Threads,
         TimeoutBegin(t) \/ TimeoutLock(t) \/ TimeoutFlush(t) \/ TimeoutAdvance(t)
  PROVE  InputTypes
<1> DEFINE ch == inp[t].ch
<1>0. /\ ch \in Channels /\ t \in Nat /\ refc \in Seq(Int)
      /\ inp \in [Threads -> ThreadState] /\ Idle \in ThreadState
      /\ acct \in [Channels -> [Edefs -> Seq(Entry)]]
      /\ inp[t].ts \in 0 .. MaxPulse /\ inp[t].prev \in Nat
  BY ThreadFacts
<1>1. /\ \A e \in Edefs : NextPending(ch, e) \in Nat /\ slot[ch][e] \in Nat
      /\ \A n, e : patternGetNext(n, e) \in Nat
  BY <1>0, TypeFacts, LookupTypes DEF TypeInv
<1>2. CASE TimeoutBegin(t)
  <2>1. t \in Channels /\ lastTimeout[t] \in 0 .. MaxPulse /\ newest[t] \in 0 .. MaxPulse
    BY <1>0, <1>2, CoreAssumption
       DEF TimeoutBegin, HasChannel, Channels, Threads, TypeInv, TypeOK
  <2>2. [Idle EXCEPT !.pc = "tlock", !.ch = t, !.ts = lastTimeout[t]] \in ThreadState
    BY <1>0, <2>1 DEF ThreadState, Idle
  <2>3. inp' \in [Threads -> ThreadState]
    BY <1>0, <1>2, <2>2 DEF TimeoutBegin
  <2>4. lastTimeout' \in [Threads -> 0 .. MaxPulse]
    BY <1>2, <2>1 DEF TimeoutBegin, TypeInv, TypeOK
  <2>5. QED
    BY <1>0, <1>2, <2>3, <2>4 DEF TimeoutBegin, InputTypes, TypeInv, TypeOK, windowVars,
                            chanVars, Entry
<1>3. CASE TimeoutLock(t)
  <2>1. PICK e \in Edefs :
          /\ inp' = [inp EXCEPT ![t].pc = "tloop", ![t].todo = Edefs,
                                ![t].prev = NextPending(ch, e)]
          /\ refc' = incRef(refc, NextPending(ch, e))
    BY <1>3 DEF TimeoutLock
  <2>2. inp' \in [Threads -> ThreadState]
    BY <1>0, <1>1, <2>1 DEF ThreadState
  <2>3. refc' \in Seq(Int) /\ Len(refc') = Len(refc)
    BY <1>0, <2>1, RefTypes
  <2>4. mtx' \in [Channels -> Threads \cup {Core, Nobody}]
    BY <1>0, <1>3 DEF TimeoutLock, TypeInv, TypeOK
  <2>5. QED
    BY <1>0, <1>3, <2>2, <2>3, <2>4 DEF TimeoutLock, InputTypes, TypeInv, TypeOK, Entry
<1>4. CASE TimeoutFlush(t)
  <2>1. PICK e \in Edefs :
          /\ process(ch, e, inp[t].prev, FALSE)
          /\ slot' = [slot EXCEPT ![ch][e] = inp[t].prev]
          /\ inp' = [inp EXCEPT ![t].prev = patternGetNext(inp[t].prev, e)]
          /\ refc' = incRef(decRef(refc, slot[ch][e]), patternGetNext(inp[t].prev, e))
    BY <1>4 DEF TimeoutFlush
  <2>2. inp' \in [Threads -> ThreadState]
    BY <1>0, <1>1, <2>1 DEF ThreadState
  <2>3. decRef(refc, slot[ch][e]) \in Seq(Int)
        /\ Len(decRef(refc, slot[ch][e])) = Len(refc)
    BY <1>0, RefTypes
  <2>4. refc' \in Seq(Int) /\ Len(refc') = Len(refc)
    BY <2>1, <2>3, RefTypes
  <2>5. slot' \in [Channels -> [Edefs -> Nat]]
    BY <1>0, <2>1 DEF TypeInv, TypeOK
  <2>6. acct' \in [Channels -> [Edefs -> Seq(Entry)]]
    BY <1>0, <2>1, ProcessTypes DEF TypeInv
  <2>7. QED
    BY <1>4, <2>2, <2>4, <2>5, <2>6 DEF TimeoutFlush, InputTypes, TypeInv, TypeOK
<1>5. CASE TimeoutAdvance(t)
  <2> DEFINE r == decRef(refc, inp[t].prev)
  <2>1. r \in Seq(Int) /\ Len(r) = Len(refc)
    BY <1>0, RefTypes
  <2>2. PICK e \in Edefs :
          \/ \E f \in Edefs :
               /\ inp' = [inp EXCEPT ![t].todo = @ \ {e}, ![t].prev = NextPending(ch, f)]
               /\ refc' = incRef(r, NextPending(ch, f))
               /\ UNCHANGED mtx
          \/ /\ refc' = r
             /\ mtx' = [mtx EXCEPT ![ch] = Nobody]
             /\ inp' = [inp EXCEPT ![t] =
                  IF HasChannel(ch + NumInpBufs)
                    THEN [Idle EXCEPT !.pc = "tlock", !.ch = ch + NumInpBufs,
                                      !.ts = inp[t].ts]
                    ELSE Idle]
    BY <1>5 DEF TimeoutAdvance
  <2>3. UNCHANGED <<pats, head, timingVars, deferred, slot, lastTs, acct,
                    lastTimeout, core>>
    BY <1>5 DEF TimeoutAdvance
  <2>4. CASE \E f \in Edefs :
               /\ inp' = [inp EXCEPT ![t].todo = @ \ {e}, ![t].prev = NextPending(ch, f)]
               /\ refc' = incRef(r, NextPending(ch, f))
               /\ UNCHANGED mtx
    <3>1. PICK f \in Edefs :
               /\ inp' = [inp EXCEPT ![t].todo = @ \ {e}, ![t].prev = NextPending(ch, f)]
               /\ refc' = incRef(r, NextPending(ch, f))
               /\ UNCHANGED mtx
      BY <2>4
    <3>2. inp' \in [Threads -> ThreadState]
      BY <1>0, <1>1, <3>1 DEF ThreadState
    <3> HIDE DEF r
    <3>3. refc' \in Seq(Int) /\ Len(refc') = Len(refc)
      BY <2>1, <3>1, RefTypes
    <3>4. QED  BY <1>0, <2>3, <3>1, <3>2, <3>3 DEF InputTypes, TypeInv, TypeOK, Entry
  <2>5. CASE /\ refc' = r
             /\ mtx' = [mtx EXCEPT ![ch] = Nobody]
             /\ inp' = [inp EXCEPT ![t] =
                  IF HasChannel(ch + NumInpBufs)
                    THEN [Idle EXCEPT !.pc = "tlock", !.ch = ch + NumInpBufs,
                                      !.ts = inp[t].ts]
                    ELSE Idle]
    <3> DEFINE next == IF HasChannel(ch + NumInpBufs)
                         THEN [Idle EXCEPT !.pc = "tlock", !.ch = ch + NumInpBufs,
                                           !.ts = inp[t].ts]
                         ELSE Idle
    <3>1. HasChannel(ch + NumInpBufs) => ch + NumInpBufs \in Channels
      BY <1>0, CoreAssumption DEF HasChannel, Channels
    <3>2. next \in ThreadState
      BY <1>0, <3>1 DEF ThreadState, Idle
    <3>3. inp' \in [Threads -> ThreadState]
      <4>1. inp' = [inp EXCEPT ![t] = next]
        BY <2>5
      <4> HIDE DEF next
      <4>2. QED  BY <1>0, <3>2, <4>1
    <3>4. mtx' \in [Channels -> Threads \cup {Core, Nobody}]
      BY <1>0, <2>5 DEF TypeInv, TypeOK
    <3>5. QED
      BY <1>0, <2>1, <2>3, <2>5, <3>3, <3>4 DEF InputTypes, TypeInv, TypeOK, Entry
  <2>6. QED  BY <2>2, <2>4, <2>5
<1>6. QED  BY <1>2, <1>3, <1>4, <1>5

LEMMA ItemTypes ==
  ASSUME TypeInv, NEW t \in Threads,
         \/ \E ch \in Channels, ts \in 1 .. MaxPulse : ItemBegin(t, ch, ts)
         \/ ItemLookup(t) \/ ItemTimedOut(t) \/ ItemEdef(t)
         \/ ItemCatchUp(t) \/ ItemStore(t) \/ ItemDone(t) \/ ItemPop(t)
  PROVE  InputTypes
<1> DEFINE ch == inp[t].ch
<1>0. /\ ch \in Channels /\ refc \in Seq(Int) /\ {Idle, Popping} \subseteq ThreadState
      /\ inp \in [Threads -> ThreadState] /\ inp[t] \in ThreadState
      /\ acct \in [Channels -> [Edefs -> Seq(Entry)]]
      /\ inp[t].ts \in 0 .. MaxPulse /\ inp[t].todo \subseteq Edefs
      /\ inp[t].pat \in Nat /\ inp[t].prev \in Nat
  BY ThreadFacts
<1>1. /\ \A e \in Edefs : NextPending(ch, e) \in Nat /\ slot[ch][e] \in Nat
      /\ \A n, e : patternGetNext(n, e) \in Nat
  BY <1>0, TypeFacts, LookupTypes DEF TypeInv
<1>2. ASSUME NEW c \in Channels, NEW ts \in 1 .. MaxPulse, ItemBegin(t, c, ts)
      PROVE  InputTypes
  <2>1. [Idle EXCEPT !.pc = "ilock", !.ch = c, !.ts = ts] \in ThreadState
    <3>1. MaxPulse \in Nat
      BY CoreAssumption
    <3>2. ts \in 0 .. MaxPulse
      BY <3>1
    <3>3. QED  BY <1>0, <3>2 DEF ThreadState, Idle
  <2>2. inp' \in [Threads -> ThreadState]
    BY <1>0, <1>2, <2>1 DEF ItemBegin
  <2>3. QED
    BY <1>0, <1>2, <2>2 DEF ItemBegin, InputTypes, TypeInv, TypeOK, windowVars, chanVars
<1>3. CASE ItemLookup(t)
  <2> DEFINE n == patternGet(inp[t].ts)
  <2>1. n \in Nat /\ (n # 0 => pats[n].act \subseteq Edefs)
    <3>1. n \in Nat /\ (n # 0 => n \in Window)
      BY LookupTypes, TypeFacts DEF TypeInv
    <3>2. n # 0 => pats[n] \in Pattern
      BY <3>1, TypeFacts DEF TypeInv
    <3>3. QED  BY <3>1, <3>2 DEF Pattern
  <2>2. lastTs' \in [Channels -> 0 .. MaxPulse]
    BY <1>0, <1>3 DEF ItemLookup, TypeInv, TypeOK
  <2>3. mtx' \in [Channels -> Threads \cup {Core, Nobody}]
    BY <1>0, <1>3 DEF ItemLookup, TypeInv, TypeOK
  <2>4. refc' \in Seq(Int) /\ Len(refc') = Len(refc)
    BY <1>0, <1>3, RefTypes DEF ItemLookup
  <2>5. inp' \in [Threads -> ThreadState]
    <3>1. CASE inp' = [inp EXCEPT ![t] = Popping]
      BY <1>0, <3>1
    <3>2. CASE /\ n # 0
               /\ inp' = [inp EXCEPT ![t].pc = "iedef", ![t].pat = n,
                                     ![t].todo = pats[n].act]
      <4> HIDE DEF n
      <4>1. QED  BY <1>0, <2>1, <3>2 DEF ThreadState
    <3>3. QED  BY <1>3, <3>1, <3>2 DEF ItemLookup
  <2>6. UNCHANGED <<pats, head, timingVars, deferred, slot, acct, lastTimeout, core>>
    BY <1>3 DEF ItemLookup
  <2>7. QED
    BY <1>0, <2>2, <2>3, <2>4, <2>5, <2>6 DEF InputTypes, TypeInv, TypeOK
<1>4. CASE ItemTimedOut(t)
  <2>1. inp' \in [Threads -> ThreadState]
    <3>1. PICK e \in Edefs : inp' = [inp EXCEPT ![t].todo = @ \ {e}]
      BY <1>4 DEF ItemTimedOut
    <3>2. QED  BY <1>0, <3>1 DEF ThreadState
  <2>2. QED
    BY <1>0, <1>4, <2>1 DEF ItemTimedOut, InputTypes, TypeInv, TypeOK, windowVars, chanVars
<1>5. CASE ItemEdef(t)
  <2>1. PICK e \in Edefs :
          /\ slot' = [slot EXCEPT ![ch][e] = inp[t].pat]
          /\ refc' = incRef(decRef(incRef(refc, NextPending(ch, e)), slot[ch][e]),
                            inp[t].pat)
          /\ inp' = [inp EXCEPT ![t] = IF NextPending(ch, e) = 0 THEN Popping
                       ELSE [@ EXCEPT !.pc = "iloop", !.prev = NextPending(ch, e)]]
          /\ mtx' = [mtx EXCEPT ![ch] = IF NextPending(ch, e) = 0 THEN Nobody ELSE @]
    BY <1>5 DEF ItemEdef
  <2>2. slot' \in [Channels -> [Edefs -> Nat]]
    BY <1>0, <2>1 DEF TypeInv, TypeOK
  <2>3. refc' \in Seq(Int) /\ Len(refc') = Len(refc)
    <3> DEFINE r1 == incRef(refc, NextPending(ch, e))
               r2 == decRef(r1, slot[ch][e])
    <3>1. r1 \in Seq(Int) /\ Len(r1) = Len(refc)
      BY <1>0, RefTypes
    <3> HIDE DEF r1
    <3>2. r2 \in Seq(Int) /\ Len(r2) = Len(refc)
      BY <3>1, RefTypes
    <3>3. refc' = incRef(r2, inp[t].pat)
      BY <2>1 DEF r1
    <3> HIDE DEF r2
    <3>4. QED  BY <3>2, <3>3, RefTypes
  <2>4. inp' \in [Threads -> ThreadState]
    BY <1>0, <1>1, <2>1 DEF ThreadState
  <2>5. mtx' \in [Channels -> Threads \cup {Core, Nobody}]
    BY <1>0, <2>1 DEF TypeInv, TypeOK
  <2>6. UNCHANGED <<pats, head, timingVars, deferred, lastTs, acct, lastTimeout, core>>
    BY <1>5 DEF ItemEdef
  <2>7. QED
    BY <1>0, <2>2, <2>3, <2>4, <2>5, <2>6 DEF InputTypes, TypeInv, TypeOK
<1>6. CASE ItemCatchUp(t)
  <2>1. PICK e \in Edefs :
          LET next == patternGetNext(inp[t].prev, e) IN
          /\ process(ch, e, inp[t].prev, FALSE)
          /\ refc' = decRef(incRef(refc, next), inp[t].prev)
          /\ inp' = [inp EXCEPT ![t] = IF next = 0 THEN Popping ELSE [@ EXCEPT !.prev = next]]
          /\ mtx' = [mtx EXCEPT ![ch] = IF next = 0 THEN Nobody ELSE @]
    BY <1>6 DEF ItemCatchUp
  <2> DEFINE next == patternGetNext(inp[t].prev, e)
  <2>2. acct' \in [Channels -> [Edefs -> Seq(Entry)]]
    BY <1>0, <2>1, ProcessTypes DEF TypeInv
  <2>3. incRef(refc, next) \in Seq(Int) /\ Len(incRef(refc, next)) = Len(refc)
    BY <1>0, RefTypes
  <2>4. refc' \in Seq(Int) /\ Len(refc') = Len(refc)
    BY <2>1, <2>3, RefTypes
  <2>5. inp' \in [Threads -> ThreadState]
    BY <1>0, <1>1, <2>1 DEF ThreadState
  <2>6. mtx' \in [Channels -> Threads \cup {Core, Nobody}]
    BY <1>0, <2>1 DEF TypeInv, TypeOK
  <2>7. UNCHANGED <<pats, head, timingVars, deferred, slot, lastTs, lastTimeout, core>>
    BY <1>6 DEF ItemCatchUp
  <2>8. QED
    BY <2>2, <2>4, <2>5, <2>6, <2>7 DEF InputTypes, TypeInv, TypeOK
<1>7. CASE ItemStore(t)
  <2>1. PICK e \in Edefs :
          /\ process(ch, e, inp[t].pat, TRUE)
          /\ inp' = [inp EXCEPT ![t].pc = "iedef", ![t].todo = @ \ {e}, ![t].prev = 0]
    BY <1>7 DEF ItemStore
  <2>2. acct' \in [Channels -> [Edefs -> Seq(Entry)]]
    BY <1>0, <2>1, ProcessTypes DEF TypeInv
  <2>3. refc' \in Seq(Int) /\ Len(refc') = Len(refc)
    BY <1>0, <1>7, RefTypes DEF ItemStore
  <2>4. inp' \in [Threads -> ThreadState]
    BY <1>0, <2>1 DEF ThreadState
  <2>5. QED
    BY <1>0, <1>7, <2>2, <2>3, <2>4 DEF ItemStore, InputTypes, TypeInv, TypeOK
<1>8. CASE ItemDone(t)
  <2>1. refc' \in Seq(Int) /\ Len(refc') = Len(refc)
    BY <1>0, <1>8, RefTypes DEF ItemDone
  <2>2. inp' \in [Threads -> ThreadState]
    BY <1>0, <1>8 DEF ItemDone
  <2>3. mtx' \in [Channels -> Threads \cup {Core, Nobody}]
    BY <1>0, <1>8 DEF ItemDone, TypeInv, TypeOK
  <2>4. QED
    BY <1>0, <1>8, <2>1, <2>2, <2>3 DEF ItemDone, InputTypes, TypeInv, TypeOK
<1>9. CASE ItemPop(t)
  BY <1>0, <1>9 DEF ItemPop, InputTypes, TypeInv, TypeOK, windowVars, chanVars
<1>10. QED  BY <1>2, <1>3, <1>4, <1>5, <1>6, <1>7, <1>8, <1>9

LEMMA InitTypes == Init => TypeInv
<1> SUFFICES ASSUME Init
             PROVE  TypeInv
  OBVIOUS
<1>1. /\ 0 \in Channels /\ MaxPulse \in Nat
      /\ NumChannels \in Nat /\ NumInpBufs \in Nat
      /\ StartTimes \subseteq 0 .. MaxPulse
  BY CoreAssumption DEF Channels
<1>2. Idle \in ThreadState
  BY <1>1 DEF Idle, ThreadState
<1>3. /\ pats \in Seq(Pattern) /\ refc \in Seq(Int) /\ Len(refc) = Len(pats)
      /\ acct \in [Channels -> [Edefs -> Seq(Entry)]]
  BY DEF Init
<1>4. told \in 0 .. NumInpBufs /\ lastTimeout \in [Threads -> 0 .. MaxPulse]
  <2>1. told \in 0 .. NumInpBufs
    BY <1>1 DEF Init
  <2>2. lastTimeout \in [Threads -> StartTimes]
    BY DEF Init
  <2>3. QED  BY <1>1, <2>1, <2>2
<1>5. TypeOK
  BY <1>1, <1>2, <1>3, <1>4 DEF Init, TypeOK, Pattern, Entry
<1>6. QED  BY <1>5 DEF TypeInv, Retiring, Init

LEMMA NextTypes ==
  ASSUME TypeInv, [Next]_vars
  PROVE  TypeInv'
<1>1. CASE UNCHANGED vars
  BY <1>1 DEF vars, timingVars, windowVars, chanVars, TypeInv, TypeOK, Retiring
<1>2. CASE (\E shape \in Shapes : PushTimingData(shape)) \/ UpdatePatternTimeStamp
  BY <1>2, PushTypes, UpdateTypes
<1>3. CASE RetireBegin \/ RetireCheck \/ RetirePop
  BY <1>3, RetireTypes
<1>4. CASE Evict
  BY <1>4, EvictTypes
<1>5. ASSUME NEW t \in Threads,
             TimeoutBegin(t) \/ TimeoutLock(t) \/ TimeoutStep(t)
      PROVE  TypeInv'
  BY <1>5, TimeoutTypes, InputTypesSuffice DEF TimeoutStep
<1>6. ASSUME NEW t \in Threads,
             \/ \E ch \in Channels, ts \in 1 .. MaxPulse : ItemBegin(t, ch, ts)
             \/ ItemLookup(t) \/ ItemStep(t) \/ ItemPop(t)
      PROVE  TypeInv'
  BY <1>6, ItemTypes, InputTypesSuffice DEF ItemStep
<1>7. QED  BY <1>1, <1>2, <1>3, <1>4, <1>5, <1>6 DEF Next, Other

\* Type correctness: pointers, owners and counts stay what they are, and the
\* core thread only ever evicts a pattern that is in the buffer.
THEOREM TypeCorrect == Spec => []TypeOK
<1>1. TypeInv => TypeOK
  BY DEF TypeInv
<1>2. QED  BY InitTypes, NextTypes, <1>1, PTL DEF Spec

-----------------------------------------------------------------------------
(* Lock discipline. *)

\* What a step that leaves the core thread's locks alone must see to: the
\* only mutex it touches is that of its own channel, and it takes only a
\* free mutex and gives up only its own.
LockStep(t) ==
  /\ deferred' = deferred /\ core' = core
  /\ \A u \in Threads \ {t} : inp'[u] = inp[u]
  /\ \A ch \in Channels :
       \/ mtx'[ch] = mtx[ch]
       \/ mtx[ch] = Nobody /\ mtx'[ch] = t
       \/ mtx[ch] = t /\ mtx'[ch] = Nobody
  /\ inp'[t].pc \in {"tloop", "iedef", "iloop"} => mtx'[inp'[t].ch] = t

LEMMA LockStepKeeps ==
  ASSUME TypeInv, TypeInv', LockDiscipline, NEW t \in Threads, LockStep(t)
  PROVE  LockDiscipline'
<1>1. t \in Nat /\ \A u \in Threads : u \in Nat /\ u # Core /\ u # Nobody
  BY DEF Threads, Core, Nobody
<1>2. ASSUME NEW u \in Threads, inp'[u].pc \in {"tloop", "iedef", "iloop"}
      PROVE  mtx'[inp'[u].ch] = u
  <2>1. CASE u = t
    BY <1>2, <2>1 DEF LockStep
  <2>2. CASE u # t
    <3>1. inp'[u] = inp[u] /\ mtx[inp[u].ch] = u /\ inp[u].ch \in Channels
      BY <1>2, <2>2, ThreadFacts DEF LockStep, LockDiscipline
    <3>2. QED  BY <1>1, <2>2, <3>1 DEF LockStep
  <2>3. QED  BY <2>1, <2>2
<1>3. ASSUME NEW ch \in Channels
      PROVE  mtx'[ch] = Core <=> deferred'[ch]
  <2>1. Core # Nobody /\ t # Core
    BY <1>1 DEF Core, Nobody
  <2>2. QED  BY <2>1 DEF LockStep, LockDiscipline
<1>4. core'.pc = "wait" => \A ch \in Channels : ~deferred'[ch]
  BY DEF LockStep, LockDiscipline
<1>5. QED  BY <1>2, <1>3, <1>4 DEF LockDiscipline

LEMMA TimeoutLocks ==
  ASSUME TypeInv, LockDiscipline, NEW t \in Threads,
         TimeoutBegin(t) \/ TimeoutLock(t) \/ TimeoutStep(t)
  PROVE  LockStep(t)
<1>0. /\ inp \in [Threads -> ThreadState] /\ inp[t] \in ThreadState
      /\ inp[t].ch \in Channels
      /\ mtx \in [Channels -> Threads \cup {Core, Nobody}]
  BY ThreadFacts DEF TypeInv, TypeOK
<1>1. CASE TimeoutBegin(t)
  BY <1>0, <1>1 DEF TimeoutBegin, LockStep, chanVars, Idle
<1>2. CASE TimeoutLock(t)
  <2>1. PICK n : inp' = [inp EXCEPT ![t].pc = "tloop", ![t].todo = Edefs, ![t].prev = n]
    BY <1>2 DEF TimeoutLock
  <2>2. /\ mtx[inp[t].ch] = Nobody /\ mtx' = [mtx EXCEPT ![inp[t].ch] = t]
        /\ UNCHANGED <<deferred, core>>
    BY <1>2 DEF TimeoutLock
  <2>3. QED  BY <1>0, <2>1, <2>2 DEF LockStep, ThreadState
<1>3. CASE TimeoutFlush(t)
  <2>1. PICK n : inp' = [inp EXCEPT ![t].prev = n]
    BY <1>3 DEF TimeoutFlush
  <2>2. UNCHANGED <<mtx, deferred, core>> /\ inp[t].pc = "tloop"
    BY <1>3 DEF TimeoutFlush
  <2>3. QED  BY <1>0, <2>1, <2>2 DEF LockStep, LockDiscipline, ThreadState
<1>4. CASE TimeoutAdvance(t)
  <2>1. UNCHANGED <<deferred, core>> /\ mtx[inp[t].ch] = t
    BY <1>4 DEF TimeoutAdvance, LockDiscipline
  <2>2. CASE UNCHANGED mtx /\ \E S, n : inp' = [inp EXCEPT ![t].todo = S, ![t].prev = n]
    BY <1>0, <2>1, <2>2 DEF LockStep, ThreadState
  <2>3. CASE /\ mtx' = [mtx EXCEPT ![inp[t].ch] = Nobody]
             /\ \E c : inp' = [inp EXCEPT ![t] = c] /\ c.pc \in {"tlock", "idle"}
    BY <1>0, <2>1, <2>3 DEF LockStep
  <2>4. QED
    <3>1. PICK e \in Edefs :
          \/ /\ \E S, n : inp' = [inp EXCEPT ![t].todo = S, ![t].prev = n]
             /\ UNCHANGED mtx
          \/ /\ mtx' = [mtx EXCEPT ![inp[t].ch] = Nobody]
             /\ inp' = [inp EXCEPT ![t] =
                  IF HasChannel(inp[t].ch + NumInpBufs)
                    THEN [Idle EXCEPT !.pc = "tlock", !.ch = inp[t].ch + NumInpBufs,
                                      !.ts = inp[t].ts]
                    ELSE Idle]
      BY <1>4 DEF TimeoutAdvance
    <3> DEFINE next == IF HasChannel(inp[t].ch + NumInpBufs)
                         THEN [Idle EXCEPT !.pc = "tlock", !.ch = inp[t].ch + NumInpBufs,
                                           !.ts = inp[t].ts]
                         ELSE Idle
    <3>2. next.pc \in {"tlock", "idle"}
      BY DEF Idle
    <3>3. QED  BY <2>2, <2>3, <3>1, <3>2
<1>5. QED  BY <1>1, <1>2, <1>3, <1>4 DEF TimeoutStep

LEMMA ItemLocks ==
  ASSUME TypeInv, LockDiscipline, NEW t \in Threads,
         \/ \E ch \in Channels, ts \in 1 .. MaxPulse : ItemBegin(t, ch, ts)
         \/ ItemLookup(t) \/ ItemStep(t) \/ ItemPop(t)
  PROVE  LockStep(t)
<1>0. /\ inp \in [Threads -> ThreadState] /\ inp[t] \in ThreadState
      /\ inp[t].ch \in Channels
      /\ mtx \in [Channels -> Threads \cup {Core, Nobody}]
      /\ t # Nobody
  BY ThreadFacts DEF TypeInv, TypeOK, Threads, Nobody
<1> DEFINE ch == inp[t].ch
<1>1. CASE \E c \in Channels, ts \in 1 .. MaxPulse : ItemBegin(t, c, ts)
  BY <1>0, <1>1 DEF ItemBegin, LockStep, chanVars, Idle
<1>2. CASE ItemLookup(t)
  <2>1. /\ mtx[ch] = Nobody /\ UNCHANGED <<deferred, core>>
        /\ \/ UNCHANGED mtx /\ inp' = [inp EXCEPT ![t] = Popping]
           \/ /\ mtx' = [mtx EXCEPT ![ch] = t]
              /\ \E n, S : inp' = [inp EXCEPT ![t].pc = "iedef", ![t].pat = n, ![t].todo = S]
    BY <1>2 DEF ItemLookup
  <2>2. CASE UNCHANGED mtx /\ inp' = [inp EXCEPT ![t] = Popping]
    BY <1>0, <2>1, <2>2 DEF LockStep, Idle, Popping
  <2>3. CASE /\ mtx' = [mtx EXCEPT ![ch] = t]
             /\ \E n, S : inp' = [inp EXCEPT ![t].pc = "iedef", ![t].pat = n, ![t].todo = S]
    <3>1. PICK n, S : inp' = [inp EXCEPT ![t].pc = "iedef", ![t].pat = n, ![t].todo = S]
      BY <2>3
    <3>2. inp'[t].ch = ch /\ \A u \in Threads \ {t} : inp'[u] = inp[u]
      BY <1>0, <3>1 DEF ThreadState
    <3>3. QED  BY <1>0, <2>1, <2>3, <3>2 DEF LockStep
  <2>4. QED  BY <2>1, <2>2, <2>3
<1>3. CASE ItemTimedOut(t)
  <2>1. PICK S : inp' = [inp EXCEPT ![t].todo = S]
    BY <1>3 DEF ItemTimedOut
  <2>2. UNCHANGED <<mtx, deferred, core>> /\ mtx[ch] = t
    BY <1>3 DEF ItemTimedOut, chanVars, LockDiscipline
  <2>3. QED  BY <1>0, <2>1, <2>2 DEF LockStep, ThreadState
<1>4. CASE ItemEdef(t) \/ ItemCatchUp(t)
  <2>1. UNCHANGED <<deferred, core>> /\ mtx[ch] = t
    BY <1>4 DEF ItemEdef, ItemCatchUp, LockDiscipline
  <2>2. \/ /\ mtx' = [mtx EXCEPT ![ch] = Nobody]
           /\ inp' = [inp EXCEPT ![t] = Popping]
        \/ /\ mtx' = [mtx EXCEPT ![ch] = @]
           /\ \E pc, n : inp' = [inp EXCEPT ![t] = [@ EXCEPT !.pc = pc, !.prev = n]]
    <3>1. CASE ItemEdef(t)
      <4>1. PICK n : /\ inp' = [inp EXCEPT ![t] =
                          IF n = 0 THEN Popping ELSE [@ EXCEPT !.pc = "iloop", !.prev = n]]
                     /\ mtx' = [mtx EXCEPT ![ch] = IF n = 0 THEN Nobody ELSE @]
        BY <3>1 DEF ItemEdef
      <4>2. QED  BY <4>1
    <3>2. CASE ItemCatchUp(t)
      <4>1. PICK n : /\ inp' = [inp EXCEPT ![t] =
                          IF n = 0 THEN Popping ELSE [@ EXCEPT !.prev = n]]
                     /\ mtx' = [mtx EXCEPT ![ch] = IF n = 0 THEN Nobody ELSE @]
        BY <3>2 DEF ItemCatchUp
      <4>2. [inp[t] EXCEPT !.prev = n] = [inp[t] EXCEPT !.pc = inp[t].pc, !.prev = n]
        BY <1>0 DEF ThreadState
      <4>3. QED  BY <4>1, <4>2
    <3>3. QED  BY <1>4, <3>1, <3>2
  <2>3. CASE /\ mtx' = [mtx EXCEPT ![ch] = Nobody]
             /\ inp' = [inp EXCEPT ![t] = Popping]
    BY <1>0, <2>1, <2>3 DEF LockStep, Idle, Popping
  <2>4. CASE /\ mtx' = [mtx EXCEPT ![ch] = @]
             /\ \E pc, n : inp' = [inp EXCEPT ![t] = [@ EXCEPT !.pc = pc, !.prev = n]]
    BY <1>0, <2>1, <2>4 DEF LockStep, ThreadState
  <2>5. QED  BY <2>2, <2>3, <2>4
<1>5. CASE ItemStore(t)
  <2>1. PICK S : inp' = [inp EXCEPT ![t].pc = "iedef", ![t].todo = S, ![t].prev = 0]
    BY <1>5 DEF ItemStore
  <2>2. UNCHANGED <<mtx, deferred, core>> /\ mtx[ch] = t
    BY <1>5 DEF ItemStore, LockDiscipline
  <2>3. QED  BY <1>0, <2>1, <2>2 DEF LockStep, ThreadState
<1>6. CASE ItemDone(t)
  BY <1>0, <1>6 DEF ItemDone, LockStep, LockDiscipline, Idle, Popping
<1>7. CASE ItemPop(t)
  BY <1>0, <1>7 DEF ItemPop, LockStep, chanVars, Idle
<1>8. QED  BY <1>1, <1>2, <1>3, <1>4, <1>5, <1>6, <1>7 DEF ItemStep

\* The core thread takes only free mutexes, and marks them; what it has
\* marked, and nothing else, is unlocked with the pop.
LEMMA CoreLocks ==
  ASSUME TypeInv, LockDiscipline, RetireBegin \/ Evict \/ RetireCheck \/ RetirePop
  PROVE  LockDiscipline'
<1>0. /\ core \in [pc : {"wait", "evict", "check", "pop"}, ch : Channels]
      /\ mtx \in [Channels -> Threads \cup {Core, Nobody}]
      /\ deferred \in [Channels -> BOOLEAN]
      /\ \A t \in Threads : inp[t].ch \in Channels /\ t # Nobody /\ t # Core
      /\ Core # Nobody
  <2>1. \A t \in Threads : inp[t].ch \in Channels /\ t \in Nat
    BY ThreadFacts
  <2>2. QED  BY <2>1 DEF TypeInv, TypeOK, Nobody, Core
<1>1. CASE RetireBegin \/ RetireCheck
  <2>1. UNCHANGED <<mtx, deferred, inp>> /\ core'.pc # "wait"
    BY <1>0, <1>1 DEF RetireBegin, RetireCheck, chanVars
  <2>2. QED  BY <2>1 DEF LockDiscipline
<1>2. CASE Evict
  <2> DEFINE ch == core.ch
  <2>1. /\ mtx[ch] = Nobody /\ ch \in Channels /\ UNCHANGED inp
        /\ deferred' = [deferred EXCEPT ![ch] = Defers(ch)]
        /\ mtx' = [mtx EXCEPT ![ch] = IF Defers(ch) THEN Core ELSE Nobody]
    BY <1>0, <1>2 DEF Evict
  <2>2. core'.pc # "wait"
    <3>1. core.pc = "evict"
      BY <1>2 DEF Evict
    <3>2. core' = [core EXCEPT !.ch = ch + 1] \/ core' = [pc |-> "check", ch |-> 0]
      BY <1>2 DEF Evict
    <3>3. QED  BY <1>0, <3>1, <3>2
  <2>3. QED  BY <1>0, <2>1, <2>2 DEF LockDiscipline
<1>3. CASE RetirePop
  <2>1. /\ mtx' = [ch \in Channels |-> IF deferred[ch] THEN Nobody ELSE mtx[ch]]
        /\ deferred' = [ch \in Channels |-> FALSE] /\ UNCHANGED inp
    BY <1>3 DEF RetirePop, finalizePop
  <2>2. QED  BY <1>0, <2>1 DEF LockDiscipline
<1>4. QED  BY <1>1, <1>2, <1>3

LEMMA NextLocks ==
  ASSUME TypeInv, TypeInv', LockDiscipline, [Next]_vars
  PROVE  LockDiscipline'
<1>1. CASE UNCHANGED vars
  BY <1>1 DEF vars, chanVars, LockDiscipline
<1>2. CASE (\E shape \in Shapes : PushTimingData(shape)) \/ UpdatePatternTimeStamp
  BY <1>2 DEF PushTimingData, UpdatePatternTimeStamp, chanVars, LockDiscipline
<1>3. CASE RetireBegin \/ Evict \/ RetireCheck \/ RetirePop
  BY <1>3, CoreLocks
<1>4. ASSUME NEW t \in Threads,
             \/ TimeoutBegin(t) \/ TimeoutLock(t) \/ TimeoutStep(t)
             \/ \E ch \in Channels, ts \in 1 .. MaxPulse : ItemBegin(t, ch, ts)
             \/ ItemLookup(t) \/ ItemStep(t) \/ ItemPop(t)
      PROVE  LockDiscipline'
  BY <1>4, TimeoutLocks, ItemLocks, LockStepKeeps
<1>5. QED  BY <1>1, <1>2, <1>3, <1>4 DEF Next, Other

\* Lock discipline, for any number of channels, threads and edefs.
THEOREM LocksHeld == Spec => []LockDiscipline
<1>1. Init => LockDiscipline
  BY DEF Init, LockDiscipline, Idle, Core, Nobody
<1>2. QED  BY <1>1, InitTypes, NextTypes, NextLocks, PTL DEF Spec

-----------------------------------------------------------------------------
(* A channel whose eviction is deferred does not change until the pop.     *)

\* The channel keeps its state, but for the mutex.
Kept(ch) == slot'[ch] = slot[ch] /\ acct'[ch] = acct[ch] /\ lastTs'[ch] = lastTs[ch]

Frozen ==
  \A ch \in Channels : deferred[ch] => Kept(ch) /\ (~deferred'[ch] => head' = head + 1)

\* An input thread changes one channel only, which it has locked or locks now.
LEMMA InputKeeps ==
  ASSUME TypeInv, LockDiscipline, NEW t \in Threads,
         \/ TimeoutBegin(t) \/ TimeoutLock(t) \/ TimeoutStep(t)
         \/ \E ch \in Channels, ts \in 1 .. MaxPulse : ItemBegin(t, ch, ts)
         \/ ItemLookup(t) \/ ItemStep(t) \/ ItemPop(t)
  PROVE  Frozen
<1> DEFINE ch == inp[t].ch
<1>0. /\ ch \in Channels /\ t # Core /\ Nobody # Core
      /\ slot \in [Channels -> [Edefs -> Nat]]
      /\ acct \in [Channels -> [Edefs -> Seq(Entry)]]
      /\ lastTs \in [Channels -> 0 .. MaxPulse]
  BY ThreadFacts DEF Core, Nobody, TypeInv, TypeOK
<1>1. UNCHANGED deferred
  BY TimeoutLocks, ItemLocks DEF LockStep
<1>2. CASE /\ mtx[ch] \in {t, Nobody}
           /\ \A c \in Channels \ {ch} : Kept(c)
  <2>1. ~deferred[ch]
    BY <1>0, <1>2 DEF LockDiscipline
  <2>2. QED  BY <1>0, <1>1, <1>2, <2>1 DEF Frozen
<1>3. CASE UNCHANGED <<slot, acct, lastTs>>
  BY <1>1, <1>3 DEF Frozen, Kept
<1>4. CASE \/ TimeoutBegin(t) \/ TimeoutLock(t) \/ TimeoutAdvance(t)
           \/ \E c \in Channels, ts \in 1 .. MaxPulse : ItemBegin(t, c, ts)
           \/ ItemTimedOut(t) \/ ItemDone(t) \/ ItemPop(t)
  BY <1>3, <1>4 DEF TimeoutBegin, TimeoutLock, TimeoutAdvance, ItemBegin, ItemTimedOut,
                    ItemDone, ItemPop, chanVars
<1>5. CASE TimeoutFlush(t)
  <2>1. PICK e, n : /\ process(ch, e, n, FALSE)
                    /\ slot' = [slot EXCEPT ![ch][e] = n]
                    /\ UNCHANGED lastTs /\ inp[t].pc = "tloop"
    BY <1>5 DEF TimeoutFlush
  <2>2. \A c \in Channels \ {ch} : Kept(c)
    BY <1>0, <2>1 DEF process, Kept
  <2>3. QED  BY <1>2, <2>1, <2>2 DEF LockDiscipline
<1>6. CASE ItemLookup(t)
  <2>1. /\ mtx[ch] = Nobody /\ UNCHANGED <<slot, acct>>
        /\ UNCHANGED lastTs \/ lastTs' = [lastTs EXCEPT ![ch] = inp[t].ts]
    BY <1>6 DEF ItemLookup
  <2>2. \A c \in Channels \ {ch} : Kept(c)
    BY <1>0, <2>1 DEF Kept
  <2>3. QED  BY <1>2, <2>1, <2>2
<1>7. CASE ItemEdef(t)
  <2>1. PICK e : /\ slot' = [slot EXCEPT ![ch][e] = inp[t].pat]
                 /\ UNCHANGED <<acct, lastTs>> /\ inp[t].pc = "iedef"
    BY <1>7 DEF ItemEdef
  <2>2. \A c \in Channels \ {ch} : Kept(c)
    BY <1>0, <2>1 DEF Kept
  <2>3. QED  BY <1>2, <2>1, <2>2 DEF LockDiscipline
<1>8. CASE ItemCatchUp(t) \/ ItemStore(t)
  <2>1. PICK e, n, item : /\ process(ch, e, n, item)
                          /\ UNCHANGED <<slot, lastTs>> /\ inp[t].pc = "iloop"
    BY <1>8 DEF ItemCatchUp, ItemStore
  <2>2. \A c \in Channels \ {ch} : Kept(c)
    BY <1>0, <2>1 DEF process, Kept
  <2>3. QED  BY <1>2, <2>1, <2>2 DEF LockDiscipline
<1>9. QED  BY <1>4, <1>5, <1>6, <1>7, <1>8 DEF TimeoutStep, ItemStep

\* The core thread evicts from a channel only once, and gives up what it has
\* deferred only with the pop.
LEMMA CoreKeeps ==
  ASSUME TypeInv, LockDiscipline, RetireBegin \/ Evict \/ RetireCheck \/ RetirePop
  PROVE  Frozen
<1>1. CASE RetireBegin \/ RetireCheck
  BY <1>1 DEF RetireBegin, RetireCheck, chanVars, Frozen, Kept
<1>2. CASE Evict
  <2> DEFINE ch == core.ch
  <2>1. /\ ch \in Channels /\ mtx[ch] = Nobody /\ Nobody # Core
        /\ slot \in [Channels -> [Edefs -> Nat]]
        /\ acct \in [Channels -> [Edefs -> Seq(Entry)]]
        /\ deferred \in [Channels -> BOOLEAN]
    <3>1. mtx[ch] = Nobody
      BY <1>2 DEF Evict
    <3>2. QED  BY <3>1 DEF TypeInv, TypeOK, Entry, Nobody, Core
  <2>2. ~deferred[ch]
    BY <2>1 DEF LockDiscipline
  <2>3. PICK s, a, d : /\ slot' = [slot EXCEPT ![ch] = s]
                       /\ acct' = [acct EXCEPT ![ch] = a]
                       /\ deferred' = [deferred EXCEPT ![ch] = d]
                       /\ UNCHANGED lastTs
    BY <1>2 DEF Evict
  <2>4. QED  BY <2>1, <2>2, <2>3 DEF Frozen, Kept
<1>3. CASE RetirePop
  BY <1>3 DEF RetirePop, pop, Frozen, Kept
<1>4. QED  BY <1>1, <1>2, <1>3

\* Between a deferred eviction and the pop nothing reaches the channel: no
\* input thread can pick the retired pattern up again.
THEOREM DeferredStayFrozen == Spec => DeferredFrozen
<1>1. ASSUME TypeInv, LockDiscipline, [Next]_vars
      PROVE  [Frozen]_vars
  <2>1. CASE UNCHANGED vars
    BY <2>1
  <2>2. CASE (\E shape \in Shapes : PushTimingData(shape)) \/ UpdatePatternTimeStamp
    BY <2>2 DEF PushTimingData, UpdatePatternTimeStamp, chanVars, Frozen, Kept
  <2>3. QED
    BY <1>1, <2>1, <2>2, InputKeeps, CoreKeeps DEF Next, Other
<1>2. [Frozen]_vars => [\A ch \in Channels : deferred[ch] =>
       /\ slot'[ch] = slot[ch] /\ acct'[ch] = acct[ch] /\ lastTs'[ch] = lastTs[ch]
       /\ ~deferred'[ch] => head' = head + 1]_vars
  BY DEF Frozen, Kept
<1>3. Spec => []TypeInv
  BY InitTypes, NextTypes, PTL DEF Spec
<1>4. QED  BY <1>1, <1>2, <1>3, LocksHeld, PTL DEF Spec, DeferredFrozen

-----------------------------------------------------------------------------
(* Steps. *)

\* A step of input thread t, and of any but the core and the timing thread.
InputStep(t) ==
  \/ TimeoutBegin(t) \/ TimeoutLock(t) \/ TimeoutFlush(t) \/ TimeoutAdvance(t)
  \/ \E ch \in Channels, ts \in 1 .. MaxPulse : ItemBegin(t, ch, ts)
  \/ ItemLookup(t) \/ ItemTimedOut(t) \/ ItemEdef(t)
  \/ ItemCatchUp(t) \/ ItemStore(t) \/ ItemDone(t) \/ ItemPop(t)

LEMMA NextSteps ==
  ASSUME [Next]_vars
  PROVE  \/ UNCHANGED vars
         \/ \E shape \in Shapes : PushTimingData(shape)
         \/ UpdatePatternTimeStamp
         \/ RetireBegin \/ Evict \/ RetireCheck \/ RetirePop
         \/ \E t \in Threads : InputStep(t)
BY DEF Next, Other, TimeoutStep, ItemStep, InputStep

-----------------------------------------------------------------------------
(* Counting pointers. *)

One(a, n) == IF a = n THEN 1 ELSE 0

\* How many x of S are mapped to n.
Hits(f, S, n) == Cardinality({x \in S : f[x] = n})

\* The count changes with the one argument whose value changes.
LEMMA HitsChange ==
  ASSUME NEW S, IsFiniteSet(S), NEW f, NEW g, NEW a \in S, NEW n,
         \A x \in S \ {a} : g[x] = f[x]
  PROVE  /\ Hits(f, S, n) \in Nat /\ Hits(g, S, n) \in Nat
         /\ Hits(g, S, n) = Hits(f, S, n) + One(g[a], n) - One(f[a], n)
<1> DEFINE R == {x \in S \ {a} : f[x] = n}
           F == {x \in S : f[x] = n}
           G == {x \in S : g[x] = n}
<1>1. IsFiniteSet(R) /\ IsFiniteSet(F) /\ IsFiniteSet(G) /\ a \notin R
  BY FS_Subset
<1>2. Cardinality(R) \in Nat /\ Cardinality(R \cup {a}) = Cardinality(R) + 1
  BY <1>1, FS_CardinalityType, FS_AddElement
<1>3. F = (IF f[a] = n THEN R \cup {a} ELSE R) /\ G = (IF g[a] = n THEN R \cup {a} ELSE R)
  OBVIOUS
<1>4. Hits(f, S, n) = Cardinality(R) + One(f[a], n) /\ Hits(g, S, n) = Cardinality(R) + One(g[a], n)
  <2>1. Hits(f, S, n) = Cardinality(F) /\ Hits(g, S, n) = Cardinality(G)
    BY DEF Hits
  <2> HIDE DEF R, F, G
  <2>2. CASE f[a] = n
    BY <1>2, <1>3, <2>1, <2>2 DEF One
  <2>3. CASE f[a] # n
    BY <1>2, <1>3, <2>1, <2>3 DEF One
  <2>4. QED  BY <2>2, <2>3
<1> HIDE DEF R
<1>5. QED
  BY <1>2, <1>4 DEF One

SlotUses(n) == Cardinality({x \in Channels \X Edefs : slot[x[1]][x[2]] = n})
PatUses(n)  == Cardinality({t \in Threads : inp[t].pat = n})
PrevUses(n) == Cardinality({t \in Threads : inp[t].prev = n})

LEMMA Finite ==
  /\ IsFiniteSet(Channels) /\ IsFiniteSet(Threads) /\ IsFiniteSet(Channels \X Edefs)
<1>1. NumChannels - 1 \in Int /\ NumInpBufs - 1 \in Int
  BY CoreAssumption
<1>2. IsFiniteSet(Channels) /\ IsFiniteSet(Threads)
  BY <1>1, FS_Interval DEF Channels, Threads
<1>3. QED  BY <1>2, EdefsFinite, FS_Product

LEMMA UsesTypes ==
  ASSUME NEW n
  PROVE  /\ SlotUses(n) \in Nat /\ PatUses(n) \in Nat /\ PrevUses(n) \in Nat
         /\ Uses(n) = SlotUses(n) + PatUses(n) + PrevUses(n)
<1>1. /\ IsFiniteSet({x \in Channels \X Edefs : slot[x[1]][x[2]] = n})
      /\ IsFiniteSet({t \in Threads : inp[t].pat = n})
      /\ IsFiniteSet({t \in Threads : inp[t].prev = n})
  BY Finite, FS_Subset
<1>2. QED  BY <1>1, FS_CardinalityType DEF SlotUses, PatUses, PrevUses, Uses

\* Where nobody points, there are no uses.
LEMMA NoUses ==
  ASSUME NEW n
  PROVE  Uses(n) = 0 <=>
           /\ \A ch \in Channels, e \in Edefs : slot[ch][e] # n
           /\ \A t \in Threads : inp[t].pat # n /\ inp[t].prev # n
<1> DEFINE A == {x \in Channels \X Edefs : slot[x[1]][x[2]] = n}
           B == {t \in Threads : inp[t].pat = n}
           C == {t \in Threads : inp[t].prev = n}
<1>1. IsFiniteSet(A) /\ IsFiniteSet(B) /\ IsFiniteSet(C)
  BY Finite, FS_Subset
<1>2. /\ SlotUses(n) = 0 <=> A = {}
      /\ PatUses(n) = 0 <=> B = {}
      /\ PrevUses(n) = 0 <=> C = {}
  BY <1>1, FS_EmptySet DEF SlotUses, PatUses, PrevUses
<1>3. A = {} <=> \A ch \in Channels, e \in Edefs : slot[ch][e] # n
  <2>1. \A ch \in Channels, e \in Edefs : <<ch, e>>[1] = ch /\ <<ch, e>>[2] = e
    OBVIOUS
  <2>2. ASSUME A = {}, NEW ch \in Channels, NEW e \in Edefs
        PROVE  slot[ch][e] # n
    <3>1. <<ch, e>> \in Channels \X Edefs /\ <<ch, e>> \notin A
      BY <2>2
    <3>2. QED  BY <3>1
  <2>3. QED  BY <2>2
<1>4. Uses(n) = 0 <=> SlotUses(n) = 0 /\ PatUses(n) = 0 /\ PrevUses(n) = 0
  BY UsesTypes
<1>5. QED  BY <1>2, <1>3, <1>4

\* One slot is set.
LEMMA SlotChange ==
  ASSUME TypeOK, NEW ch \in Channels, NEW e \in Edefs, NEW v, NEW n,
         slot' = [slot EXCEPT ![ch][e] = v]
  PROVE  SlotUses(n)' = SlotUses(n) + One(v, n) - One(slot[ch][e], n)
<1> DEFINE S == Channels \X Edefs
           f == [x \in S |-> slot[x[1]][x[2]]]
           g == [x \in S |-> slot'[x[1]][x[2]]]
<1>1. slot \in [Channels -> [Edefs -> Nat]]
  BY DEF TypeOK
<1>2. <<ch, e>> \in S /\ f[<<ch, e>>] = slot[ch][e] /\ g[<<ch, e>>] = v
  BY <1>1
<1>3. ASSUME NEW x \in S, x # <<ch, e>>
      PROVE  g[x] = f[x]
  BY <1>1, <1>3
<1>4. Hits(g, S, n) = Hits(f, S, n) + One(v, n) - One(slot[ch][e], n)
  <2>1. IsFiniteSet(S)
    BY Finite
  <2>2. \A x \in S \ {<<ch, e>>} : g[x] = f[x]
    BY <1>3
  <2> HIDE DEF f, g, S
  <2>3. QED  BY <1>2, <2>1, <2>2, HitsChange
<1>5. SlotUses(n) = Hits(f, S, n) /\ SlotUses(n)' = Hits(g, S, n)
  BY DEF SlotUses, Hits
<1>6. QED  BY <1>4, <1>5

\* One thread's pointers are set.
LEMMA ThreadChange ==
  ASSUME NEW t \in Threads, NEW n, \A u \in Threads \ {t} : inp'[u] = inp[u]
  PROVE  /\ PatUses(n)' = PatUses(n) + One(inp'[t].pat, n) - One(inp[t].pat, n)
         /\ PrevUses(n)' = PrevUses(n) + One(inp'[t].prev, n) - One(inp[t].prev, n)
<1> DEFINE f == [u \in Threads |-> inp[u].pat]   g == [u \in Threads |-> inp'[u].pat]
           p == [u \in Threads |-> inp[u].prev]  q == [u \in Threads |-> inp'[u].prev]
<1>1. /\ f[t] = inp[t].pat /\ g[t] = inp'[t].pat /\ p[t] = inp[t].prev /\ q[t] = inp'[t].prev
      /\ \A u \in Threads \ {t} : g[u] = f[u] /\ q[u] = p[u]
  OBVIOUS
<1>2. /\ PatUses(n) = Hits(f, Threads, n) /\ PatUses(n)' = Hits(g, Threads, n)
      /\ PrevUses(n) = Hits(p, Threads, n) /\ PrevUses(n)' = Hits(q, Threads, n)
  BY DEF PatUses, PrevUses, Hits
<1>3. Hits(g, Threads, n) = Hits(f, Threads, n) + One(g[t], n) - One(f[t], n)
  <2>1. IsFiniteSet(Threads) /\ \A u \in Threads \ {t} : g[u] = f[u]
    BY <1>1, Finite
  <2> HIDE DEF f, g
  <2>2. QED  BY <2>1, HitsChange
<1>4. Hits(q, Threads, n) = Hits(p, Threads, n) + One(q[t], n) - One(p[t], n)
  <2>1. IsFiniteSet(Threads) /\ \A u \in Threads \ {t} : q[u] = p[u]
    BY <1>1, Finite
  <2> HIDE DEF p, q
  <2>2. QED  BY <2>1, HitsChange
<1>5. QED
  <2> HIDE DEF f, g, p, q
  <2>1. QED  BY <1>1, <1>2, <1>3, <1>4

\* What incRef and decRef do to the count of pattern m.
LEMMA RefCounts ==
  ASSUME NEW r \in Seq(Int), NEW n, NEW m \in 1 .. Len(r)
  PROVE  /\ incRef(r, n)[m] = r[m] + One(n, m) /\ decRef(r, n)[m] = r[m] - One(n, m)
         /\ r[m] \in Int
<1>1. r \in [1 .. Len(r) -> Int] /\ m # 0
  BY LenProperties, SeqDef
<1>2. r[m] \in Int
  BY <1>1
<1>3. CASE n = 0
  BY <1>1, <1>2, <1>3 DEF incRef, decRef, One
<1>4. CASE n # 0
  BY <1>1, <1>2, <1>4 DEF incRef, decRef, One
<1>5. QED  BY <1>2, <1>3, <1>4

-----------------------------------------------------------------------------
(* What each step of an input thread does, field by field.                 *)

Becomes(t, pc, ch, ts, todo, pat, prev) ==
  /\ inp'[t].pc = pc /\ inp'[t].ch = ch /\ inp'[t].ts = ts
  /\ inp'[t].todo = todo /\ inp'[t].pat = pat /\ inp'[t].prev = prev
  /\ \A u \in Threads \ {t} : inp'[u] = inp[u]

BecomesIdle(t) == Becomes(t, "idle", 0, 0, {}, 0, 0)
BecomesPopping(t) == Becomes(t, "ipop", 0, 0, {}, 0, 0)

LEMMA TimeoutBeginDoes ==
  ASSUME TypeInv, NEW t \in Threads, TimeoutBegin(t)
  PROVE  /\ Becomes(t, "tlock", t, lastTimeout[t], {}, 0, 0)
         /\ UNCHANGED <<windowVars, chanVars, core>>
  BY ThreadFacts DEF TimeoutBegin, Becomes, Idle

LEMMA TimeoutLockDoes ==
  ASSUME TypeInv, NEW t \in Threads, TimeoutLock(t)
  PROVE  LET ch == inp[t].ch IN
         /\ inp[t].pc = "tlock" /\ mtx[ch] = Nobody
         /\ UNCHANGED <<pats, head, core, deferred, slot, acct>>
         /\ \E e \in Edefs :
              /\ IsNext(e, Edefs)
              /\ Becomes(t, "tloop", ch, inp[t].ts, Edefs, inp[t].pat, NextPending(ch, e))
              /\ refc' = incRef(refc, NextPending(ch, e))
<1>1. inp \in [Threads -> ThreadState]
  BY ThreadFacts
<1>2. \A n : inp' = [inp EXCEPT ![t].pc = "tloop", ![t].todo = Edefs, ![t].prev = n]
             => Becomes(t, "tloop", inp[t].ch, inp[t].ts, Edefs, inp[t].pat, n)
  BY <1>1 DEF Becomes, ThreadState
<1>3. QED  BY <1>2 DEF TimeoutLock

LEMMA TimeoutFlushDoes ==
  ASSUME TypeInv, NEW t \in Threads, TimeoutFlush(t)
  PROVE  LET ch == inp[t].ch
             n  == inp[t].prev
         IN
         /\ inp[t].pc = "tloop" /\ Expired(t)
         /\ UNCHANGED <<pats, head, core, mtx, deferred>>
         /\ \E e \in Edefs :
              /\ IsNext(e, inp[t].todo)
              /\ process(ch, e, n, FALSE)
              /\ slot' = [slot EXCEPT ![ch][e] = n]
              /\ Becomes(t, "tloop", ch, inp[t].ts, inp[t].todo, inp[t].pat,
                         patternGetNext(n, e))
              /\ refc' = incRef(decRef(refc, slot[ch][e]), patternGetNext(n, e))
<1>1. inp \in [Threads -> ThreadState]
  BY ThreadFacts
<1>2. ASSUME inp[t].pc = "tloop", NEW m, inp' = [inp EXCEPT ![t].prev = m]
      PROVE  Becomes(t, "tloop", inp[t].ch, inp[t].ts, inp[t].todo, inp[t].pat, m)
  BY <1>1, <1>2 DEF Becomes, ThreadState
<1>3. QED  BY <1>2 DEF TimeoutFlush

LEMMA TimeoutAdvanceDoes ==
  ASSUME TypeInv, NEW t \in Threads, TimeoutAdvance(t)
  PROVE  LET ch == inp[t].ch
             r  == decRef(refc, inp[t].prev)
         IN
         /\ inp[t].pc = "tloop" /\ ~Expired(t)
         /\ UNCHANGED <<pats, head, core, deferred, slot, acct>>
         /\ \E e \in Edefs :
              /\ IsNext(e, inp[t].todo)
              /\ \/ \E f \in Edefs :
                      /\ IsNext(f, inp[t].todo \ {e})
                      /\ Becomes(t, "tloop", ch, inp[t].ts, inp[t].todo \ {e}, inp[t].pat,
                                 NextPending(ch, f))
                      /\ refc' = incRef(r, NextPending(ch, f))
                      /\ UNCHANGED mtx
                 \/ /\ inp[t].todo = {e}
                    /\ \/ Becomes(t, "tlock", ch + NumInpBufs, inp[t].ts, {}, 0, 0)
                       \/ BecomesIdle(t)
                    /\ refc' = r
                    /\ mtx' = [mtx EXCEPT ![ch] = Nobody]
<1>1. inp \in [Threads -> ThreadState]
  BY ThreadFacts
<1>2. ASSUME inp[t].pc = "tloop", NEW S, NEW n,
             inp' = [inp EXCEPT ![t].todo = S, ![t].prev = n]
      PROVE  Becomes(t, "tloop", inp[t].ch, inp[t].ts, S, inp[t].pat, n)
  BY <1>1, <1>2 DEF Becomes, ThreadState
<1>3. ASSUME inp' = [inp EXCEPT ![t] =
                  IF HasChannel(inp[t].ch + NumInpBufs)
                    THEN [Idle EXCEPT !.pc = "tlock", !.ch = inp[t].ch + NumInpBufs,
                                      !.ts = inp[t].ts]
                    ELSE Idle]
      PROVE  \/ Becomes(t, "tlock", inp[t].ch + NumInpBufs, inp[t].ts, {}, 0, 0)
             \/ BecomesIdle(t)
  BY <1>1, <1>3 DEF Becomes, BecomesIdle, Idle
<1>4. QED  BY <1>2, <1>3 DEF TimeoutAdvance

LEMMA ItemBeginDoes ==
  ASSUME TypeInv, NEW t \in Threads, NEW ch, NEW ts, ItemBegin(t, ch, ts)
  PROVE  /\ Becomes(t, "ilock", ch, ts, {}, 0, 0)
         /\ UNCHANGED <<windowVars, chanVars, core>>
  BY ThreadFacts DEF ItemBegin, Becomes, Idle

LEMMA ItemLookupDoes ==
  ASSUME TypeInv, NEW t \in Threads, ItemLookup(t)
  PROVE  LET ch == inp[t].ch
             n  == patternGet(inp[t].ts)
         IN
         /\ inp[t].pc = "ilock" /\ mtx[ch] = Nobody
         /\ UNCHANGED <<pats, head, core, deferred, slot, acct>>
         /\ \/ BecomesPopping(t) /\ UNCHANGED <<refc, mtx>>
            \/ /\ n # 0
               /\ Becomes(t, "iedef", ch, inp[t].ts, pats[n].act, n, inp[t].prev)
               /\ refc' = incRef(refc, n)
               /\ mtx' = [mtx EXCEPT ![ch] = t]
<1>1. inp \in [Threads -> ThreadState]
  BY ThreadFacts
<1>2. ASSUME NEW S, NEW n,
             inp' = [inp EXCEPT ![t].pc = "iedef", ![t].pat = n, ![t].todo = S]
      PROVE  Becomes(t, "iedef", inp[t].ch, inp[t].ts, S, n, inp[t].prev)
  BY <1>1, <1>2 DEF Becomes, ThreadState
<1>3. ASSUME inp' = [inp EXCEPT ![t] = Popping]
      PROVE  BecomesPopping(t)
  BY <1>1, <1>3 DEF Becomes, BecomesPopping, Idle, Popping
<1>4. QED  BY <1>2, <1>3 DEF ItemLookup

LEMMA ItemTimedOutDoes ==
  ASSUME TypeInv, NEW t \in Threads, ItemTimedOut(t)
  PROVE  LET ch == inp[t].ch IN
         /\ inp[t].pc = "iedef"
         /\ UNCHANGED <<windowVars, chanVars, core>>
         /\ \E e \in Edefs :
              /\ IsNext(e, inp[t].todo)
              /\ TimedOut(ch, e, inp[t].ts)
              /\ Becomes(t, "iedef", ch, inp[t].ts, inp[t].todo \ {e}, inp[t].pat,
                         inp[t].prev)
<1>1. inp \in [Threads -> ThreadState]
  BY ThreadFacts
<1>2. ASSUME inp[t].pc = "iedef", NEW S, inp' = [inp EXCEPT ![t].todo = S]
      PROVE  Becomes(t, "iedef", inp[t].ch, inp[t].ts, S, inp[t].pat, inp[t].prev)
  BY <1>1, <1>2 DEF Becomes, ThreadState
<1>3. QED  BY <1>2 DEF ItemTimedOut

LEMMA ItemEdefDoes ==
  ASSUME TypeInv, NEW t \in Threads, ItemEdef(t)
  PROVE  LET ch == inp[t].ch IN
         /\ inp[t].pc = "iedef"
         /\ UNCHANGED <<pats, head, core, deferred, acct>>
         /\ \E e \in Edefs :
              LET n == NextPending(ch, e) IN
              /\ IsNext(e, inp[t].todo)
              /\ ~TimedOut(ch, e, inp[t].ts)
              /\ slot' = [slot EXCEPT ![ch][e] = inp[t].pat]
              /\ refc' = incRef(decRef(incRef(refc, n), slot[ch][e]), inp[t].pat)
              /\ \/ n = 0 /\ BecomesPopping(t) /\ mtx' = [mtx EXCEPT ![ch] = Nobody]
                 \/ /\ n # 0
                    /\ Becomes(t, "iloop", ch, inp[t].ts, inp[t].todo, inp[t].pat, n)
                    /\ mtx' = [mtx EXCEPT ![ch] = @]
<1>1. inp \in [Threads -> ThreadState]
  BY ThreadFacts
<1>2. ASSUME NEW n, n # 0,
             inp' = [inp EXCEPT ![t] =
               IF n = 0 THEN Popping ELSE [@ EXCEPT !.pc = "iloop", !.prev = n]]
      PROVE  Becomes(t, "iloop", inp[t].ch, inp[t].ts, inp[t].todo, inp[t].pat, n)
  BY <1>1, <1>2 DEF Becomes, ThreadState
<1>3. ASSUME NEW n, n = 0,
             inp' = [inp EXCEPT ![t] =
               IF n = 0 THEN Popping ELSE [@ EXCEPT !.pc = "iloop", !.prev = n]]
      PROVE  BecomesPopping(t)
  BY <1>1, <1>3 DEF BecomesPopping, Becomes, Idle, Popping
<1>4. PICK e \in Edefs :
        LET n == NextPending(inp[t].ch, e) IN
        /\ IsNext(e, inp[t].todo)
        /\ ~TimedOut(inp[t].ch, e, inp[t].ts)
        /\ slot' = [slot EXCEPT ![inp[t].ch][e] = inp[t].pat]
        /\ refc' = incRef(decRef(incRef(refc, n), slot[inp[t].ch][e]), inp[t].pat)
        /\ inp' = [inp EXCEPT ![t] =
             IF n = 0 THEN Popping ELSE [@ EXCEPT !.pc = "iloop", !.prev = n]]
        /\ mtx' = [mtx EXCEPT ![inp[t].ch] = IF n = 0 THEN Nobody ELSE @]
  BY DEF ItemEdef
<1> DEFINE n == NextPending(inp[t].ch, e)
<1>5. CASE n = 0
  <2>1. BecomesPopping(t) /\ mtx' = [mtx EXCEPT ![inp[t].ch] = Nobody]
    BY <1>3, <1>4, <1>5
  <2>2. QED  BY <1>4, <1>5, <2>1 DEF ItemEdef
<1>6. CASE n # 0
  <2>1. /\ Becomes(t, "iloop", inp[t].ch, inp[t].ts, inp[t].todo, inp[t].pat, n)
        /\ mtx' = [mtx EXCEPT ![inp[t].ch] = @]
    BY <1>2, <1>4, <1>6
  <2>2. QED  BY <1>4, <1>6, <2>1 DEF ItemEdef
<1>7. QED  BY <1>5, <1>6

LEMMA ItemCatchUpDoes ==
  ASSUME TypeInv, NEW t \in Threads, ItemCatchUp(t)
  PROVE  LET ch == inp[t].ch
             n  == inp[t].prev
         IN
         /\ inp[t].pc = "iloop" /\ n # inp[t].pat
         /\ UNCHANGED <<pats, head, core, deferred, slot>>
         /\ \E e \in Edefs :
              LET next == patternGetNext(n, e) IN
              /\ IsNext(e, inp[t].todo)
              /\ process(ch, e, n, FALSE)
              /\ refc' = decRef(incRef(refc, next), n)
              /\ \/ next = 0 /\ BecomesPopping(t) /\ mtx' = [mtx EXCEPT ![ch] = Nobody]
                 \/ /\ next # 0
                    /\ Becomes(t, "iloop", ch, inp[t].ts, inp[t].todo, inp[t].pat, next)
                    /\ mtx' = [mtx EXCEPT ![ch] = @]
<1>1. inp \in [Threads -> ThreadState]
  BY ThreadFacts
<1>2. ASSUME inp[t].pc = "iloop", NEW next, next # 0,
             inp' = [inp EXCEPT ![t] = IF next = 0 THEN Popping ELSE [@ EXCEPT !.prev = next]]
      PROVE  Becomes(t, "iloop", inp[t].ch, inp[t].ts, inp[t].todo, inp[t].pat, next)
  BY <1>1, <1>2 DEF Becomes, ThreadState
<1>3. ASSUME NEW next, next = 0,
             inp' = [inp EXCEPT ![t] = IF next = 0 THEN Popping ELSE [@ EXCEPT !.prev = next]]
      PROVE  BecomesPopping(t)
  BY <1>1, <1>3 DEF BecomesPopping, Becomes, Idle, Popping
<1>4. PICK e \in Edefs :
        LET next == patternGetNext(inp[t].prev, e) IN
        /\ IsNext(e, inp[t].todo)
        /\ process(inp[t].ch, e, inp[t].prev, FALSE)
        /\ refc' = decRef(incRef(refc, next), inp[t].prev)
        /\ inp' = [inp EXCEPT ![t] = IF next = 0 THEN Popping ELSE [@ EXCEPT !.prev = next]]
        /\ mtx' = [mtx EXCEPT ![inp[t].ch] = IF next = 0 THEN Nobody ELSE @]
  BY DEF ItemCatchUp
<1> DEFINE next == patternGetNext(inp[t].prev, e)
<1>5. inp[t].pc = "iloop" /\ inp[t].prev # inp[t].pat
      /\ UNCHANGED <<pats, head, core, deferred, slot>>
  BY DEF ItemCatchUp
<1>6. CASE next = 0
  <2>1. BecomesPopping(t) /\ mtx' = [mtx EXCEPT ![inp[t].ch] = Nobody]
    BY <1>3, <1>4, <1>6
  <2>2. QED  BY <1>4, <1>5, <1>6, <2>1
<1>7. CASE next # 0
  <2>1. /\ Becomes(t, "iloop", inp[t].ch, inp[t].ts, inp[t].todo, inp[t].pat, next)
        /\ mtx' = [mtx EXCEPT ![inp[t].ch] = @]
    BY <1>2, <1>4, <1>5, <1>7
  <2>2. QED  BY <1>4, <1>5, <1>7, <2>1
<1>8. QED  BY <1>6, <1>7

LEMMA ItemStoreDoes ==
  ASSUME TypeInv, NEW t \in Threads, ItemStore(t)
  PROVE  LET ch == inp[t].ch IN
         /\ inp[t].pc = "iloop" /\ inp[t].prev = inp[t].pat
         /\ UNCHANGED <<pats, head, core, mtx, deferred, slot>>
         /\ refc' = decRef(refc, inp[t].prev)
         /\ \E e \in Edefs :
              /\ IsNext(e, inp[t].todo)
              /\ process(ch, e, inp[t].pat, TRUE)
              /\ Becomes(t, "iedef", ch, inp[t].ts, inp[t].todo \ {e}, inp[t].pat, 0)
<1>1. inp \in [Threads -> ThreadState]
  BY ThreadFacts
<1>2. ASSUME NEW S, inp' = [inp EXCEPT ![t].pc = "iedef", ![t].todo = S, ![t].prev = 0]
      PROVE  Becomes(t, "iedef", inp[t].ch, inp[t].ts, S, inp[t].pat, 0)
  BY <1>1, <1>2 DEF Becomes, ThreadState
<1>3. QED  BY <1>2 DEF ItemStore

LEMMA ItemDoneDoes ==
  ASSUME TypeInv, NEW t \in Threads, ItemDone(t)
  PROVE  /\ inp[t].pc = "iedef" /\ inp[t].todo = {} /\ BecomesPopping(t)
         /\ UNCHANGED <<pats, head, core, deferred, slot, acct>>
         /\ refc' = decRef(refc, inp[t].pat)
         /\ mtx' = [mtx EXCEPT ![inp[t].ch] = Nobody]
  BY ThreadFacts DEF ItemDone, Becomes, BecomesPopping, Idle, Popping

LEMMA ItemPopDoes ==
  ASSUME TypeInv, NEW t \in Threads, ItemPop(t)
  PROVE  /\ inp[t].pc = "ipop" /\ BecomesIdle(t)
         /\ UNCHANGED <<windowVars, core, mtx, deferred, slot, lastTs, acct>>
  BY ThreadFacts DEF ItemPop, Becomes, BecomesIdle, Idle, windowVars, chanVars

-----------------------------------------------------------------------------
(* Which references a thread holds, by where it is. *)

Holds(t) ==
  /\ inp[t].pc \in {"idle", "tlock", "ilock", "ipop"} => inp[t].pat = 0 /\ inp[t].prev = 0
  /\ inp[t].pc = "tloop" => inp[t].pat = 0 /\ inp[t].todo # {}
  /\ inp[t].pc = "iedef" => inp[t].pat # 0 /\ inp[t].prev = 0
  /\ inp[t].pc = "iloop" => inp[t].pat # 0 /\ inp[t].prev # 0

Holdings == \A t \in Threads : Holds(t)

LEMMA InputHolds ==
  ASSUME TypeInv, Holdings, NEW t \in Threads, InputStep(t)
  PROVE  Holdings'
<1>0. Holds(t)
  BY DEF Holdings
<1>1. SUFFICES Holds(t)' /\ \A u \in Threads \ {t} : inp'[u] = inp[u]
  BY DEF Holdings, Holds
<1>2. CASE TimeoutBegin(t)
  BY <1>2, TimeoutBeginDoes DEF Becomes, Holds
<1>3. CASE TimeoutLock(t)
  BY <1>0, <1>3, TimeoutLockDoes DEF Becomes, Holds, IsNext
<1>4. CASE TimeoutFlush(t)
  BY <1>0, <1>4, TimeoutFlushDoes DEF Becomes, Holds
<1>5. CASE TimeoutAdvance(t)
  BY <1>0, <1>5, TimeoutAdvanceDoes DEF Becomes, BecomesIdle, Holds, IsNext
<1>6. CASE \E ch \in Channels, ts \in 1 .. MaxPulse : ItemBegin(t, ch, ts)
  BY <1>6, ItemBeginDoes DEF Becomes, Holds
<1>7. CASE ItemLookup(t)
  BY <1>0, <1>7, ItemLookupDoes DEF Becomes, BecomesPopping, Holds
<1>8. CASE ItemTimedOut(t)
  BY <1>0, <1>8, ItemTimedOutDoes DEF Becomes, Holds
<1>9. CASE ItemEdef(t)
  BY <1>0, <1>9, ItemEdefDoes DEF Becomes, BecomesPopping, Holds
<1>10. CASE ItemCatchUp(t)
  BY <1>0, <1>10, ItemCatchUpDoes DEF Becomes, BecomesPopping, Holds
<1>11. CASE ItemStore(t)
  BY <1>0, <1>11, ItemStoreDoes DEF Becomes, Holds
<1>12. CASE ItemDone(t)
  BY <1>12, ItemDoneDoes DEF Becomes, BecomesPopping, Holds
<1>13. CASE ItemPop(t)
  BY <1>13, ItemPopDoes DEF Becomes, BecomesIdle, Holds
<1>14. QED
  BY <1>2, <1>3, <1>4, <1>5, <1>6, <1>7, <1>8, <1>9, <1>10, <1>11, <1>12, <1>13 DEF InputStep

\* The other threads leave the input threads alone.
LEMMA OthersLeaveInput ==
  ASSUME UNCHANGED vars \/ (\E shape \in Shapes : PushTimingData(shape))
         \/ UpdatePatternTimeStamp \/ RetireBegin \/ Evict \/ RetireCheck \/ RetirePop
  PROVE  UNCHANGED inp
  BY DEF vars, PushTimingData, UpdatePatternTimeStamp, RetireBegin, Evict, RetireCheck,
         RetirePop

LEMMA NextHolds ==
  ASSUME TypeInv, Holdings, [Next]_vars
  PROVE  Holdings'
<1>1. CASE UNCHANGED inp
  BY <1>1 DEF Holdings, Holds
<1>2. QED  BY <1>1, NextSteps, InputHolds, OthersLeaveInput

-----------------------------------------------------------------------------
(* References and pointers keep step with each other. *)

\* An exception is about to lose the reference to the item's pattern.
Leaks(t) ==
  \E e \in Edefs :
    /\ IsNext(e, inp[t].todo)
    /\ \/ /\ inp[t].pc = "iedef" /\ ~TimedOut(inp[t].ch, e, inp[t].ts)
          /\ NextPending(inp[t].ch, e) = 0
       \/ /\ inp[t].pc = "iloop" /\ inp[t].prev # inp[t].pat
          /\ patternGetNext(inp[t].prev, e) = 0

\* How many references to pattern m nobody accounts for.
Surplus(m) == refc[m] - Uses(m)

LEMMA OneInt ==
  ASSUME NEW a, NEW n
  PROVE  One(a, n) \in Int
  BY DEF One

\* What updates of the counts do to the count of one pattern.
LEMMA RefUpdate ==
  ASSUME NEW r \in Seq(Int), NEW m \in 1 .. Len(r)
  PROVE  /\ r[m] \in Int /\ One(0, m) = 0
         /\ \A a : incRef(r, a)[m] = r[m] + One(a, m)
         /\ \A a : decRef(r, a)[m] = r[m] - One(a, m)
<1>1. \A a : incRef(r, a)[m] = r[m] + One(a, m) /\ decRef(r, a)[m] = r[m] - One(a, m)
  BY RefCounts
<1>2. m # 0 /\ r[m] \in Int
  BY LenProperties, RefCounts
<1>3. One(0, m) = 0
  BY <1>2 DEF One
<1>4. QED  BY <1>1, <1>2, <1>3

LEMMA RefUpdates ==
  ASSUME NEW r \in Seq(Int), NEW m \in 1 .. Len(r), NEW a, NEW b
  PROVE  /\ incRef(decRef(r, a), b)[m] = r[m] - One(a, m) + One(b, m)
         /\ decRef(incRef(r, a), b)[m] = r[m] + One(a, m) - One(b, m)
<1>1. /\ incRef(r, a) \in Seq(Int) /\ Len(incRef(r, a)) = Len(r)
      /\ decRef(r, a) \in Seq(Int) /\ Len(decRef(r, a)) = Len(r)
  BY RefTypes
<1>2. /\ incRef(decRef(r, a), b)[m] = decRef(r, a)[m] + One(b, m)
      /\ decRef(incRef(r, a), b)[m] = incRef(r, a)[m] - One(b, m)
  BY <1>1, RefCounts
<1>3. incRef(r, a)[m] = r[m] + One(a, m) /\ decRef(r, a)[m] = r[m] - One(a, m)
  BY RefCounts
<1>4. QED  BY <1>2, <1>3, OneInt, RefUpdate

LEMMA InputSurplus ==
  ASSUME TypeInv, Holdings, NEW t \in Threads, InputStep(t), NEW m \in 1 .. Len(refc)
  PROVE  \/ Surplus(m)' = Surplus(m)
         \/ Leaks(t) /\ Surplus(m)' = Surplus(m) + One(inp[t].pat, m)
<1> DEFINE ch == inp[t].ch
<1>0. Holds(t) /\ TypeOK /\ refc \in Seq(Int) /\ ch \in Channels
  BY ThreadFacts DEF Holdings, TypeInv
<1>1. (\A u \in Threads \ {t} : inp'[u] = inp[u])
      => /\ PatUses(m)' = PatUses(m) + One(inp'[t].pat, m) - One(inp[t].pat, m)
         /\ PrevUses(m)' = PrevUses(m) + One(inp'[t].prev, m) - One(inp[t].prev, m)
  BY ThreadChange
<1>2. UNCHANGED slot => SlotUses(m)' = SlotUses(m)
  BY DEF SlotUses
<1>3. /\ SlotUses(m) \in Nat /\ PatUses(m) \in Nat /\ PrevUses(m) \in Nat
      /\ Surplus(m) = refc[m] - (SlotUses(m) + PatUses(m) + PrevUses(m))
      /\ Surplus(m)' = refc'[m] - (SlotUses(m)' + PatUses(m)' + PrevUses(m)')
  BY UsesTypes DEF Surplus, Uses, SlotUses, PatUses, PrevUses
<1>4. refc[m] \in Int /\ One(0, m) = 0
  BY <1>0, RefUpdate
<1>a. \A a : incRef(refc, a)[m] = refc[m] + One(a, m)
             /\ decRef(refc, a)[m] = refc[m] - One(a, m)
  BY <1>0, RefUpdate
<1>b. \A a, b : incRef(decRef(refc, a), b)[m] = refc[m] - One(a, m) + One(b, m)
  BY <1>0, RefUpdates
<1>c. \A a, b : decRef(incRef(refc, a), b)[m] = refc[m] + One(a, m) - One(b, m)
  BY <1>0, RefUpdates
<1>d. \A a, b, c : incRef(decRef(incRef(refc, a), b), c)[m]
                     = refc[m] + One(a, m) - One(b, m) + One(c, m)
  <2>1. ASSUME NEW a, NEW b, NEW c
        PROVE  incRef(decRef(incRef(refc, a), b), c)[m]
                 = refc[m] + One(a, m) - One(b, m) + One(c, m)
    <3>1. /\ decRef(incRef(refc, a), b) \in Seq(Int)
          /\ Len(decRef(incRef(refc, a), b)) = Len(refc)
      BY <1>0, RefTypes
    <3>2. incRef(decRef(incRef(refc, a), b), c)[m]
            = decRef(incRef(refc, a), b)[m] + One(c, m)
      BY <3>1, RefCounts
    <3>3. QED  BY <3>2, <1>c
  <2>2. QED  BY <2>1
<1> DEFINE pt == inp[t].pat   pv == inp[t].prev
<1>5. CASE TimeoutBegin(t) \/ \E c \in Channels, ts \in 1 .. MaxPulse : ItemBegin(t, c, ts)
  <2>1. /\ UNCHANGED <<slot, refc>> /\ \A u \in Threads \ {t} : inp'[u] = inp[u]
        /\ inp'[t].pat = 0 /\ inp'[t].prev = 0 /\ pt = 0 /\ pv = 0
    <3>1. CASE TimeoutBegin(t)
      <4>1. inp[t].pc = "idle"
        BY <3>1 DEF TimeoutBegin
      <4>2. QED
        BY <1>0, <3>1, <4>1, TimeoutBeginDoes DEF Becomes, Holds, windowVars, chanVars
    <3>2. CASE \E c \in Channels, ts \in 1 .. MaxPulse : ItemBegin(t, c, ts)
      <4>1. inp[t].pc \in {"idle", "ipop"}
        BY <3>2 DEF ItemBegin
      <4>2. QED
        BY <1>0, <3>2, <4>1, ItemBeginDoes DEF Becomes, Holds, windowVars, chanVars
    <3>3. QED  BY <1>5, <3>1, <3>2
  <2>2. /\ PatUses(m)' = PatUses(m) /\ PrevUses(m)' = PrevUses(m)
        /\ SlotUses(m)' = SlotUses(m)
    BY <1>1, <1>2, <1>3, <1>4, <2>1, OneInt
  <2>3. QED  BY <1>3, <1>4, <2>1, <2>2
<1>6. CASE TimeoutLock(t)
  <2>1. PICK n : /\ Becomes(t, "tloop", ch, inp[t].ts, Edefs, pt, n)
                 /\ refc' = incRef(refc, n) /\ UNCHANGED slot
                 /\ pt = 0 /\ pv = 0
    BY <1>0, <1>6, TimeoutLockDoes DEF Holds
  <2>2. refc'[m] = refc[m] + One(n, m)
    BY <1>a, <2>1
  <2>3. /\ PatUses(m)' = PatUses(m)
        /\ PrevUses(m)' = PrevUses(m) + One(n, m) /\ SlotUses(m)' = SlotUses(m)
    BY <1>1, <1>2, <1>3, <1>4, <2>1, OneInt DEF Becomes
  <2>4. QED  BY <1>3, <1>4, <2>2, <2>3, OneInt
<1>7. CASE TimeoutFlush(t)
  <2>1. PICK e, n :
          /\ e \in Edefs /\ Becomes(t, "tloop", ch, inp[t].ts, inp[t].todo, pt, n)
          /\ slot' = [slot EXCEPT ![ch][e] = pv]
          /\ refc' = incRef(decRef(refc, slot[ch][e]), n)
    BY <1>7, TimeoutFlushDoes
  <2>2. refc'[m] = refc[m] - One(slot[ch][e], m) + One(n, m)
    BY <1>b, <2>1
  <2>3. /\ PatUses(m)' = PatUses(m)
        /\ PrevUses(m)' = PrevUses(m) + One(n, m) - One(pv, m)
    BY <1>1, <1>3, <1>4, <2>1, OneInt DEF Becomes
  <2>4. SlotUses(m)' = SlotUses(m) + One(pv, m) - One(slot[ch][e], m)
    BY <1>0, <2>1, SlotChange
  <2>5. QED  BY <1>3, <1>4, <2>2, <2>3, <2>4, OneInt
<1>8. CASE TimeoutAdvance(t)
  <2>1. PICK n : /\ \/ /\ refc' = incRef(decRef(refc, pv), n)
                       /\ inp'[t].pat = pt /\ inp'[t].prev = n
                    \/ /\ refc' = decRef(refc, pv) /\ n = 0
                       /\ inp'[t].pat = 0 /\ inp'[t].prev = 0
                 /\ UNCHANGED slot /\ \A u \in Threads \ {t} : inp'[u] = inp[u]
                 /\ pt = 0
    BY <1>0, <1>8, TimeoutAdvanceDoes DEF Becomes, BecomesIdle, Holds
  <2>2. refc'[m] = refc[m] - One(pv, m) + One(n, m)
    BY <1>4, <1>a, <1>b, <2>1, OneInt
  <2>3. /\ PatUses(m)' = PatUses(m)
        /\ PrevUses(m)' = PrevUses(m) + One(n, m) - One(pv, m)
        /\ SlotUses(m)' = SlotUses(m)
    <3>1. /\ PatUses(m)' = PatUses(m) + One(0, m) - One(0, m)
          /\ PrevUses(m)' = PrevUses(m) + One(n, m) - One(pv, m)
      BY <1>1, <2>1
    <3>2. QED  BY <1>2, <1>3, <1>4, <2>1, <3>1
  <2>4. QED  BY <1>3, <1>4, <2>2, <2>3, OneInt
<1>9. CASE ItemLookup(t)
  <2>1. PICK n : /\ UNCHANGED slot /\ \A u \in Threads \ {t} : inp'[u] = inp[u]
                 /\ pt = 0 /\ pv = 0 /\ inp'[t].pat = n /\ inp'[t].prev = 0
                 /\ \/ UNCHANGED refc /\ n = 0
                    \/ refc' = incRef(refc, n)
    BY <1>0, <1>9, ItemLookupDoes DEF Becomes, BecomesPopping, Holds
  <2>2. refc'[m] = refc[m] + One(n, m)
    BY <1>4, <1>a, <2>1, OneInt
  <2>3. /\ PatUses(m)' = PatUses(m) + One(n, m) /\ PrevUses(m)' = PrevUses(m)
        /\ SlotUses(m)' = SlotUses(m)
    <3>1. /\ PatUses(m)' = PatUses(m) + One(n, m) - One(0, m)
          /\ PrevUses(m)' = PrevUses(m) + One(0, m) - One(0, m)
      BY <1>1, <2>1
    <3>2. QED  BY <1>2, <1>3, <1>4, <2>1, <3>1, OneInt
  <2>4. QED  BY <1>3, <1>4, <2>2, <2>3, OneInt
<1>10. CASE ItemTimedOut(t)
  <2>1. /\ UNCHANGED <<slot, refc>> /\ \A u \in Threads \ {t} : inp'[u] = inp[u]
        /\ inp'[t].pat = pt /\ inp'[t].prev = pv
    BY <1>10, ItemTimedOutDoes DEF Becomes, windowVars, chanVars
  <2>2. /\ PatUses(m)' = PatUses(m) /\ PrevUses(m)' = PrevUses(m)
        /\ SlotUses(m)' = SlotUses(m)
    BY <1>1, <1>2, <1>3, <1>4, <2>1, OneInt
  <2>3. QED  BY <1>3, <1>4, <2>1, <2>2, OneInt
<1>11. CASE ItemEdef(t)
  <2>1. PICK e \in Edefs :
          LET n == NextPending(ch, e) IN
          /\ inp[t].pc = "iedef" /\ IsNext(e, inp[t].todo) /\ ~TimedOut(ch, e, inp[t].ts)
          /\ slot' = [slot EXCEPT ![ch][e] = pt]
          /\ refc' = incRef(decRef(incRef(refc, n), slot[ch][e]), pt)
          /\ \/ n = 0 /\ BecomesPopping(t)
             \/ n # 0 /\ Becomes(t, "iloop", ch, inp[t].ts, inp[t].todo, pt, n)
    BY <1>11, ItemEdefDoes
  <2> DEFINE n == NextPending(ch, e)
  <2>2. refc'[m] = refc[m] + One(n, m) - One(slot[ch][e], m) + One(pt, m)
    BY <1>d, <2>1
  <2>3. SlotUses(m)' = SlotUses(m) + One(pt, m) - One(slot[ch][e], m) /\ pv = 0
    BY <1>0, <2>1, SlotChange DEF Holds
  <2>4. CASE n = 0
    <3>1. Leaks(t)
      BY <2>1, <2>4 DEF Leaks
    <3>2. PatUses(m)' = PatUses(m) - One(pt, m) /\ PrevUses(m)' = PrevUses(m)
      <4>1. /\ \A u \in Threads \ {t} : inp'[u] = inp[u]
            /\ inp'[t].pat = 0 /\ inp'[t].prev = 0
        BY <2>1, <2>4 DEF BecomesPopping, Becomes
      <4>2. QED  BY <1>1, <1>3, <1>4, <2>3, <4>1, OneInt
    <3>3. refc'[m] = refc[m] - One(slot[ch][e], m) + One(pt, m)
      <4>1. One(n, m) = 0
        BY <1>4, <2>4
      <4> HIDE DEF n
      <4>2. QED  BY <1>4, <2>2, <4>1, OneInt
    <3>4. Surplus(m)' = Surplus(m) + One(pt, m)
      <4> HIDE DEF n, pt, pv, ch
      <4>1. QED  BY <1>3, <1>4, <2>3, <3>2, <3>3, OneInt
    <3>5. QED  BY <3>1, <3>4
  <2>5. CASE n # 0
    <3>1. PatUses(m)' = PatUses(m) /\ PrevUses(m)' = PrevUses(m) + One(n, m)
      BY <1>1, <1>3, <1>4, <2>1, <2>3, <2>5, OneInt DEF Becomes
    <3> HIDE DEF n
    <3>2. QED  BY <1>3, <1>4, <2>2, <2>3, <3>1, OneInt
  <2>6. QED  BY <2>4, <2>5
<1>12. CASE ItemCatchUp(t)
  <2>1. PICK e \in Edefs :
          LET next == patternGetNext(pv, e) IN
          /\ inp[t].pc = "iloop" /\ IsNext(e, inp[t].todo) /\ pv # pt
          /\ UNCHANGED slot
          /\ refc' = decRef(incRef(refc, next), pv)
          /\ \/ next = 0 /\ BecomesPopping(t)
             \/ next # 0 /\ Becomes(t, "iloop", ch, inp[t].ts, inp[t].todo, pt, next)
    BY <1>12, ItemCatchUpDoes
  <2> DEFINE next == patternGetNext(pv, e)
  <2>2. refc'[m] = refc[m] + One(next, m) - One(pv, m)
    BY <1>c, <2>1
  <2>3. SlotUses(m)' = SlotUses(m)
    BY <1>2, <2>1
  <2>4. CASE next = 0
    <3>1. Leaks(t)
      BY <2>1, <2>4 DEF Leaks
    <3>2. /\ PatUses(m)' = PatUses(m) - One(pt, m)
          /\ PrevUses(m)' = PrevUses(m) - One(pv, m)
      <4>1. /\ \A u \in Threads \ {t} : inp'[u] = inp[u]
            /\ inp'[t].pat = 0 /\ inp'[t].prev = 0
        BY <2>1, <2>4 DEF BecomesPopping, Becomes
      <4>2. QED  BY <1>1, <1>3, <1>4, <4>1, OneInt
    <3>3. One(next, m) = 0
      BY <1>4, <2>4
    <3> HIDE DEF next
    <3>4. QED  BY <1>3, <1>4, <2>2, <2>3, <3>1, <3>2, <3>3, OneInt
  <2>5. CASE next # 0
    <3>1. /\ PatUses(m)' = PatUses(m)
          /\ PrevUses(m)' = PrevUses(m) + One(next, m) - One(pv, m)
      BY <1>1, <1>3, <1>4, <2>1, <2>5, OneInt DEF Becomes
    <3> HIDE DEF next
    <3>2. QED  BY <1>3, <1>4, <2>2, <2>3, <3>1, OneInt
  <2>6. QED  BY <2>4, <2>5
<1>13. CASE ItemStore(t)
  <2>1. /\ UNCHANGED slot /\ refc' = decRef(refc, pv)
        /\ \A u \in Threads \ {t} : inp'[u] = inp[u]
        /\ inp'[t].pat = pt /\ inp'[t].prev = 0
    BY <1>13, ItemStoreDoes DEF Becomes
  <2>2. refc'[m] = refc[m] - One(pv, m)
    BY <1>a, <2>1
  <2>3. /\ PatUses(m)' = PatUses(m) /\ PrevUses(m)' = PrevUses(m) - One(pv, m)
        /\ SlotUses(m)' = SlotUses(m)
    BY <1>1, <1>2, <1>3, <1>4, <2>1, OneInt
  <2>4. QED  BY <1>3, <1>4, <2>2, <2>3, OneInt
<1>14. CASE ItemDone(t)
  <2>1. /\ UNCHANGED slot /\ refc' = decRef(refc, pt)
        /\ \A u \in Threads \ {t} : inp'[u] = inp[u]
        /\ inp'[t].pat = 0 /\ inp'[t].prev = 0 /\ pv = 0
    BY <1>0, <1>14, ItemDoneDoes DEF Becomes, BecomesPopping, Holds
  <2>2. refc'[m] = refc[m] - One(pt, m)
    BY <1>a, <2>1
  <2>3. /\ PatUses(m)' = PatUses(m) - One(pt, m) /\ PrevUses(m)' = PrevUses(m)
        /\ SlotUses(m)' = SlotUses(m)
    BY <1>1, <1>2, <1>3, <1>4, <2>1, OneInt
  <2>4. QED  BY <1>3, <1>4, <2>2, <2>3, OneInt
<1>15. CASE ItemPop(t)
  <2>1. /\ UNCHANGED <<slot, refc>> /\ \A u \in Threads \ {t} : inp'[u] = inp[u]
        /\ inp'[t].pat = 0 /\ inp'[t].prev = 0 /\ pt = 0 /\ pv = 0
    BY <1>0, <1>15, ItemPopDoes DEF Becomes, BecomesIdle, Holds, windowVars
  <2>2. /\ PatUses(m)' = PatUses(m) /\ PrevUses(m)' = PrevUses(m)
        /\ SlotUses(m)' = SlotUses(m)
    BY <1>1, <1>2, <1>3, <1>4, <2>1, OneInt
  <2>3. QED  BY <1>3, <1>4, <2>1, <2>2
<1>16. QED
  BY <1>5, <1>6, <1>7, <1>8, <1>9, <1>10, <1>11, <1>12, <1>13, <1>14, <1>15 DEF InputStep

\* Evicting takes one slot away for each reference it gives up.
LEMMA EvictSurplus ==
  ASSUME TypeInv, Evict, NEW m \in 1 .. Len(refc)
  PROVE  Surplus(m)' = Surplus(m)
<1> DEFINE ch == core.ch
           A == {x \in Channels \X Edefs : slot[x[1]][x[2]] = m}
           B == {x \in Channels \X Edefs : slot'[x[1]][x[2]] = m}
           E == {ch} \X Expiring(ch)
<1>1. /\ ch \in Channels /\ Front \in 1 .. Len(refc) /\ refc \in Seq(Int)
      /\ m \in Nat \ {0} /\ Front # 0
      /\ slot \in [Channels -> [Edefs -> Nat]]
      /\ \A x \in Channels \X Edefs : x[1] \in Channels /\ x[2] \in Edefs
  <2>1. head < Len(pats) /\ Len(refc) = Len(pats) /\ head \in Nat /\ Len(pats) \in Nat
    BY TypeFacts DEF TypeInv, TypeOK, Retiring, Evict
  <2>2. Front \in 1 .. Len(refc) /\ Front # 0
    BY <2>1 DEF Front
  <2>3. m \in Nat \ {0}
    BY <2>1
  <2>4. ch \in Channels /\ refc \in Seq(Int) /\ slot \in [Channels -> [Edefs -> Nat]]
    BY DEF TypeInv, TypeOK
  <2>5. QED  BY <2>2, <2>3, <2>4
<1>2. \A c \in Channels, e \in Edefs :
        slot'[c][e] = IF c = ch /\ e \in Expiring(ch) THEN 0 ELSE slot[c][e]
  BY <1>1 DEF Evict
<1>3. PatUses(m)' = PatUses(m) /\ PrevUses(m)' = PrevUses(m)
  BY DEF Evict, PatUses, PrevUses
<1>4. /\ refc'[m] = IF m = Front THEN refc[m] - Cardinality(Expiring(ch)) ELSE refc[m]
      /\ refc[m] \in Int
  <2>1. refc \in [1 .. Len(refc) -> Int]
    BY <1>1, LenProperties
  <2>2. refc' = [refc EXCEPT ![Front] = @ - Cardinality(Expiring(ch))]
    BY DEF Evict
  <2>3. QED  BY <1>1, <2>1, <2>2
<1>5. /\ SlotUses(m) \in Nat /\ PatUses(m) \in Nat /\ PrevUses(m) \in Nat
      /\ Surplus(m) = refc[m] - (SlotUses(m) + PatUses(m) + PrevUses(m))
      /\ Surplus(m)' = refc'[m] - (SlotUses(m)' + PatUses(m)' + PrevUses(m)')
      /\ SlotUses(m) = Cardinality(A) /\ SlotUses(m)' = Cardinality(B)
  BY UsesTypes DEF Surplus, Uses, SlotUses, PatUses, PrevUses
<1>6. Expiring(ch) = {e \in Edefs : e \in Scanned /\ slot[ch][e] = Front}
  BY DEF Expiring, Scanned
<1>7. CASE m # Front
  <2>1. \A x \in Channels \X Edefs : slot'[x[1]][x[2]] = m <=> slot[x[1]][x[2]] = m
    BY <1>1, <1>2, <1>6, <1>7
  <2>2. A = B
    BY <2>1
  <2>3. QED  BY <1>3, <1>4, <1>5, <1>7, <2>2
<1>8. CASE m = Front
  <2>1. E \subseteq A /\ B = A \ E
    <3>1. ASSUME NEW x \in Channels \X Edefs
          PROVE  /\ x \in E => slot[x[1]][x[2]] = m
                 /\ slot'[x[1]][x[2]] = m <=> slot[x[1]][x[2]] = m /\ x \notin E
      <4>1. x \in E <=> x[1] = ch /\ x[2] \in Expiring(ch)
        OBVIOUS
      <4>2. QED  BY <1>1, <1>2, <1>6, <1>8, <4>1
    <3>2. E \subseteq Channels \X Edefs
      BY <1>1, <1>6
    <3> HIDE DEF E
    <3>3. QED  BY <3>1, <3>2
  <2>2. IsFiniteSet(A) /\ IsFiniteSet(E) /\ IsFiniteSet(Expiring(ch))
    BY <1>6, <2>1, Finite, EdefsFinite, FS_Subset
  <2>3. Cardinality(E) = Cardinality(Expiring(ch)) /\ Cardinality(E) \in Nat
    <3>1. IsFiniteSet({ch}) /\ Cardinality({ch}) = 1
      BY FS_Singleton
    <3>2. Cardinality(E) = Cardinality({ch}) * Cardinality(Expiring(ch))
      BY <2>2, <3>1, FS_Product
    <3>3. Cardinality(Expiring(ch)) \in Nat
      BY <2>2, FS_CardinalityType
    <3>4. QED  BY <3>1, <3>2, <3>3
  <2>4. Cardinality(B) = Cardinality(A) - Cardinality(E)
    <3>1. A \cap E = E
      BY <2>1
    <3>2. Cardinality(A \ E) = Cardinality(A) - Cardinality(A \cap E)
      BY <2>2, FS_Difference
    <3> HIDE DEF A, B, E
    <3>3. QED  BY <2>1, <3>1, <3>2
  <2>5. SlotUses(m)' = SlotUses(m) - Cardinality(Expiring(ch))
        /\ Cardinality(Expiring(ch)) \in Nat
    BY <1>5, <2>3, <2>4
  <2>6. QED  BY <1>3, <1>4, <1>5, <1>8, <2>5
<1>9. QED  BY <1>7, <1>8

\* A new pattern has no references, and nobody points at it.
LEMMA OthersSurplus ==
  ASSUME TypeInv, NoDangling,
         UNCHANGED vars \/ (\E shape \in Shapes : PushTimingData(shape))
         \/ UpdatePatternTimeStamp \/ RetireBegin \/ Evict \/ RetireCheck \/ RetirePop,
         NEW m \in 1 .. Len(pats')
  PROVE  \/ m \in 1 .. Len(pats) /\ Surplus(m)' = Surplus(m)
         \/ Surplus(m)' = 0
<1>0. /\ Len(refc) = Len(pats) /\ Len(pats) \in Nat /\ head \in Nat
      /\ refc \in Seq(Int) /\ pats \in Seq(Pattern)
  BY TypeFacts DEF TypeInv, TypeOK, Pattern
<1>1. CASE Evict
  <2>1. pats' = pats
    BY <1>1 DEF Evict
  <2>2. QED  BY <1>0, <1>1, <2>1, EvictSurplus
<1>2. CASE UNCHANGED <<pats, refc, slot, inp>>
  BY <1>2 DEF Surplus, Uses
<1>3. CASE \E p : push_back(p) /\ UNCHANGED <<slot, inp>>
  <2>1. PICK p : pats' = Append(pats, p) /\ refc' = Append(refc, 0)
    BY <1>3 DEF push_back
  <2>2. Uses(m)' = Uses(m)
    BY <1>3 DEF Uses
  <2>3. CASE m \in 1 .. Len(pats)
    <3>1. refc'[m] = refc[m]
      BY <1>0, <2>1, <2>3, AppendProperties
    <3>2. QED  BY <2>2, <2>3, <3>1 DEF Surplus
  <2>4. CASE m \notin 1 .. Len(pats)
    <3>1. m = Len(pats) + 1 /\ m # 0 /\ m \notin Window
      BY <1>0, <2>1, <2>4 DEF Window
    <3>2. refc'[m] = 0
      BY <1>0, <2>1, <3>1, AppendProperties
    <3>3. Uses(m) = 0
      BY <3>1, NoUses DEF NoDangling
    <3>4. QED  BY <2>2, <3>2, <3>3 DEF Surplus
  <2>5. QED  BY <2>3, <2>4
<1>4. CASE \E shape \in Shapes : PushTimingData(shape)
  BY <1>2, <1>3, <1>4 DEF PushTimingData, windowVars, chanVars
<1>5. CASE UNCHANGED vars \/ UpdatePatternTimeStamp \/ RetireBegin \/ RetireCheck \/ RetirePop
  BY <1>2, <1>5 DEF vars, UpdatePatternTimeStamp, RetireBegin, RetireCheck, RetirePop,
                    windowVars, chanVars, pop
<1>6. QED  BY <1>1, <1>4, <1>5

-----------------------------------------------------------------------------
(* Nothing dangles. *)

\* The references cover the pointers.
RefsCover == \A m \in 1 .. Len(pats) : Surplus(m) >= 0

\* Where pointers may point.
LEMMA WindowFacts ==
  ASSUME TypeInv
  PROVE  /\ Window \subseteq 1 .. Len(pats) /\ Len(refc) = Len(pats)
         /\ \A ch \in Channels, e \in Edefs : NextPending(ch, e) \in Window \cup {0}
         /\ \A n, e : patternGetNext(n, e) \in Window \cup {0}
         /\ \A ts : patternGet(ts) \in Window \cup {0}
<1>1. head \in Nat /\ Len(pats) \in Nat /\ Len(refc) = Len(pats)
  BY TypeFacts DEF TypeInv, TypeOK
<1>2. QED  BY <1>1, LookupTypes DEF Window, NextPending

\* Where an input thread's pointers and its channel's slots come from.
LEMMA InputPointers ==
  ASSUME TypeInv, Holdings, NoDangling, NEW t \in Threads, InputStep(t)
  PROVE  NoDangling'
<1> DEFINE ch == inp[t].ch   W == Window \cup {0}
<1>0. /\ Holds(t) /\ ch \in Channels /\ slot \in [Channels -> [Edefs -> Nat]]
      /\ inp[t].pat \in W /\ inp[t].prev \in W /\ 0 \in W
      /\ \A c \in Channels, e \in Edefs : slot[c][e] \in W
      /\ \A n, e : patternGetNext(n, e) \in W
      /\ \A e \in Edefs : NextPending(ch, e) \in W
      /\ \A ts : patternGet(ts) \in W
  BY ThreadFacts, WindowFacts DEF Holdings, NoDangling, TypeInv, TypeOK
<1>1. SUFFICES ASSUME UNCHANGED <<pats, head>>
               PROVE  /\ inp'[t].pat \in W /\ inp'[t].prev \in W
                      /\ \A u \in Threads \ {t} : inp'[u] = inp[u]
                      /\ \/ UNCHANGED slot
                         \/ \E e \in Edefs, n \in W : slot' = [slot EXCEPT ![ch][e] = n]
  <2>1. UNCHANGED <<pats, head>>
    BY DEF InputStep, TimeoutBegin, TimeoutLock, TimeoutFlush, TimeoutAdvance, ItemBegin,
           ItemLookup, ItemTimedOut, ItemEdef, ItemCatchUp, ItemStore, ItemDone, ItemPop, windowVars
  <2>2. Window' = Window
    BY <2>1 DEF Window
  <2>3. ASSUME UNCHANGED slot \/ \E e \in Edefs, n \in W : slot' = [slot EXCEPT ![ch][e] = n]
        PROVE  \A c \in Channels, e \in Edefs : slot'[c][e] \in W
    <3>1. CASE UNCHANGED slot
      BY <1>0, <3>1
    <3>2. CASE \E e \in Edefs, n \in W : slot' = [slot EXCEPT ![ch][e] = n]
      <4>1. PICK e \in Edefs, n \in W : slot' = [slot EXCEPT ![ch][e] = n]
        BY <3>2
      <4> HIDE DEF W, ch
      <4>2. ASSUME NEW c \in Channels, NEW f \in Edefs
            PROVE  slot'[c][f] = n \/ slot'[c][f] = slot[c][f]
        BY <1>0, <4>1
      <4>3. QED  BY <1>0, <4>2
    <3>3. QED  BY <2>3, <3>1, <3>2
  <2>4. ASSUME inp'[t].pat \in W, inp'[t].prev \in W, \A u \in Threads \ {t} : inp'[u] = inp[u]
        PROVE  \A u \in Threads : inp'[u].pat \in W /\ inp'[u].prev \in W
    BY <2>4 DEF NoDangling
  <2>5. QED  BY <1>1, <2>1, <2>2, <2>3, <2>4 DEF NoDangling
<1> HIDE DEF W
<1>2. CASE TimeoutBegin(t)
  BY <1>0, <1>2, TimeoutBeginDoes DEF Becomes, chanVars
<1>3. CASE TimeoutLock(t)
  BY <1>0, <1>3, TimeoutLockDoes DEF Becomes
<1>4. CASE TimeoutFlush(t)
  <2>1. PICK e \in Edefs :
          /\ slot' = [slot EXCEPT ![ch][e] = inp[t].prev]
          /\ inp'[t].pat = inp[t].pat /\ inp'[t].prev = patternGetNext(inp[t].prev, e)
          /\ \A u \in Threads \ {t} : inp'[u] = inp[u]
    BY <1>4, TimeoutFlushDoes DEF Becomes
  <2>2. \E f \in Edefs, n \in W : slot' = [slot EXCEPT ![ch][f] = n]
    BY <1>0, <2>1
  <2>3. inp'[t].pat \in W /\ inp'[t].prev \in W
    BY <1>0, <2>1
  <2>4. QED  BY <2>1, <2>2, <2>3
<1>5. CASE TimeoutAdvance(t)
  <2>1. /\ UNCHANGED slot /\ \A u \in Threads \ {t} : inp'[u] = inp[u]
        /\ \/ inp'[t].pat = 0 /\ inp'[t].prev = 0
           \/ inp'[t].pat = inp[t].pat /\ \E f \in Edefs : inp'[t].prev = NextPending(ch, f)
    BY <1>5, TimeoutAdvanceDoes DEF Becomes, BecomesIdle
  <2>2. QED  BY <1>0, <2>1
<1>6. CASE \E c \in Channels, ts \in 1 .. MaxPulse : ItemBegin(t, c, ts)
  BY <1>0, <1>6, ItemBeginDoes DEF Becomes, chanVars
<1>7. CASE ItemLookup(t)
  BY <1>0, <1>7, ItemLookupDoes DEF Becomes, BecomesPopping
<1>8. CASE ItemTimedOut(t)
  BY <1>0, <1>8, ItemTimedOutDoes DEF Becomes, chanVars
<1>9. CASE ItemEdef(t)
  <2>1. PICK e \in Edefs :
          /\ slot' = [slot EXCEPT ![ch][e] = inp[t].pat]
          /\ \A u \in Threads \ {t} : inp'[u] = inp[u]
          /\ \/ inp'[t].pat = 0 /\ inp'[t].prev = 0
             \/ inp'[t].pat = inp[t].pat /\ inp'[t].prev = NextPending(ch, e)
    BY <1>9, ItemEdefDoes DEF Becomes, BecomesPopping
  <2>2. QED  BY <1>0, <2>1
<1>10. CASE ItemCatchUp(t)
  <2>1. PICK e :
          /\ UNCHANGED slot /\ \A u \in Threads \ {t} : inp'[u] = inp[u]
          /\ \/ inp'[t].pat = 0 /\ inp'[t].prev = 0
             \/ inp'[t].pat = inp[t].pat /\ inp'[t].prev = patternGetNext(inp[t].prev, e)
    BY <1>10, ItemCatchUpDoes DEF Becomes, BecomesPopping
  <2>2. QED  BY <1>0, <2>1
<1>11. CASE ItemStore(t)
  BY <1>0, <1>11, ItemStoreDoes DEF Becomes
<1>12. CASE ItemDone(t)
  BY <1>0, <1>12, ItemDoneDoes DEF Becomes, BecomesPopping
<1>13. CASE ItemPop(t)
  BY <1>0, <1>13, ItemPopDoes DEF Becomes, BecomesIdle
<1>14. QED
  BY <1>2, <1>3, <1>4, <1>5, <1>6, <1>7, <1>8, <1>9, <1>10, <1>11, <1>12, <1>13 DEF InputStep

\* The pattern popped is one with a count of zero, which nobody points at.
LEMMA OthersPointers ==
  ASSUME TypeInv, RefsCover, NoDangling,
         UNCHANGED vars \/ (\E shape \in Shapes : PushTimingData(shape))
         \/ UpdatePatternTimeStamp \/ RetireBegin \/ Evict \/ RetireCheck \/ RetirePop
  PROVE  NoDangling'
<1>0. /\ head \in Nat /\ Len(pats) \in Nat /\ Len(refc) = Len(pats) /\ pats \in Seq(Pattern)
      /\ UNCHANGED inp
  BY TypeFacts, OthersLeaveInput DEF TypeInv, TypeOK, Pattern
<1>1. CASE Evict
  <2>1. \A c \in Channels, e \in Edefs : slot'[c][e] \in {slot[c][e], 0}
    BY <1>1 DEF Evict, TypeInv, TypeOK
  <2>2. Window' = Window
    BY <1>1 DEF Evict, Window
  <2>3. QED  BY <1>0, <2>1, <2>2 DEF NoDangling
<1>2. CASE RetirePop
  <2>1. /\ refc[Front] = 0 /\ head' = head + 1 /\ UNCHANGED <<pats, slot>>
        /\ core.pc # "wait"
    BY <1>2 DEF RetirePop, pop, frontUnused
  <2>2. Front \in 1 .. Len(pats)
    BY <1>0, <2>1 DEF TypeInv, Retiring, Front
  <2>3. Uses(Front) = 0
    <3>1. Surplus(Front) >= 0
      BY <2>2 DEF RefsCover
    <3>2. Uses(Front) \in Nat
      BY UsesTypes
    <3>3. QED  BY <2>1, <3>1, <3>2 DEF Surplus
  <2>4. Window' = Window \ {Front}
    BY <1>0, <2>1 DEF Window, Front
  <2>5. QED  BY <1>0, <2>1, <2>3, <2>4, NoUses DEF NoDangling
<1>3. CASE /\ UNCHANGED slot /\ Window \subseteq Window'
  BY <1>0, <1>3 DEF NoDangling
<1>4. CASE \E p : push_back(p) /\ UNCHANGED slot
  <2>1. PICK p : pats' = Append(pats, p) /\ head' = head
    BY <1>4 DEF push_back
  <2>2. Len(pats') = Len(pats) + 1
    BY <1>0, <2>1, AppendProperties
  <2>3. Window \subseteq Window'
    BY <1>0, <2>1, <2>2 DEF Window
  <2>4. QED  BY <1>3, <1>4, <2>3
<1>5. CASE UNCHANGED <<pats, head, slot>>
  <2>1. Window' = Window
    BY <1>5 DEF Window
  <2>2. QED  BY <1>3, <1>5, <2>1
<1>6. CASE \E shape \in Shapes : PushTimingData(shape)
  BY <1>4, <1>5, <1>6 DEF PushTimingData, windowVars, chanVars
<1>7. CASE UNCHANGED vars \/ UpdatePatternTimeStamp \/ RetireBegin \/ RetireCheck
  BY <1>5, <1>7 DEF vars, UpdatePatternTimeStamp, RetireBegin, RetireCheck,
                    windowVars, chanVars
<1>8. QED  BY <1>1, <1>2, <1>6, <1>7

RefInv == Holdings /\ RefsCover /\ NoDangling

LEMMA NextRefs ==
  ASSUME TypeInv, RefInv, [Next]_vars
  PROVE  RefInv'
<1>0. /\ TypeInv /\ Holdings /\ RefsCover /\ NoDangling
      /\ Len(refc) = Len(pats)
  BY WindowFacts DEF RefInv
<1>1. Holdings'
  BY <1>0, NextHolds
<1>2. ASSUME NEW t \in Threads, InputStep(t)
      PROVE  NoDangling' /\ RefsCover'
  <2>1. NoDangling'
    BY <1>0, <1>2, InputPointers
  <2>2. UNCHANGED pats
    BY <1>2 DEF InputStep, TimeoutBegin, TimeoutLock, TimeoutFlush, TimeoutAdvance, ItemBegin,
           ItemLookup, ItemTimedOut, ItemEdef, ItemCatchUp, ItemStore, ItemDone, ItemPop, windowVars
  <2>3. ASSUME NEW m \in 1 .. Len(pats)
        PROVE  Surplus(m)' >= 0
    <3>1. Surplus(m) >= 0 /\ Surplus(m) \in Int
      <4>1. refc[m] \in Int
        BY <1>0 DEF TypeInv, TypeOK
      <4>2. QED  BY <1>0, <4>1, UsesTypes DEF Surplus, RefsCover
    <3>2. m \in 1 .. Len(refc)
      BY <1>0
    <3>3. Surplus(m)' = Surplus(m) \/ Surplus(m)' = Surplus(m) + One(inp[t].pat, m)
      BY <1>0, <1>2, <3>2, InputSurplus
    <3>4. One(inp[t].pat, m) \in {0, 1}
      BY DEF One
    <3>5. QED  BY <3>1, <3>3, <3>4
  <2>4. QED  BY <2>1, <2>2, <2>3 DEF RefsCover
<1>3. ASSUME UNCHANGED vars \/ (\E shape \in Shapes : PushTimingData(shape))
             \/ UpdatePatternTimeStamp \/ RetireBegin \/ Evict \/ RetireCheck \/ RetirePop
      PROVE  NoDangling' /\ RefsCover'
  <2>1. NoDangling'
    BY <1>0, <1>3, OthersPointers
  <2>2. \A m \in 1 .. Len(pats') : Surplus(m)' >= 0
    BY <1>0, <1>3, OthersSurplus DEF RefsCover
  <2>3. QED  BY <2>1, <2>2 DEF RefsCover
<1>4. QED  BY <1>1, <1>2, <1>3, NextSteps DEF RefInv

LEMMA InitRefs == Init => RefInv
<1>1. Init => Holdings /\ NoDangling
  BY DEF Init, Holdings, Holds, NoDangling, Idle
<1>2. Init => RefsCover
  BY DEF Init, RefsCover
<1>3. QED  BY <1>1, <1>2 DEF RefInv

\* The element of the ring behind a slot's or a thread's pattern pointer is
\* never overwritten, whatever the bit test in patternGetNext yields: the
\* references cover the pointers, and finalizePop waits for their count.
THEOREM NeverDangling == Spec => []NoDangling
<1>1. RefInv => NoDangling
  BY DEF RefInv
<1>2. QED  BY <1>1, InitTypes, NextTypes, InitRefs, NextRefs, PTL DEF Spec

-----------------------------------------------------------------------------
(* What the lookups of the next pattern return. *)

\* A later pattern of the edef, and the first one in the buffer.
IsFirstAfter(n, e, k) ==
  /\ n \in Window /\ e \in Involved(n) /\ n > k
  /\ \A m \in Window : m > k /\ e \in Involved(m) => n <= m

NoneAfter(e, k) == \A m \in Window : m > k => e \notin Involved(m)

\* Where the bit test of patternGetNext is right.
Narrow == \A e \in Edefs : e \in ShiftMask[e]

LEMMA NextFacts ==
  ASSUME TypeInv, NEW n, NEW e
  PROVE  /\ patternGetNext(n, e) # 0 => IsFirstAfter(patternGetNext(n, e), e, n)
         /\ patternGetNext(n, e) = 0 /\ e \in ShiftMask[e] /\ e \in Involved(n)
            => NoneAfter(e, n)
<1> DEFINE S == {m \in Window : m > n /\ e \in Involved(m)}
<1>1. S \subseteq Nat /\ 0 \notin S
  BY TypeFacts DEF TypeInv, Window
<1>2. CASE S = {}
  <2>1. Earliest(S) = 0
    BY <1>2 DEF Earliest
  <2>2. patternGetNext(n, e) = 0
    BY <2>1 DEF patternGetNext
  <2>3. QED  BY <1>2, <2>2 DEF NoneAfter
<1>3. CASE S # {}
  <2>1. Earliest(S) \in S /\ \A m \in S : Earliest(S) <= m
    BY <1>1, <1>3, EarliestIsFirst
  <2>2. IsFirstAfter(Earliest(S), e, n) /\ Earliest(S) # 0
    BY <1>1, <2>1 DEF IsFirstAfter
  <2>3. patternGetNext(n, e) = IF ShiftMask[e] \cap Involved(n) = {} THEN 0 ELSE Earliest(S)
    BY DEF patternGetNext
  <2> HIDE DEF S
  <2>4. QED  BY <2>2, <2>3
<1>4. QED  BY <1>2, <1>3

LEMMA OldestFacts ==
  ASSUME TypeInv, NEW e
  PROVE  /\ patternGetOldest(e) # 0 => IsFirstAfter(patternGetOldest(e), e, 0)
         /\ patternGetOldest(e) = 0 => NoneAfter(e, 0)
<1> DEFINE S == {m \in Window : e \in Involved(m)}
<1>1. S \subseteq Nat /\ 0 \notin S /\ \A m \in Window : m > 0
  BY TypeFacts DEF TypeInv, Window
<1>2. patternGetOldest(e) = Earliest(S)
  BY DEF patternGetOldest
<1>3. CASE S = {}
  <2>1. Earliest(S) = 0
    BY <1>3 DEF Earliest
  <2>2. QED  BY <1>2, <1>3, <2>1 DEF NoneAfter
<1>4. CASE S # {}
  <2>1. Earliest(S) \in S /\ \A m \in S : Earliest(S) <= m
    BY <1>1, <1>4, EarliestIsFirst
  <2>2. IsFirstAfter(Earliest(S), e, 0) /\ Earliest(S) # 0
    BY <1>1, <2>1 DEF IsFirstAfter
  <2>3. QED  BY <1>2, <2>2
<1>5. QED  BY <1>3, <1>4

LEMMA PendingFacts ==
  ASSUME TypeInv, NEW ch \in Channels, NEW e \in Edefs
  PROVE  /\ NextPending(ch, e) # 0 => IsFirstAfter(NextPending(ch, e), e, slot[ch][e])
         /\ /\ NextPending(ch, e) = 0
            /\ slot[ch][e] # 0 => e \in ShiftMask[e] /\ e \in Involved(slot[ch][e])
            => NoneAfter(e, slot[ch][e])
<1>1. CASE slot[ch][e] # 0
  BY <1>1, NextFacts DEF NextPending
<1>2. CASE slot[ch][e] = 0
  BY <1>2, OldestFacts DEF NextPending
<1>3. QED  BY <1>1, <1>2

LEMMA NextUnique ==
  ASSUME NEW S, S \subseteq Edefs, NEW e, NEW f, IsNext(e, S), IsNext(f, S)
  PROVE  e = f
  BY EdefsFinite DEF IsNext

-----------------------------------------------------------------------------
(* Time stamps grow with the patterns. *)

Stamped ==
  /\ \A n \in 1 .. Len(pats) : pats[n].ts <= pulse
  /\ \A m, n \in 1 .. Len(pats) : m < n => pats[m].ts < pats[n].ts

LEMMA NextStamped ==
  ASSUME TypeInv, Stamped, [Next]_vars
  PROVE  Stamped'
<1>0. /\ pats \in Seq(Pattern) /\ Len(pats) \in Nat /\ pulse \in Nat
      /\ \A n \in 1 .. Len(pats) : pats[n].ts \in Nat
  <2>1. pats \in Seq(Pattern) /\ Len(pats) \in Nat /\ pulse \in 0 .. MaxPulse /\ MaxPulse \in Nat
    BY TypeFacts, CoreAssumption DEF TypeInv, TypeOK, Pattern
  <2>2. \A n \in 1 .. Len(pats) : pats[n] \in Pattern
    BY <2>1, ElementOfSeq
  <2>3. QED  BY <2>1, <2>2 DEF Pattern
<1>1. CASE UNCHANGED <<pats, pulse>>
  BY <1>1 DEF Stamped
<1>2. CASE \E shape \in Shapes : PushTimingData(shape)
  <2>1. pulse' = pulse + 1
    BY <1>2 DEF PushTimingData
  <2>2. CASE UNCHANGED pats
    BY <1>0, <2>1, <2>2 DEF Stamped
  <2>3. CASE \E p : p.ts = pulse + 1 /\ pats' = Append(pats, p)
    <3>1. PICK p : p.ts = pulse + 1 /\ pats' = Append(pats, p)
      BY <2>3
    <3>2. /\ Len(pats') = Len(pats) + 1 /\ pats'[Len(pats) + 1] = p
          /\ \A n \in 1 .. Len(pats) : pats'[n] = pats[n]
      BY <1>0, <3>1, AppendProperties
    <3>3. \A n \in 1 .. Len(pats') : n \in 1 .. Len(pats) \/ n = Len(pats) + 1
      BY <1>0, <3>2
    <3>4. \A n \in 1 .. Len(pats') : pats'[n].ts <= pulse'
      BY <1>0, <2>1, <3>1, <3>2, <3>3 DEF Stamped
    <3>5. ASSUME NEW m \in 1 .. Len(pats'), NEW n \in 1 .. Len(pats'), m < n
          PROVE  pats'[m].ts < pats'[n].ts
      <4>1. m \in 1 .. Len(pats)
        BY <1>0, <3>2, <3>5
      <4>2. CASE n \in 1 .. Len(pats)
        BY <3>2, <3>5, <4>1, <4>2 DEF Stamped
      <4>3. CASE n = Len(pats) + 1
        <5>1. pats[m].ts <= pulse /\ pats[m].ts \in Nat
          BY <1>0, <4>1 DEF Stamped
        <5>2. QED  BY <1>0, <3>1, <3>2, <4>1, <4>3, <5>1
      <4>4. QED  BY <3>3, <4>2, <4>3
    <3>6. QED  BY <3>4, <3>5 DEF Stamped
  <2>4. QED  BY <1>2, <2>2, <2>3 DEF PushTimingData, push_back, windowVars
<1>3. CASE UNCHANGED vars \/ UpdatePatternTimeStamp \/ RetireBegin \/ Evict \/ RetireCheck
           \/ RetirePop
  BY <1>1, <1>3 DEF vars, UpdatePatternTimeStamp, RetireBegin, Evict, RetireCheck, RetirePop,
                    windowVars, timingVars, pop
<1>4. ASSUME NEW t \in Threads, InputStep(t)
      PROVE  UNCHANGED <<pats, pulse>>
  BY <1>4 DEF InputStep, TimeoutBegin, TimeoutLock, TimeoutFlush, TimeoutAdvance, ItemBegin,
         ItemLookup, ItemTimedOut, ItemEdef, ItemCatchUp, ItemStore, ItemDone, ItemPop, windowVars,
         timingVars
<1>5. QED  BY <1>1, <1>2, <1>3, <1>4, NextSteps

-----------------------------------------------------------------------------
(* Who changes what. *)

\* Everybody but the input threads.
OtherStep ==
  \/ UNCHANGED vars \/ (\E shape \in Shapes : PushTimingData(shape))
  \/ UpdatePatternTimeStamp \/ RetireBegin \/ Evict \/ RetireCheck \/ RetirePop

\* Patterns do not change once they are stored.
LEMMA PatsKept ==
  ASSUME TypeInv, [Next]_vars
  PROVE  /\ \A n \in 1 .. Len(pats) : n \in 1 .. Len(pats') /\ pats'[n] = pats[n]
         /\ \A n \in 1 .. Len(pats) : Involved(n)' = Involved(n)
<1>0. pats \in Seq(Pattern) /\ Len(pats) \in Nat
  BY TypeFacts DEF TypeInv, TypeOK, Pattern
<1>1. UNCHANGED pats \/ \E p : pats' = Append(pats, p)
  <2>1. CASE OtherStep
    BY <2>1 DEF OtherStep, vars, PushTimingData, UpdatePatternTimeStamp, RetireBegin, Evict,
                RetireCheck, RetirePop, windowVars, pop, push_back
  <2>2. ASSUME NEW t \in Threads, InputStep(t)
        PROVE  UNCHANGED pats
    BY <2>2 DEF InputStep, TimeoutBegin, TimeoutLock, TimeoutFlush, TimeoutAdvance, ItemBegin,
         ItemLookup, ItemTimedOut, ItemEdef, ItemCatchUp, ItemStore, ItemDone, ItemPop, windowVars
  <2>3. QED  BY <2>1, <2>2, NextSteps DEF OtherStep
<1>2. \A n \in 1 .. Len(pats) : n \in 1 .. Len(pats') /\ pats'[n] = pats[n]
  BY <1>0, <1>1, AppendProperties
<1>3. QED  BY <1>2 DEF Involved

\* An input thread changes one channel only, which it has locked.
LEMMA InputChannel ==
  ASSUME TypeInv, LockDiscipline, NEW t \in Threads, InputStep(t),
         NEW c \in Channels, slot'[c] # slot[c] \/ acct'[c] # acct[c]
  PROVE  c = inp[t].ch /\ mtx[c] = t
<1> DEFINE ch == inp[t].ch
<1>0. /\ ch \in Channels /\ slot \in [Channels -> [Edefs -> Nat]]
      /\ acct \in [Channels -> [Edefs -> Seq(Entry)]]
  BY ThreadFacts DEF TypeInv, TypeOK
<1>1. CASE UNCHANGED <<slot, acct>>
  BY <1>1
<1>2. CASE \/ TimeoutBegin(t) \/ TimeoutLock(t) \/ TimeoutAdvance(t)
           \/ \E d \in Channels, ts \in 1 .. MaxPulse : ItemBegin(t, d, ts)
           \/ ItemLookup(t) \/ ItemTimedOut(t) \/ ItemDone(t) \/ ItemPop(t)
  BY <1>1, <1>2 DEF TimeoutBegin, TimeoutLock, TimeoutAdvance, ItemBegin, ItemLookup,
                    ItemTimedOut, ItemDone, ItemPop, chanVars
<1>3. CASE TimeoutFlush(t)
  <2>1. PICK e, n : /\ process(ch, e, n, FALSE) /\ inp[t].pc = "tloop"
                    /\ slot' = [slot EXCEPT ![ch][e] = n]
    BY <1>3 DEF TimeoutFlush
  <2>2. c = ch
    BY <1>0, <2>1 DEF process
  <2>3. QED  BY <2>1, <2>2 DEF LockDiscipline
<1>4. CASE ItemEdef(t)
  <2>1. PICK e : /\ slot' = [slot EXCEPT ![ch][e] = inp[t].pat]
                 /\ UNCHANGED acct /\ inp[t].pc = "iedef"
    BY <1>4 DEF ItemEdef
  <2>2. c = ch
    BY <1>0, <2>1
  <2>3. QED  BY <2>1, <2>2 DEF LockDiscipline
<1>5. CASE ItemCatchUp(t) \/ ItemStore(t)
  <2>1. PICK e, n, item : /\ process(ch, e, n, item)
                          /\ UNCHANGED slot /\ inp[t].pc = "iloop"
    BY <1>5 DEF ItemCatchUp, ItemStore
  <2>2. c = ch
    BY <1>0, <2>1 DEF process
  <2>3. QED  BY <2>1, <2>2 DEF LockDiscipline
<1>6. QED  BY <1>2, <1>3, <1>4, <1>5 DEF InputStep

\* The core thread changes a channel in its eviction only, which it locks.
LEMMA CoreChannel ==
  ASSUME TypeInv, OtherStep,
         NEW c \in Channels, slot'[c] # slot[c] \/ acct'[c] # acct[c]
  PROVE  Evict /\ c = core.ch /\ mtx[c] = Nobody
<1>1. Evict
  BY DEF OtherStep, vars, PushTimingData, UpdatePatternTimeStamp, RetireBegin,
         RetireCheck, RetirePop, chanVars
<1>2. PICK s, a : /\ slot' = [slot EXCEPT ![core.ch] = s]
                  /\ acct' = [acct EXCEPT ![core.ch] = a]
                  /\ mtx[core.ch] = Nobody
  BY <1>1 DEF Evict
<1>3. QED  BY <1>1, <1>2 DEF TypeInv, TypeOK

\* The channel a thread has locked is safe from everybody else.
LEMMA OwnerKeeps ==
  ASSUME TypeInv, LockDiscipline, NEW t \in Threads,
         inp[t].pc \in {"tloop", "iedef", "iloop"},
         OtherStep \/ \E u \in Threads \ {t} : InputStep(u)
  PROVE  /\ slot'[inp[t].ch] = slot[inp[t].ch] /\ acct'[inp[t].ch] = acct[inp[t].ch]
         /\ inp'[t] = inp[t]
<1>1. mtx[inp[t].ch] = t /\ inp[t].ch \in Channels /\ t # Nobody
  BY ThreadFacts DEF LockDiscipline, Nobody
<1>2. CASE OtherStep
  BY <1>1, <1>2, CoreChannel, OthersLeaveInput DEF OtherStep
<1>3. ASSUME NEW u \in Threads \ {t}, InputStep(u)
      PROVE  /\ slot'[inp[t].ch] = slot[inp[t].ch] /\ acct'[inp[t].ch] = acct[inp[t].ch]
             /\ inp'[t] = inp[t]
  <2>1. inp'[t] = inp[t]
    BY <1>3 DEF InputStep, TimeoutBegin, TimeoutLock, TimeoutFlush, TimeoutAdvance, ItemBegin,
         ItemLookup, ItemTimedOut, ItemEdef, ItemCatchUp, ItemStore, ItemDone, ItemPop, TypeInv, TypeOK
  <2>2. QED  BY <1>1, <1>3, <2>1, InputChannel
<1>4. QED  BY <1>2, <1>3

-----------------------------------------------------------------------------
(* Slots and threads keep to the patterns of their edef, in order. *)

SlotTracks(c, e) == slot[c][e] # 0 => e \in Involved(slot[c][e])

ItemTracks(t) ==
  inp[t].pc \in {"iedef", "iloop"} =>
    pats[inp[t].pat].ts = inp[t].ts /\ inp[t].todo \subseteq pats[inp[t].pat].act

NextTracks(t, e) ==
  IsNext(e, inp[t].todo) =>
    /\ inp[t].pc = "iloop" =>
         /\ inp[t].prev <= inp[t].pat /\ e \in Involved(inp[t].prev)
         /\ slot[inp[t].ch][e] = inp[t].pat
    /\ inp[t].pc = "tloop" /\ inp[t].prev # 0 =>
         e \in Involved(inp[t].prev) /\ inp[t].prev > slot[inp[t].ch][e]

ThreadTracks(t) == ItemTracks(t) /\ \A e \in Edefs : NextTracks(t, e)

Tracks ==
  /\ \A c \in Channels, e \in Edefs : SlotTracks(c, e)
  /\ \A t \in Threads : ThreadTracks(t)

\* All that is known about the core when a step begins.
CoreInv == TypeInv /\ LockDiscipline /\ RefInv /\ Stamped /\ Tracks

\* An item's pattern is later than the slot's, unless it has timed out.
LEMMA ItemIsLater ==
  ASSUME CoreInv, NEW t \in Threads, inp[t].pc = "iedef",
         NEW e \in Edefs, IsNext(e, inp[t].todo), ~TimedOut(inp[t].ch, e, inp[t].ts)
  PROVE  /\ inp[t].pat \in Window /\ inp[t].pat > slot[inp[t].ch][e]
         /\ e \in Involved(inp[t].pat)
<1> DEFINE n == inp[t].pat   k == slot[inp[t].ch][e]
<1>0. TypeInv /\ RefInv /\ Stamped /\ ThreadTracks(t) /\ Holds(t)
      /\ inp[t].ch \in Channels
  BY ThreadFacts DEF CoreInv, RefInv, Holdings, Tracks
<1>1. n \in Window /\ k \in Window \cup {0} /\ Window \subseteq 1 .. Len(pats)
  BY <1>0, WindowFacts DEF RefInv, NoDangling, Holds
<1>2. e \in Involved(n) /\ pats[n].ts = inp[t].ts
  BY <1>0 DEF ThreadTracks, ItemTracks, IsNext, Involved
<1>3. n > k
  <2>1. n \in Nat /\ k \in Nat /\ n # 0 /\ Len(pats) \in Nat
    BY <1>0, <1>1, TypeFacts, ThreadFacts DEF TypeInv
  <2>2. CASE k = 0
    BY <2>1, <2>2
  <2>3. CASE k # 0
    <3>1. /\ pats[k].ts < pats[n].ts /\ pats[k].ts \in Nat /\ pats[n].ts \in Nat
      <4>1. pats[k] \in Pattern /\ pats[n] \in Pattern
        BY <1>0, <1>1, <2>3, TypeFacts DEF TypeInv
      <4>2. pats[k].ts \in Nat /\ pats[n].ts \in Nat
        BY <4>1 DEF Pattern
      <4>3. inp[t].ts > pats[k].ts
        <5>1. ~(inp[t].ts <= pats[k].ts)
          BY <2>3 DEF TimedOut
        <5>2. QED  BY <1>2, <4>2, <5>1
      <4>4. QED  BY <1>2, <4>2, <4>3
    <3>2. k \in 1 .. Len(pats) /\ n \in 1 .. Len(pats)
      BY <1>1, <2>3
    <3>3. n < k => pats[n].ts < pats[k].ts
      BY <1>0, <3>2 DEF Stamped
    <3>4. QED  BY <2>1, <3>1, <3>3
  <2>4. QED  BY <2>2, <2>3
<1>4. QED  BY <1>1, <1>2, <1>3

\* What the step of another thread cannot spoil.
LEMMA ThreadFrame ==
  ASSUME CoreInv, [Next]_vars, NEW t \in Threads,
         inp[t].pc \in {"tloop", "iedef", "iloop"},
         OtherStep \/ \E u \in Threads \ {t} : InputStep(u)
  PROVE  ThreadTracks(t)'
<1>0. TypeInv /\ LockDiscipline /\ ThreadTracks(t) /\ NoDangling /\ Holds(t)
  BY DEF CoreInv, RefInv, Tracks, Holdings
<1>1. inp'[t] = inp[t] /\ slot'[inp[t].ch] = slot[inp[t].ch]
  BY <1>0, OwnerKeeps
<1>2. /\ inp[t].prev # 0 => Involved(inp[t].prev)' = Involved(inp[t].prev)
      /\ inp[t].pat # 0 => pats'[inp[t].pat] = pats[inp[t].pat]
  <2>1. \A n \in Window : n \in 1 .. Len(pats)
    BY <1>0, WindowFacts
  <2>2. /\ inp[t].prev # 0 => inp[t].prev \in 1 .. Len(pats)
        /\ inp[t].pat # 0 => inp[t].pat \in 1 .. Len(pats)
    BY <1>0, <2>1 DEF NoDangling
  <2>3. inp[t].prev # 0 => pats'[inp[t].prev] = pats[inp[t].prev]
    BY <1>0, <2>2, PatsKept
  <2>4. inp[t].pat # 0 => pats'[inp[t].pat] = pats[inp[t].pat]
    BY <1>0, <2>2, PatsKept
  <2>5. QED  BY <1>1, <2>3, <2>4 DEF Involved
<1>3. ItemTracks(t)'
  BY <1>0, <1>1, <1>2 DEF ThreadTracks, ItemTracks, Holds
<1>4. ASSUME NEW e \in Edefs
      PROVE  NextTracks(t, e)'
  BY <1>0, <1>1, <1>2 DEF ThreadTracks, NextTracks, Holds
<1>5. QED  BY <1>3, <1>4 DEF ThreadTracks

\* Threads that are not in a loop have nothing to keep.
LEMMA NotLooping ==
  ASSUME NEW t \in Threads, inp[t].pc \notin {"tloop", "iedef", "iloop"}
  PROVE  ThreadTracks(t)
  BY DEF ThreadTracks, ItemTracks, NextTracks

\* The thread that takes a timeout's step.
LEMMA TimeoutTracks ==
  ASSUME CoreInv, NEW t \in Threads,
         TimeoutBegin(t) \/ TimeoutLock(t) \/ TimeoutFlush(t) \/ TimeoutAdvance(t)
  PROVE  /\ ThreadTracks(t)'
         /\ \A c \in Channels, e \in Edefs : SlotTracks(c, e)'
<1> DEFINE ch == inp[t].ch
<1>0. /\ TypeInv /\ ThreadTracks(t) /\ ch \in Channels /\ inp[t].todo \subseteq Edefs
      /\ \A c \in Channels, e \in Edefs : SlotTracks(c, e)
      /\ slot \in [Channels -> [Edefs -> Nat]]
  BY ThreadFacts DEF CoreInv, Tracks, TypeInv, TypeOK
<1>1. UNCHANGED pats
  BY DEF TimeoutBegin, TimeoutLock, TimeoutFlush, TimeoutAdvance, windowVars
<1>2. ASSUME UNCHANGED slot
      PROVE  \A c \in Channels, e \in Edefs : SlotTracks(c, e)'
  BY <1>0, <1>1, <1>2 DEF SlotTracks, Involved
<1>3. ASSUME inp'[t].pc \notin {"tloop", "iedef", "iloop"}
      PROVE  ThreadTracks(t)'
  BY <1>3 DEF ThreadTracks, ItemTracks, NextTracks
\* Having found the first pattern of the next edef.
<1>4. ASSUME NEW e \in Edefs, NEW S, S \subseteq Edefs, IsNext(e, S), UNCHANGED slot,
             Becomes(t, "tloop", ch, inp[t].ts, S, inp[t].pat, NextPending(ch, e))
      PROVE  ThreadTracks(t)'
  <2>1. ItemTracks(t)'
    BY <1>4 DEF ItemTracks, Becomes
  <2>2. ASSUME NEW f \in Edefs, IsNext(f, inp'[t].todo), inp'[t].prev # 0
        PROVE  f \in Involved(inp[t].prev)' /\ inp'[t].prev > slot'[inp'[t].ch][f]
    <3>1. inp'[t].prev = NextPending(ch, e) /\ inp'[t].ch = ch /\ inp'[t].todo = S
      BY <1>4 DEF Becomes
    <3>2. f = e
      BY <1>4, <2>2, <3>1, NextUnique
    <3>3. IsFirstAfter(NextPending(ch, e), e, slot[ch][e])
      BY <1>0, <2>2, <3>1, PendingFacts
    <3>4. QED  BY <1>1, <1>4, <3>1, <3>2, <3>3 DEF IsFirstAfter, Involved
  <2>3. inp'[t].pc = "tloop"
    BY <1>4 DEF Becomes
  <2>4. QED  BY <2>1, <2>2, <2>3 DEF ThreadTracks, NextTracks
<1>5. CASE TimeoutBegin(t)
  <2>1. inp'[t].pc = "tlock" /\ UNCHANGED slot
    BY <1>0, <1>5, TimeoutBeginDoes DEF Becomes, chanVars
  <2>2. QED  BY <1>2, <1>3, <2>1
<1>6. CASE TimeoutLock(t)
  <2>1. PICK e \in Edefs :
          /\ IsNext(e, Edefs) /\ UNCHANGED slot
          /\ Becomes(t, "tloop", ch, inp[t].ts, Edefs, inp[t].pat, NextPending(ch, e))
    BY <1>0, <1>6, TimeoutLockDoes
  <2>2. QED  BY <1>2, <1>4, <2>1
<1>7. CASE TimeoutFlush(t)
  <2>1. PICK e \in Edefs :
          /\ IsNext(e, inp[t].todo) /\ inp[t].pc = "tloop" /\ inp[t].prev # 0
          /\ slot' = [slot EXCEPT ![ch][e] = inp[t].prev]
          /\ Becomes(t, "tloop", ch, inp[t].ts, inp[t].todo, inp[t].pat,
                     patternGetNext(inp[t].prev, e))
    BY <1>0, <1>7, TimeoutFlushDoes DEF Expired
  <2>2. e \in Involved(inp[t].prev) /\ slot'[ch][e] = inp[t].prev
    BY <1>0, <2>1 DEF ThreadTracks, NextTracks
  <2>3. ASSUME NEW c \in Channels, NEW f \in Edefs
        PROVE  SlotTracks(c, f)'
    <3>1. CASE c = ch /\ f = e
      BY <1>1, <2>2, <3>1 DEF SlotTracks, Involved
    <3>2. CASE ~(c = ch /\ f = e)
      <4>1. slot'[c][f] = slot[c][f]
        BY <1>0, <2>1, <3>2
      <4>2. QED  BY <1>0, <1>1, <4>1 DEF SlotTracks, Involved
    <3>3. QED  BY <3>1, <3>2
  <2>4. ItemTracks(t)' /\ inp'[t].pc = "tloop"
    BY <2>1 DEF ItemTracks, Becomes
  <2>5. ASSUME NEW f \in Edefs, IsNext(f, inp'[t].todo), inp'[t].prev # 0
        PROVE  f \in Involved(inp[t].prev)' /\ inp'[t].prev > slot'[inp'[t].ch][f]
    <3>1. /\ inp'[t].prev = patternGetNext(inp[t].prev, e) /\ inp'[t].ch = ch
          /\ inp'[t].todo = inp[t].todo
      BY <2>1 DEF Becomes
    <3>2. f = e
      BY <1>0, <2>1, <2>5, <3>1, NextUnique
    <3>3. IsFirstAfter(patternGetNext(inp[t].prev, e), e, inp[t].prev)
      BY <1>0, <2>5, <3>1, NextFacts
    <3>4. QED  BY <1>1, <2>2, <3>1, <3>2, <3>3 DEF IsFirstAfter, Involved
  <2>6. QED  BY <2>3, <2>4, <2>5 DEF ThreadTracks, NextTracks
<1>8. CASE TimeoutAdvance(t)
  <2>1. UNCHANGED slot
    BY <1>8 DEF TimeoutAdvance
  <2>2. \/ inp'[t].pc \in {"tlock", "idle"}
        \/ \E e, f \in Edefs :
             /\ IsNext(f, inp[t].todo \ {e})
             /\ Becomes(t, "tloop", ch, inp[t].ts, inp[t].todo \ {e}, inp[t].pat,
                        NextPending(ch, f))
    BY <1>0, <1>8, TimeoutAdvanceDoes DEF Becomes, BecomesIdle
  <2>3. inp[t].todo \subseteq Edefs
    BY <1>0
  <2>4. QED  BY <1>2, <1>3, <1>4, <2>1, <2>2, <2>3
<1>9. QED  BY <1>5, <1>6, <1>7, <1>8

\* The thread that takes a step of an item's.
LEMMA ItemTracksKept ==
  ASSUME CoreInv, NEW t \in Threads,
         \/ \E ch \in Channels, ts \in 1 .. MaxPulse : ItemBegin(t, ch, ts)
         \/ ItemLookup(t) \/ ItemTimedOut(t) \/ ItemEdef(t)
         \/ ItemCatchUp(t) \/ ItemStore(t) \/ ItemDone(t) \/ ItemPop(t)
  PROVE  /\ ThreadTracks(t)'
         /\ \A c \in Channels, e \in Edefs : SlotTracks(c, e)'
<1> DEFINE ch == inp[t].ch   n == inp[t].pat
<1>0. /\ TypeInv /\ ThreadTracks(t) /\ ch \in Channels /\ inp[t].todo \subseteq Edefs
      /\ \A c \in Channels, e \in Edefs : SlotTracks(c, e)
      /\ slot \in [Channels -> [Edefs -> Nat]]
  BY ThreadFacts DEF CoreInv, Tracks, TypeInv, TypeOK
<1>1. UNCHANGED pats
  BY DEF ItemBegin, ItemLookup, ItemTimedOut, ItemEdef, ItemCatchUp, ItemStore, ItemDone, ItemPop,
         windowVars
<1>2. ASSUME UNCHANGED slot
      PROVE  \A c \in Channels, e \in Edefs : SlotTracks(c, e)'
  BY <1>0, <1>1, <1>2 DEF SlotTracks, Involved
<1>3. ASSUME inp'[t].pc \notin {"tloop", "iedef", "iloop"}
      PROVE  ThreadTracks(t)'
  BY <1>3 DEF ThreadTracks, ItemTracks, NextTracks
\* Before the next edef nothing more is to be kept than the item's pattern.
<1>4. ASSUME NEW S, S \subseteq inp[t].todo, inp[t].pc \in {"iedef", "iloop"}, NEW m,
             Becomes(t, "iedef", ch, inp[t].ts, S, n, m)
      PROVE  ThreadTracks(t)'
  <2>1. ItemTracks(t)'
    BY <1>0, <1>1, <1>4 DEF ThreadTracks, ItemTracks, Becomes
  <2>2. \A f \in Edefs : NextTracks(t, f)'
    BY <1>4 DEF NextTracks, Becomes
  <2>3. QED  BY <2>1, <2>2 DEF ThreadTracks
<1>5. CASE \E c \in Channels, ts \in 1 .. MaxPulse : ItemBegin(t, c, ts)
  <2>1. inp'[t].pc = "ilock" /\ UNCHANGED slot
    BY <1>0, <1>5, ItemBeginDoes DEF Becomes, chanVars
  <2>2. QED  BY <1>2, <1>3, <2>1
<1>6. CASE ItemLookup(t)
  <2>1. UNCHANGED slot
    BY <1>6 DEF ItemLookup
  <2>2. CASE BecomesPopping(t)
    BY <1>2, <1>3, <2>1, <2>2 DEF BecomesPopping, Becomes
  <2>3. CASE /\ patternGet(inp[t].ts) # 0
             /\ Becomes(t, "iedef", ch, inp[t].ts, pats[patternGet(inp[t].ts)].act,
                        patternGet(inp[t].ts), inp[t].prev)
    <3> DEFINE S == {k \in Window : pats[k].ts = inp[t].ts}
    <3>1. patternGet(inp[t].ts) = Earliest(S)
      BY DEF patternGet
    <3>2. pats[patternGet(inp[t].ts)].ts = inp[t].ts
      <4>1. Earliest(S) \in S \cup {0}
        BY <1>0, TypeFacts, EarliestInWindow DEF TypeInv
      <4>2. QED  BY <2>3, <3>1, <4>1
    <3>3. ItemTracks(t)'
      BY <1>1, <2>3, <3>2 DEF ItemTracks, Becomes
    <3>4. \A f \in Edefs : NextTracks(t, f)'
      BY <2>3 DEF NextTracks, Becomes
    <3>5. QED  BY <1>2, <2>1, <3>3, <3>4 DEF ThreadTracks
  <2>4. QED  BY <1>0, <1>6, <2>2, <2>3, ItemLookupDoes
<1>7. CASE ItemTimedOut(t)
  <2>1. PICK e \in Edefs :
          Becomes(t, "iedef", ch, inp[t].ts, inp[t].todo \ {e}, n, inp[t].prev)
    BY <1>0, <1>7, ItemTimedOutDoes
  <2>2. UNCHANGED slot /\ inp[t].pc = "iedef"
    BY <1>7 DEF ItemTimedOut, chanVars
  <2>3. inp[t].todo \ {e} \subseteq inp[t].todo
    OBVIOUS
  <2>4. QED  BY <1>2, <1>4, <2>1, <2>2, <2>3
<1>8. CASE ItemEdef(t)
  <2>1. PICK e \in Edefs :
          /\ inp[t].pc = "iedef" /\ IsNext(e, inp[t].todo) /\ ~TimedOut(ch, e, inp[t].ts)
          /\ slot' = [slot EXCEPT ![ch][e] = n]
          /\ \/ BecomesPopping(t)
             \/ /\ NextPending(ch, e) # 0
                /\ Becomes(t, "iloop", ch, inp[t].ts, inp[t].todo, n, NextPending(ch, e))
    BY <1>0, <1>8, ItemEdefDoes
  <2>2. /\ n \in Window /\ n > slot[ch][e] /\ e \in Involved(n) /\ slot'[ch][e] = n
    BY <1>0, <2>1, ItemIsLater
  <2>3. ASSUME NEW c \in Channels, NEW f \in Edefs
        PROVE  SlotTracks(c, f)'
    <3>1. CASE c = ch /\ f = e
      BY <1>1, <2>2, <3>1 DEF SlotTracks, Involved
    <3>2. CASE ~(c = ch /\ f = e)
      <4>1. slot'[c][f] = slot[c][f]
        BY <1>0, <2>1, <3>2
      <4>2. QED  BY <1>0, <1>1, <4>1 DEF SlotTracks, Involved
    <3>3. QED  BY <3>1, <3>2
  <2>4. CASE BecomesPopping(t)
    BY <1>3, <2>3, <2>4 DEF BecomesPopping, Becomes
  <2>5. CASE /\ NextPending(ch, e) # 0
             /\ Becomes(t, "iloop", ch, inp[t].ts, inp[t].todo, n, NextPending(ch, e))
    <3>1. IsFirstAfter(NextPending(ch, e), e, slot[ch][e])
      BY <1>0, <2>5, PendingFacts
    <3>2. NextPending(ch, e) <= n /\ e \in Involved(NextPending(ch, e))
      BY <2>2, <3>1 DEF IsFirstAfter
    <3>3. ItemTracks(t)'
      BY <1>0, <1>1, <2>1, <2>5 DEF ThreadTracks, ItemTracks, Becomes
    <3>4. ASSUME NEW f \in Edefs, IsNext(f, inp'[t].todo)
          PROVE  NextTracks(t, f)'
      <4>1. f = e
        BY <1>0, <2>1, <2>5, <3>4, NextUnique DEF Becomes
      <4>2. QED  BY <1>1, <2>2, <2>5, <3>2, <4>1 DEF NextTracks, Becomes, Involved
    <3>5. QED  BY <2>3, <3>3, <3>4 DEF ThreadTracks, NextTracks
  <2>6. QED  BY <2>1, <2>4, <2>5
<1>9. CASE ItemCatchUp(t)
  <2>1. PICK e \in Edefs :
          /\ inp[t].pc = "iloop" /\ IsNext(e, inp[t].todo) /\ inp[t].prev # n
          /\ \/ BecomesPopping(t)
             \/ /\ patternGetNext(inp[t].prev, e) # 0
                /\ Becomes(t, "iloop", ch, inp[t].ts, inp[t].todo, n,
                           patternGetNext(inp[t].prev, e))
    BY <1>0, <1>9, ItemCatchUpDoes
  <2>2. UNCHANGED slot
    BY <1>9 DEF ItemCatchUp
  <2>3. CASE BecomesPopping(t)
    BY <1>2, <1>3, <2>2, <2>3 DEF BecomesPopping, Becomes
  <2>4. CASE /\ patternGetNext(inp[t].prev, e) # 0
             /\ Becomes(t, "iloop", ch, inp[t].ts, inp[t].todo, n,
                        patternGetNext(inp[t].prev, e))
    <3>1. IsFirstAfter(patternGetNext(inp[t].prev, e), e, inp[t].prev)
      BY <1>0, <2>4, NextFacts
    <3>2. /\ inp[t].prev <= n /\ slot[ch][e] = n
          /\ e \in Involved(n) /\ n \in Window
          /\ n \in Nat /\ inp[t].prev \in Nat
      <4>1. inp[t].prev <= n /\ slot[ch][e] = n
        BY <1>0, <2>1 DEF ThreadTracks, NextTracks
      <4>2. e \in Involved(n)
        BY <1>0, <2>1 DEF ThreadTracks, ItemTracks, IsNext, Involved
      <4>3. n \in Window
        BY <2>1 DEF CoreInv, RefInv, NoDangling, Holdings, Holds
      <4>4. QED  BY <1>0, <4>1, <4>2, <4>3, ThreadFacts
    <3>3. patternGetNext(inp[t].prev, e) <= n /\ e \in Involved(patternGetNext(inp[t].prev, e))
      BY <2>1, <3>1, <3>2 DEF IsFirstAfter
    <3>4. ItemTracks(t)'
      BY <1>0, <1>1, <2>1, <2>4 DEF ThreadTracks, ItemTracks, Becomes
    <3>5. ASSUME NEW f \in Edefs, IsNext(f, inp'[t].todo)
          PROVE  NextTracks(t, f)'
      <4>1. f = e
        BY <1>0, <2>1, <2>4, <3>5, NextUnique DEF Becomes
      <4>2. QED  BY <1>1, <2>2, <2>4, <3>2, <3>3, <4>1 DEF NextTracks, Becomes, Involved
    <3>6. QED  BY <1>2, <2>2, <3>4, <3>5 DEF ThreadTracks, NextTracks
  <2>5. QED  BY <2>1, <2>3, <2>4
<1>10. CASE ItemStore(t)
  <2>1. PICK e \in Edefs : Becomes(t, "iedef", ch, inp[t].ts, inp[t].todo \ {e}, n, 0)
    BY <1>0, <1>10, ItemStoreDoes
  <2>2. UNCHANGED slot /\ inp[t].pc = "iloop"
    BY <1>10 DEF ItemStore
  <2>3. inp[t].todo \ {e} \subseteq inp[t].todo
    OBVIOUS
  <2>4. QED  BY <1>2, <1>4, <2>1, <2>2, <2>3
<1>11. CASE ItemDone(t)
  <2>1. inp'[t].pc = "ipop" /\ UNCHANGED slot
    BY <1>0, <1>11, ItemDoneDoes DEF BecomesPopping, Becomes
  <2>2. QED  BY <1>2, <1>3, <2>1
<1>12. CASE ItemPop(t)
  <2>1. inp'[t].pc = "idle" /\ UNCHANGED slot
    BY <1>0, <1>12, ItemPopDoes DEF BecomesIdle, Becomes
  <2>2. QED  BY <1>2, <1>3, <2>1
<1>13. QED  BY <1>5, <1>6, <1>7, <1>8, <1>9, <1>10, <1>11, <1>12

LEMMA NextTracksKept ==
  ASSUME CoreInv, [Next]_vars
  PROVE  Tracks'
<1>0. /\ TypeInv /\ NoDangling /\ slot \in [Channels -> [Edefs -> Nat]]
      /\ \A c \in Channels, e \in Edefs : SlotTracks(c, e)
  BY DEF CoreInv, RefInv, Tracks, TypeInv, TypeOK
<1>1. ASSUME OtherStep, NEW c \in Channels, NEW e \in Edefs
      PROVE  SlotTracks(c, e)'
  <2>1. slot'[c][e] = slot[c][e] \/ slot'[c][e] = 0
    <3>1. CASE slot'[c] # slot[c]
      <4>1. Evict /\ c = core.ch
        BY <1>0, <1>1, <3>1, CoreChannel
      <4>2. slot'[c] = [f \in Edefs |-> IF f \in Expiring(c) THEN 0 ELSE slot[c][f]]
        BY <1>0, <4>1 DEF Evict
      <4>3. QED  BY <4>2
    <3>2. QED  BY <3>1
  <2>3. CASE slot'[c][e] = 0
    BY <2>3 DEF SlotTracks
  <2>4. CASE slot'[c][e] = slot[c][e] /\ slot[c][e] # 0
    <3>1. slot[c][e] \in 1 .. Len(pats)
      BY <1>0, <2>4, WindowFacts DEF NoDangling
    <3>2. pats'[slot[c][e]] = pats[slot[c][e]]
      BY <1>0, <3>1, PatsKept
    <3>3. QED  BY <1>0, <2>4, <3>2 DEF SlotTracks, Involved
  <2>5. QED  BY <2>1, <2>3, <2>4
<1>2. ASSUME NEW t \in Threads, OtherStep \/ \E u \in Threads \ {t} : InputStep(u)
      PROVE  ThreadTracks(t)'
  <2>1. CASE inp[t].pc \in {"tloop", "iedef", "iloop"}
    BY <1>2, <2>1, ThreadFrame
  <2>2. CASE inp[t].pc \notin {"tloop", "iedef", "iloop"}
    <3>1. inp'[t] = inp[t]
      <4>1. CASE OtherStep
        BY <4>1, OthersLeaveInput DEF OtherStep
      <4>2. ASSUME NEW u \in Threads \ {t}, InputStep(u)
            PROVE  inp'[t] = inp[t]
        BY <1>0, <4>2 DEF InputStep, TimeoutBegin, TimeoutLock, TimeoutFlush, TimeoutAdvance,
          ItemBegin, ItemLookup, ItemTimedOut, ItemEdef, ItemCatchUp, ItemStore, ItemDone, ItemPop,
          TypeInv, TypeOK
      <4>3. QED  BY <1>2, <4>1, <4>2
    <3>2. inp'[t].pc \notin {"tloop", "iedef", "iloop"}
      BY <2>2, <3>1
    <3>3. QED  BY <3>2 DEF ThreadTracks, ItemTracks, NextTracks
  <2>3. QED  BY <2>1, <2>2
<1>3. CASE OtherStep
  BY <1>1, <1>2, <1>3 DEF Tracks
<1>4. ASSUME NEW t \in Threads, InputStep(t)
      PROVE  Tracks'
  <2>1. ThreadTracks(t)' /\ \A c \in Channels, e \in Edefs : SlotTracks(c, e)'
    BY <1>4, TimeoutTracks, ItemTracksKept DEF InputStep
  <2>2. \A u \in Threads \ {t} : ThreadTracks(u)'
    BY <1>2, <1>4
  <2>3. QED  BY <2>1, <2>2 DEF Tracks
<1>5. QED  BY <1>3, <1>4, NextSteps DEF OtherStep

LEMMA InitCore == Init => CoreInv
<1>1. Init => Stamped /\ LockDiscipline
  BY DEF Init, Stamped, LockDiscipline, Idle, Core, Nobody
<1>2. Init => Tracks
  BY DEF Init, Tracks, SlotTracks, ThreadTracks, ItemTracks, NextTracks, Idle
<1>3. QED  BY <1>1, <1>2, InitTypes, InitRefs DEF CoreInv

LEMMA NextCore ==
  ASSUME CoreInv, [Next]_vars
  PROVE  CoreInv'
<1>1. TypeInv /\ LockDiscipline /\ RefInv /\ Stamped
  BY DEF CoreInv
<1>2. TypeInv'
  BY <1>1, NextTypes
<1>3. LockDiscipline' /\ RefInv' /\ Stamped'
  BY <1>1, <1>2, NextLocks, NextRefs, NextStamped
<1>4. QED  BY <1>2, <1>3, NextTracksKept DEF CoreInv

LEMMA CoreHolds == Spec => []CoreInv
  BY InitCore, NextCore, PTL DEF Spec

-----------------------------------------------------------------------------
(* A slot's pattern only moves forward. *)

Forward ==
  \A ch \in Channels : \A e \in Edefs :
     slot'[ch][e] # slot[ch][e] =>
       \/ slot'[ch][e] > slot[ch][e]
       \/ slot'[ch][e] = 0 /\ slot[ch][e] = Front /\ core.pc = "evict"

LEMMA NextForward ==
  ASSUME CoreInv, [Next]_vars
  PROVE  Forward
<1>0. /\ TypeInv /\ Tracks /\ slot \in [Channels -> [Edefs -> Nat]]
  BY DEF CoreInv, TypeInv, TypeOK
<1>1. ASSUME OtherStep, NEW c \in Channels, NEW e \in Edefs, slot'[c][e] # slot[c][e]
      PROVE  slot'[c][e] = 0 /\ slot[c][e] = Front /\ core.pc = "evict"
  <2>1. Evict /\ c = core.ch
    BY <1>0, <1>1, CoreChannel
  <2>2. /\ slot'[c] = [f \in Edefs |-> IF f \in Expiring(c) THEN 0 ELSE slot[c][f]]
        /\ core.pc = "evict"
    BY <1>0, <2>1 DEF Evict
  <2>3. QED  BY <1>1, <2>2 DEF Expiring
<1>2. ASSUME NEW t \in Threads, InputStep(t),
             NEW c \in Channels, NEW e \in Edefs, slot'[c][e] # slot[c][e]
      PROVE  slot'[c][e] > slot[c][e]
  <2> DEFINE ch == inp[t].ch
  <2>1. TimeoutFlush(t) \/ ItemEdef(t)
    BY <1>2 DEF InputStep, TimeoutBegin, TimeoutLock, TimeoutAdvance, ItemBegin, ItemLookup,
                ItemTimedOut, ItemCatchUp, ItemStore, ItemDone, ItemPop, chanVars
  <2>2. ch \in Channels /\ ThreadTracks(t)
    BY <1>0, ThreadFacts DEF Tracks
  <2>3. CASE TimeoutFlush(t)
    <3>1. PICK f \in Edefs : /\ IsNext(f, inp[t].todo) /\ inp[t].pc = "tloop"
                             /\ inp[t].prev # 0
                             /\ slot' = [slot EXCEPT ![ch][f] = inp[t].prev]
      BY <1>0, <2>3, TimeoutFlushDoes DEF Expired
    <3>2. inp[t].prev > slot[ch][f]
      BY <2>2, <3>1 DEF ThreadTracks, NextTracks
    <3>3. c = ch /\ e = f /\ slot'[c][e] = inp[t].prev
      BY <1>0, <1>2, <2>2, <3>1
    <3>4. QED  BY <3>2, <3>3
  <2>4. CASE ItemEdef(t)
    <3>1. PICK f \in Edefs : /\ IsNext(f, inp[t].todo) /\ inp[t].pc = "iedef"
                             /\ ~TimedOut(ch, f, inp[t].ts)
                             /\ slot' = [slot EXCEPT ![ch][f] = inp[t].pat]
      BY <1>0, <2>4, ItemEdefDoes
    <3>2. inp[t].pat > slot[ch][f]
      BY <3>1, ItemIsLater
    <3>3. c = ch /\ e = f /\ slot'[c][e] = inp[t].pat
      BY <1>0, <1>2, <2>2, <3>1
    <3>4. QED  BY <3>2, <3>3
  <2>5. QED  BY <2>1, <2>3, <2>4
<1>3. QED  BY <1>1, <1>2, NextSteps DEF OtherStep, Forward

\* Neither a data item nor a timeout ever moves a slot back to an earlier
\* pattern, even when they race for the same pulse; only the core thread
\* takes a slot's pattern away, the one it is retiring.
THEOREM SlotsMoveForward == Spec => SlotForward
<1>1. ASSUME CoreInv, [Next]_vars
      PROVE  [Forward]_vars
  BY <1>1, NextForward
<1>2. [Forward]_vars => [\A ch \in Channels : \A e \in Edefs :
       slot'[ch][e] # slot[ch][e] =>
         \/ slot'[ch][e] > slot[ch][e]
         \/ slot'[ch][e] = 0 /\ slot[ch][e] = Front /\ core.pc = "evict"]_vars
  BY DEF Forward
<1>3. QED  BY <1>1, <1>2, CoreHolds, PTL DEF Spec, SlotForward

-----------------------------------------------------------------------------
(* With a right bit test no reference is lost. *)

\* The search of processInput finds a pattern, each pattern but the item's
\* has a next one, and none is beyond the item's.
LEMMA SearchForward ==
  ASSUME Narrow, CoreInv, NEW t \in Threads, NEW e \in Edefs, IsNext(e, inp[t].todo)
  PROVE  /\ inp[t].pc = "iedef" /\ ~TimedOut(inp[t].ch, e, inp[t].ts)
            => NextPending(inp[t].ch, e) \in 1 .. inp[t].pat
         /\ inp[t].pc = "iloop" /\ inp[t].prev # inp[t].pat
            => patternGetNext(inp[t].prev, e) \in inp[t].prev + 1 .. inp[t].pat
<1> DEFINE ch == inp[t].ch   n == inp[t].pat   p == NextPending(ch, e)
           m == patternGetNext(inp[t].prev, e)
<1>0. /\ TypeInv /\ ThreadTracks(t) /\ Holds(t) /\ ch \in Channels /\ NoDangling
      /\ Window \subseteq Nat \ {0} /\ n \in Nat /\ inp[t].prev \in Nat
  <2>1. TypeInv
    BY DEF CoreInv
  <2>2. Window \subseteq Nat \ {0}
    BY <2>1, TypeFacts DEF Window, TypeInv
  <2>3. QED  BY <2>1, <2>2, ThreadFacts DEF CoreInv, RefInv, Holdings, Tracks
<1>1. ASSUME inp[t].pc = "iedef", ~TimedOut(ch, e, inp[t].ts)
      PROVE  p \in 1 .. n
  <2>1. n \in Window /\ n > slot[ch][e] /\ e \in Involved(n)
    BY <1>1, ItemIsLater
  <2>2. ~NoneAfter(e, slot[ch][e])
    BY <2>1 DEF NoneAfter
  <2>3. slot[ch][e] # 0 => e \in Involved(slot[ch][e])
    BY <1>0 DEF CoreInv, Tracks, SlotTracks
  <2>4. IsFirstAfter(p, e, slot[ch][e])
    BY <1>0, <2>2, <2>3, PendingFacts DEF Narrow
  <2>5. p \in Window /\ p <= n
    BY <2>1, <2>4 DEF IsFirstAfter
  <2>6. p \in Nat \ {0} /\ n \in Nat
    BY <1>0, <2>5
  <2> HIDE DEF p, n
  <2>7. QED  BY <2>5, <2>6
<1>2. ASSUME inp[t].pc = "iloop", inp[t].prev # n
      PROVE  m \in inp[t].prev + 1 .. n
  <2>1. n \in Window /\ e \in Involved(n)
    BY <1>0, <1>2 DEF NoDangling, Holds, ThreadTracks, ItemTracks, IsNext, Involved
  <2>2. inp[t].prev <= n /\ e \in Involved(inp[t].prev)
    BY <1>0, <1>2 DEF ThreadTracks, NextTracks
  <2>3. inp[t].prev < n
    BY <1>0, <1>2, <2>2
  <2>4. ~NoneAfter(e, inp[t].prev)
    BY <2>1, <2>3 DEF NoneAfter
  <2>5. IsFirstAfter(m, e, inp[t].prev)
    BY <1>0, <2>2, <2>4, NextFacts DEF Narrow
  <2>6. m \in Window /\ m > inp[t].prev /\ m <= n
    BY <2>1, <2>3, <2>5 DEF IsFirstAfter
  <2>7. m \in Nat /\ n \in Nat /\ inp[t].prev \in Nat
    BY <1>0, <2>6
  <2> HIDE DEF m, n
  <2>8. QED  BY <2>6, <2>7
<1>3. QED  BY <1>1, <1>2

LEMMA NoLeak ==
  ASSUME Narrow, CoreInv, NEW t \in Threads
  PROVE  ~Leaks(t)
<1>1. inp[t].prev \in Nat
  BY ThreadFacts DEF CoreInv
<1>2. QED  BY <1>1, SearchForward DEF Leaks

\* processInput's search for the patterns between the slot's and the item's
\* goes forward, never beyond the item's own pattern, and does not stop
\* before it: neither of the two exceptions that "should not happen" does,
\* for the event definitions whose bit the C expression 1<<edef gets right.
THEOREM SearchSucceeds == Narrow => (Spec => []ItemFindsPattern)
<1>1. ASSUME Narrow, CoreInv
      PROVE  ItemFindsPattern
  BY <1>1, SearchForward DEF ItemFindsPattern
<1>2. ASSUME Narrow
      PROVE  Spec => []ItemFindsPattern
  <2>1. CoreInv => ItemFindsPattern
    BY <1>1, <1>2
  <2>2. QED  BY <2>1, CoreHolds, PTL
<1>3. QED  BY <1>2

LEMMA UsesNat == \A m \in Int : Uses(m) \in Nat
  BY UsesTypes

\* For those event definitions a pattern's count is exactly the number of
\* pointers to it.
THEOREM ReferencesExact == Narrow => (Spec => []RefsExact)
<1>1. ASSUME Narrow, CoreInv, RefsExact, [Next]_vars
      PROVE  RefsExact'
  <2>0. /\ TypeInv /\ Holdings /\ NoDangling /\ Len(refc) = Len(pats)
        /\ \A m \in 1 .. Len(pats) : refc[m] \in Int
    BY <1>1, WindowFacts DEF CoreInv, RefInv, TypeInv, TypeOK
  <2>1. \A m \in 1 .. Len(pats) : Surplus(m) = 0
    BY <1>1, <2>0 DEF RefsExact, Surplus
  <2>2. ASSUME NEW m \in 1 .. Len(pats')
        PROVE  Surplus(m)' = 0
    <3>1. CASE OtherStep
      BY <2>0, <2>1, <3>1, OthersSurplus DEF OtherStep
    <3>2. ASSUME NEW t \in Threads, InputStep(t)
          PROVE  Surplus(m)' = 0
      <4>1. UNCHANGED pats
        BY <3>2 DEF InputStep, TimeoutBegin, TimeoutLock, TimeoutFlush, TimeoutAdvance,
          ItemBegin, ItemLookup, ItemTimedOut, ItemEdef, ItemCatchUp, ItemStore, ItemDone, ItemPop,
          windowVars
      <4>2. ~Leaks(t)
        BY <1>1, NoLeak
      <4>3. m \in 1 .. Len(refc) /\ m \in 1 .. Len(pats)
        BY <2>0, <4>1
      <4>4. Surplus(m)' = Surplus(m)
        BY <2>0, <3>2, <4>2, <4>3, InputSurplus
      <4>5. QED  BY <2>1, <4>3, <4>4
    <3>3. QED  BY <1>1, <3>1, <3>2, NextSteps DEF OtherStep
  <2>3. TypeInv' /\ \A m \in 1 .. Len(pats') : refc'[m] \in Int
    <3>1. TypeInv'
      BY <1>1, <2>0, NextTypes
    <3>2. QED  BY <3>1 DEF TypeInv, TypeOK
  <2>4. \A m \in 1 .. Len(pats') : Uses(m)' \in Int
    <3>1. (\A m \in Int : Uses(m) \in Nat)'
      BY UsesNat, PTL
    <3>2. QED  BY <3>1
  <2>5. QED  BY <2>2, <2>3, <2>4 DEF RefsExact, Surplus
<1>2. Init => RefsExact
  BY DEF Init, RefsExact
<1>3. ASSUME Narrow
      PROVE  Spec => []RefsExact
  <2>1. CoreInv /\ RefsExact /\ [Next]_vars => RefsExact'
    BY <1>1, <1>3
  <2>2. QED  BY <1>2, <2>1, CoreHolds, PTL DEF Spec
<1>4. QED  BY <1>3
=============================================================================
