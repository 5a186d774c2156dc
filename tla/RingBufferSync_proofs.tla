------------------------ MODULE RingBufferSync_proofs ------------------------
(***************************************************************************)
(* Proofs about RingBufferSync, for any number of producers, any capacity, *)
(* minimum fill level and counter width: the counters are consistent, and  *)
(* no wake-up is lost.                                                     *)
(***************************************************************************)
EXTENDS RingBufferSync, FiniteSetTheorems, SequenceTheorems, TLAPS

\* Unsigned subtraction of wrapping counters: storing adds one to the size,
\* dropping takes one away (RingBuffer.h, push_back and pop).
LEMMA SizeInc ==
  ASSUME h \in 0 .. IdxMod - 1, t \in 0 .. IdxMod - 1, IdxMod \in Nat,
         size < IdxMod - 1, t' = Inc(t), h' = h
  PROVE  size' = size + 1 /\ t' \in 0 .. IdxMod - 1
BY DEF size, Inc

LEMMA SizeDec ==
  ASSUME h \in 0 .. IdxMod - 1, t \in 0 .. IdxMod - 1, IdxMod \in Nat,
         size > 0, h' = Inc(h), t' = t
  PROVE  size' = size - 1 /\ h' \in 0 .. IdxMod - 1
BY DEF size, Inc

LEMMA SizeType ==
  ASSUME h \in 0 .. IdxMod - 1, t \in 0 .. IdxMod - 1, IdxMod \in Nat
  PROVE  size \in Nat
BY DEF size

-----------------------------------------------------------------------------
(* Type correctness and the counters. *)

\* The sizes that the counters can show, and what the consumer relies on.
RingInv == Types /\ SizeOK /\ PopFinds

\* A push keeps the ring consistent: the buffer is not full, so the new size
\* is within the capacity, and the front stays where it is.
LEMMA PushRing ==
  ASSUME NEW p \in Producers, RingInv, Push(p)
  PROVE  RingInv' /\ size' = size + 1 /\ size < Capacity
<1>1. /\ IdxMod \in Nat /\ Capacity \in Nat \ {0} /\ IdxMod > Capacity
      /\ h \in 0 .. IdxMod - 1 /\ t \in 0 .. IdxMod - 1 /\ size \in Nat
  BY RingAssumption, SizeType DEF RingInv, Types
<1>2. size < Capacity
  BY <1>1 DEF RingInv, SizeOK, Push, full
<1>3. size' = size + 1 /\ t' \in 0 .. IdxMod - 1 /\ h' = h
  BY <1>1, <1>2, SizeInc DEF Push, Store
<1>4. Types'
  <2>1. buf' \in [0 .. Capacity - 1 -> Nat]
    <3>1. pushed + 1 \in Nat /\ buf' = [buf EXCEPT ![t % Capacity] = pushed + 1]
      BY DEF RingInv, Types, Push, Store
    <3>2. QED  BY <3>1 DEF RingInv, Types
  <2>2. prod' \in [Producers -> {"idle", "wait", "woken", "notify"}]
    BY DEF RingInv, Types, Push
  <2>3. QED  BY <1>3, <2>1, <2>2 DEF RingInv, Types, Push
<1>5. SizeOK'
  BY <1>1, <1>2, <1>3 DEF SizeOK
<1>6. PopFinds'
  BY <1>1, <1>3, SyncAssumption DEF RingInv, PopFinds, checkMinFilled, Push
<1>7. QED  BY <1>2, <1>3, <1>4, <1>5, <1>6 DEF RingInv

\* A pop removes an element that is there.
LEMMA PopRing ==
  ASSUME RingInv, Pop
  PROVE  RingInv' /\ size' = size - 1
<1>1. /\ IdxMod \in Nat /\ Capacity \in Nat \ {0} /\ MinFill \in Nat
      /\ h \in 0 .. IdxMod - 1 /\ t \in 0 .. IdxMod - 1 /\ size \in Nat
  BY RingAssumption, SyncAssumption, SizeType DEF RingInv, Types
<1>2. size' = size - 1 /\ h' \in 0 .. IdxMod - 1
  BY <1>1, SizeDec DEF Pop, Drop, checkMinFilled
<1>3. Types'
  BY <1>2 DEF RingInv, Types, Pop, Drop
<1>4. SizeOK'
  BY <1>1, <1>2 DEF RingInv, SizeOK
<1>5. PopFinds'
  BY DEF PopFinds, Pop
<1>6. QED  BY <1>2, <1>3, <1>4, <1>5 DEF RingInv

\* The steps that leave the ring alone keep it consistent.
LEMMA QuietRing ==
  ASSUME RingInv, UNCHANGED ringVars,
         \/ \E p \in Producers : PushBlocks(p) \/ NotifyMinFilled(p)
         \/ WaitUntil \/ TimedOut \/ Timeout \/ Front \/ ProcessItem
         \/ NotifyNotFull \/ Expire \/ Spurious
         \/ UNCHANGED vars
  PROVE  RingInv' /\ size' = size
<1>1. size' = size /\ h' = h /\ t' = t /\ buf' = buf
  BY DEF ringVars, size
<1>2. SizeOK'
  BY <1>1 DEF RingInv, SizeOK
<1>3. CASE \E p \in Producers : PushBlocks(p) \/ NotifyMinFilled(p)
  <2>1. Types'
    BY <1>1, <1>3 DEF RingInv, Types, PushBlocks, NotifyMinFilled
  <2>2. PopFinds'
    BY <1>1, <1>3 DEF RingInv, PopFinds, checkMinFilled, PushBlocks, NotifyMinFilled
  <2>3. QED  BY <1>1, <1>2, <2>1, <2>2 DEF RingInv
<1>4. CASE WaitUntil \/ TimedOut \/ Timeout \/ Expire \/ UNCHANGED vars
  <2>1. Types'
    BY <1>1, <1>4 DEF RingInv, Types, WaitUntil, TimedOut, Timeout, Expire, vars
  <2>2. PopFinds'
    BY <1>1, <1>4 DEF RingInv, PopFinds, checkMinFilled, WaitUntil, TimedOut,
                      Timeout, Expire, vars
  <2>3. QED  BY <1>1, <1>2, <2>1, <2>2 DEF RingInv
<1>5. CASE Front
  BY <1>1, <1>2, <1>5 DEF RingInv, Types, PopFinds, checkMinFilled, Front
<1>6. CASE ProcessItem
  <2>1. item % Capacity \in 0 .. Capacity - 1
    BY RingAssumption DEF RingInv, Types
  <2>2. buf[item % Capacity] \in Nat
    BY <2>1 DEF RingInv, Types
  <2>3. Types'
    BY <1>1, <1>6, <2>2 DEF RingInv, Types, ProcessItem
  <2>4. PopFinds'
    BY <1>1, <1>6 DEF RingInv, PopFinds, checkMinFilled, ProcessItem
  <2>5. QED  BY <1>1, <1>2, <2>3, <2>4 DEF RingInv
<1>7. CASE NotifyNotFull \/ Spurious
  <2>1. Types'
    BY <1>1, <1>7 DEF RingInv, Types, NotifyNotFull, Spurious, Waiting
  <2>2. PopFinds'
    BY <1>1, <1>7 DEF RingInv, PopFinds, checkMinFilled, NotifyNotFull, Spurious
  <2>3. QED  BY <1>1, <1>2, <2>1, <2>2 DEF RingInv
<1>8. QED  BY <1>3, <1>4, <1>5, <1>6, <1>7

\* Only Push and Pop touch the ring.
LEMMA StepCases ==
  ASSUME [Next]_vars
  PROVE  \/ \E p \in Producers : Push(p)
         \/ Pop
         \/ /\ UNCHANGED ringVars
            /\ \/ \E p \in Producers : PushBlocks(p) \/ NotifyMinFilled(p)
               \/ WaitUntil \/ TimedOut \/ Timeout \/ Front \/ ProcessItem
               \/ NotifyNotFull \/ Expire \/ Spurious
               \/ UNCHANGED vars
BY DEF Next, ProducerStep, ConsumerStep, PushBlocks, NotifyMinFilled, WaitUntil,
       TimedOut, Timeout, Front, ProcessItem, NotifyNotFull, Expire, Spurious, vars

LEMMA InitRing == Init => RingInv
BY RingAssumption, SyncAssumption
   DEF Init, RingInit, RingInv, Types, SizeOK, PopFinds, size

\* Type correctness, consistent counters, and a pop that always has something
\* to remove (RingBuffer.h checks none of this, RingBufferSync.h sees to it).
THEOREM RingCorrect == Spec => []RingInv
<1>1. RingInv /\ [Next]_vars => RingInv'
  BY StepCases, PushRing, PopRing, QuietRing
<1>2. QED  BY InitRing, <1>1, PTL DEF Spec

\* Types, and counters that never run past each other (RingBuffer.h needs no
\* checks).
THEOREM CountersInRange == Spec => []TypeOK
<1>1. RingInv => TypeOK
  BY DEF RingInv, TypeOK
<1>2. QED  BY <1>1, RingCorrect, PTL

\* The consumer's element is the front one until its pop, which never waits.
THEOREM PopNeverEmpty == Spec => []PopFinds
<1>1. RingInv => PopFinds
  BY DEF RingInv
<1>2. QED  BY <1>1, RingCorrect, PTL

-----------------------------------------------------------------------------
(* The consumer's wake-up. *)

\* Deciding under the mutex whether to notify, and notifying after it is
\* released (push_back), loses no wake-up of the consumer: a producer that
\* fills the buffer enough is about to notify until it has done so.
LEMMA ConsumerWakesStep ==
  ASSUME RingInv, ConsumerWakes, [Next]_vars
  PROVE  ConsumerWakes'
<1>1. CASE \E p \in Producers : Push(p)
  <2>1. PICK p \in Producers : Push(p)
    BY <1>1
  <2>2. checkMinFilled' => prod'[p] = "notify"
    BY <2>1 DEF Push, DoNotify, RingInv, Types
  <2>3. QED  BY <2>2 DEF ConsumerWakes
<1>2. CASE Pop
  BY <1>2 DEF Pop, ConsumerWakes
<1>3. ASSUME UNCHANGED ringVars
      PROVE  checkMinFilled' = checkMinFilled
  BY <1>3 DEF ringVars, checkMinFilled, size
<1>4. ASSUME UNCHANGED ringVars,
             NEW p \in Producers, PushBlocks(p) \/ NotifyMinFilled(p)
      PROVE  ConsumerWakes'
  <2>1. CASE PushBlocks(p)
    <3>1. \A q \in Producers : prod[q] = "notify" => prod'[q] = "notify"
      BY <2>1 DEF PushBlocks, RingInv, Types
    <3>2. QED  BY <1>3, <1>4, <2>1, <3>1 DEF ConsumerWakes, PushBlocks
  <2>2. CASE NotifyMinFilled(p)
    BY <2>2 DEF NotifyMinFilled, ConsumerWakes
  <2>3. QED  BY <1>4, <2>1, <2>2
<1>5. ASSUME UNCHANGED ringVars,
             \/ WaitUntil \/ TimedOut \/ Timeout \/ Front \/ ProcessItem
             \/ NotifyNotFull \/ Expire \/ UNCHANGED vars
      PROVE  ConsumerWakes'
  BY <1>3, <1>5 DEF ConsumerWakes, WaitUntil, TimedOut, Timeout, Front, ProcessItem,
                    NotifyNotFull, Expire, vars
<1>6. ASSUME UNCHANGED ringVars, Spurious
      PROVE  ConsumerWakes'
  <2>1. \A q \in Producers : prod[q] = "notify" => prod'[q] = "notify"
    BY <1>6 DEF Spurious, RingInv, Types
  <2>2. cons' = "wait" => cons = "wait"
    BY <1>6 DEF Spurious
  <2>3. QED  BY <1>3, <1>6, <2>1, <2>2 DEF ConsumerWakes
<1>7. QED  BY StepCases, <1>1, <1>2, <1>4, <1>5, <1>6

-----------------------------------------------------------------------------
(* The producers' wake-ups. *)

LEMMA SetsFinite ==
  /\ IsFiniteSet(Waiting) /\ IsFiniteSet(Woken)
  /\ Cardinality(Waiting) \in Nat /\ Cardinality(Woken) \in Nat
<1>1. Waiting \subseteq Producers /\ Woken \subseteq Producers
  BY DEF Waiting, Woken
<1>2. QED  BY <1>1, SyncAssumption, FS_Subset, FS_CardinalityType

\* A producer wakes up, notified or by itself: one more is on its way.
LEMMA WokenMore ==
  ASSUME NEW p \in Waiting, Types, prod' = [prod EXCEPT ![p] = "woken"]
  PROVE  Cardinality(Woken') = Cardinality(Woken) + 1
<1>1. Woken' = Woken \cup {p} /\ p \notin Woken
  BY DEF Woken, Waiting, Types
<1>2. QED  BY <1>1, SetsFinite, FS_AddElement

\* A producer stores its element: at most one fewer is on its way.
LEMMA WokenFewer ==
  ASSUME NEW p \in Producers, Types, Push(p)
  PROVE  Waiting' = Waiting /\ Cardinality(Woken') >= Cardinality(Woken) - 1
<1>1. /\ prod' \in [Producers -> {"idle", "wait", "woken", "notify"}]
      /\ prod'[p] \in {"notify", "idle"}
      /\ \A q \in Producers \ {p} : prod'[q] = prod[q]
      /\ prod[p] \in {"idle", "woken"}
  BY DEF Push, Types
<1>2. Waiting' = Waiting /\ Woken' = Woken \ {p}
  BY <1>1 DEF Waiting, Woken
<1>3. CASE p \in Woken
  <2>1. Cardinality(Woken \ {p}) = Cardinality(Woken) - 1
    BY <1>3, SetsFinite, FS_RemoveElement
  <2>2. QED  BY <1>2, <2>1, SetsFinite
<1>4. CASE p \notin Woken
  <2>1. Woken' = Woken
    BY <1>2, <1>4
  <2>2. QED  BY <1>2, <2>1, SetsFinite
<1>5. QED  BY <1>3, <1>4

\* notify_one per pop wakes enough producers, however many of them sleep and
\* whoever else takes a free element first.
LEMMA ProducersWakeStep ==
  ASSUME RingInv, ProducersWake, [Next]_vars
  PROVE  ProducersWake'
<1> DEFINE Due == IF cons = "notify" THEN 1 ELSE 0
<1>1. /\ Types /\ size \in Nat /\ Capacity \in Nat /\ size <= Capacity
      /\ Due \in Nat /\ Due' \in Nat
      /\ Cardinality(Woken) \in Nat /\ Cardinality(Woken') \in Nat
  <2>1. Cardinality(Woken') \in Nat
    <3>1. Woken' \subseteq Producers
      BY DEF Woken
    <3>2. QED  BY <3>1, SyncAssumption, FS_Subset, FS_CardinalityType
  <2>2. QED  BY <2>1, SetsFinite, SizeType, RingAssumption DEF RingInv, SizeOK, Types
<1>2. CASE \E p \in Producers : Push(p)
  <2>1. PICK p \in Producers : Push(p)
    BY <1>2
  <2>2. Waiting' = Waiting /\ Cardinality(Woken') >= Cardinality(Woken) - 1
    BY <1>1, <2>1, WokenFewer
  <2>3. size' = size + 1 /\ cons' = cons
    BY <2>1, PushRing DEF Push
  <2>4. QED  BY <1>1, <2>2, <2>3 DEF ProducersWake
<1>3. CASE Pop
  <2>1. size' = size - 1
    BY <1>3, PopRing
  <2>2. Waiting' = Waiting /\ Woken' = Woken /\ cons = "pop" /\ cons' = "notify"
    BY <1>3 DEF Pop, Waiting, Woken
  <2>3. QED  BY <1>1, <2>1, <2>2 DEF ProducersWake
<1>4. ASSUME UNCHANGED ringVars
      PROVE  size' = size
  BY <1>4 DEF ringVars, size
<1>5. ASSUME UNCHANGED ringVars, NEW p \in Producers, PushBlocks(p)
      PROVE  ProducersWake'
  <2>1. size' = size /\ size = Capacity
    BY <1>4, <1>5 DEF PushBlocks, full
  <2>2. QED  BY <1>1, <2>1 DEF ProducersWake
<1>6. ASSUME UNCHANGED ringVars, NEW p \in Producers, NotifyMinFilled(p)
      PROVE  ProducersWake'
  <2>1. Waiting' = Waiting /\ Woken' = Woken
    BY <1>1, <1>6 DEF NotifyMinFilled, Waiting, Woken, Types
  <2>2. Due' = Due
    BY <1>6 DEF NotifyMinFilled
  <2>3. QED  BY <1>4, <1>6, <2>1, <2>2 DEF ProducersWake
<1>7. ASSUME UNCHANGED ringVars,
             \/ WaitUntil \/ TimedOut \/ Timeout \/ Front \/ ProcessItem
             \/ Expire \/ UNCHANGED vars
      PROVE  ProducersWake'
  <2>1. Waiting' = Waiting /\ Woken' = Woken /\ Due' = Due
    BY <1>7 DEF WaitUntil, TimedOut, Timeout, Front, ProcessItem, Expire, vars,
                Waiting, Woken
  <2>2. QED  BY <1>4, <1>7, <2>1 DEF ProducersWake
<1>8. ASSUME UNCHANGED ringVars, NotifyNotFull
      PROVE  ProducersWake'
  <2>1. CASE Waiting = {} /\ UNCHANGED prod
    BY <2>1 DEF ProducersWake, Waiting
  <2>2. ASSUME NEW p \in Waiting, prod' = [prod EXCEPT ![p] = "woken"]
        PROVE  ProducersWake'
    <3>1. Cardinality(Woken') = Cardinality(Woken) + 1
      BY <1>1, <2>2, WokenMore
    <3>2. size' = size /\ Due = 1 /\ Due' = 0 /\ Waiting # {}
      BY <1>4, <1>8, <2>2 DEF NotifyNotFull
    <3>3. QED  BY <1>1, <3>1, <3>2 DEF ProducersWake
  <2>3. QED  BY <1>8, <2>1, <2>2 DEF NotifyNotFull
<1>9. ASSUME UNCHANGED ringVars, Spurious
      PROVE  ProducersWake'
  <2>1. CASE cons = "wait" /\ cons' = "woken" /\ UNCHANGED prod
    <3>1. Waiting' = Waiting /\ Woken' = Woken /\ Due' = Due
      BY <2>1 DEF Waiting, Woken
    <3>2. QED  BY <1>4, <1>9, <3>1 DEF ProducersWake
  <2>2. ASSUME NEW p \in Waiting, prod' = [prod EXCEPT ![p] = "woken"], cons' = cons
        PROVE  ProducersWake'
    <3>1. Cardinality(Woken') = Cardinality(Woken) + 1
      BY <1>1, <2>2, WokenMore
    <3>2. size' = size /\ Due' = Due /\ Waiting # {}
      BY <1>4, <1>9, <2>2
    <3>3. QED  BY <1>1, <3>1, <3>2 DEF ProducersWake
  <2>3. QED  BY <1>9, <2>1, <2>2 DEF Spurious, Waiting
<1>10. QED  BY StepCases, <1>2, <1>3, <1>5, <1>6, <1>7, <1>8, <1>9

-----------------------------------------------------------------------------

\* The inductive invariant behind the theorems below.
WakeInv == RingInv /\ ConsumerWakes /\ ProducersWake

THEOREM WakeInvariant == Spec => []WakeInv
<1>1. Init => WakeInv
  BY InitRing DEF Init, WakeInv, ConsumerWakes, ProducersWake, Waiting
<1>2. WakeInv /\ [Next]_vars => WakeInv'
  <2>1. WakeInv /\ [Next]_vars => RingInv'
    BY StepCases, PushRing, PopRing, QuietRing DEF WakeInv
  <2>2. QED  BY <2>1, ConsumerWakesStep, ProducersWakeStep DEF WakeInv
<1>3. QED  BY <1>1, <1>2, PTL DEF Spec

\* The consumer never sleeps through a buffer that is filled enough without
\* a notification on its way (push_back, wait_until).
THEOREM ConsumerNeverForgotten == Spec => []ConsumerWakes
<1>1. WakeInv => ConsumerWakes
  BY DEF WakeInv
<1>2. QED  BY <1>1, WakeInvariant, PTL

\* No producer sleeps on a free element that nobody is on the way to take
\* (push_back, pop).
THEOREM ProducersNeverForgotten == Spec => []ProducersWake
<1>1. WakeInv => ProducersWake
  BY DEF WakeInv
<1>2. QED  BY <1>1, WakeInvariant, PTL

\* With MinFill below the capacity (the constructor's check), consumer and
\* producers never all sleep.
THEOREM NeverAllAsleep == Spec => []NoDeadlock
<1>1. WakeInv => NoDeadlock
  <2>1. SUFFICES ASSUME WakeInv, cons = "wait", Producers # {},
                        \A p \in Producers : prod[p] = "wait"
                 PROVE  FALSE
    BY DEF NoDeadlock
  <2>2. ~checkMinFilled
    BY <2>1 DEF WakeInv, ConsumerWakes
  <2>3. Waiting # {} /\ Woken = {}
    BY <2>1 DEF Waiting, Woken
  <2>4. Capacity - size <= 0
    BY <2>1, <2>3, FS_EmptySet DEF WakeInv, ProducersWake
  <2>5. /\ size \in Nat /\ Capacity \in Nat
        /\ MinFill \in Nat /\ MinFill < Capacity
    BY <2>1, SizeType, RingAssumption, SyncAssumption DEF WakeInv, RingInv, Types
  <2>6. QED  BY <2>2, <2>4, <2>5 DEF checkMinFilled
<1>2. QED  BY <1>1, WakeInvariant, PTL

-----------------------------------------------------------------------------
(* The arithmetic of masked counters: Capacity divides IdxMod, so that the *)
(* positions of a counter that wraps around go on where they were.         *)

LEMMA DivMod ==
  ASSUME NEW a \in Nat, NEW c \in Nat \ {0}
  PROVE  \E q \in Nat : a = c * q + (a % c) /\ a % c \in 0 .. c - 1
<1>1. a = c * (a \div c) + (a % c) /\ a % c \in 0 .. c - 1
  BY SMT
<1>2. a \div c \in Nat
  BY SMT
<1>3. QED  BY <1>1, <1>2

\* The only multiple of c strictly between -c and c is 0.
LEMMA SmallMultiple ==
  ASSUME NEW c \in Nat \ {0}, NEW k \in Int, NEW d \in Int,
         d = c * k, 0 - c < d, d < c
  PROVE  d = 0
<1>1. CASE k >= 1
  <2>1. c * k >= c
    BY <1>1, SMT
  <2>2. QED  BY <2>1, SMT
<1>2. CASE k <= 0 - 1
  <2>1. c * k <= 0 - c
    BY <1>2, SMT
  <2>2. QED  BY <2>1, SMT
<1>3. CASE k = 0
  BY <1>3, SMT
<1>4. QED  BY <1>1, <1>2, <1>3

LEMMA ModUnique ==
  ASSUME NEW c \in Nat \ {0}, NEW a \in Nat, NEW q \in Nat, NEW r \in 0 .. c - 1,
         a = c * q + r
  PROVE  a % c = r
<1> DEFINE m == a % c
<1>1. PICK p \in Nat : a = c * p + m /\ m \in 0 .. c - 1
  BY DivMod
<1> HIDE DEF m
<1>2. m - r = c * (q - p)
  BY <1>1, SMT
<1>3. m - r \in Int /\ q - p \in Int /\ 0 - c < m - r /\ m - r < c
  BY <1>1, SMT
<1>4. m - r = 0
  BY <1>2, <1>3, SmallMultiple
<1>5. QED  BY <1>1, <1>4 DEF m

LEMMA ModPeriod ==
  ASSUME NEW c \in Nat \ {0}, NEW a \in Nat, NEW n \in Nat, n % c = 0
  PROVE  (a + n) % c = a % c
<1> DEFINE r == a % c
<1>1. PICK p \in Nat : a = c * p + r /\ r \in 0 .. c - 1
  BY DivMod
<1>2. PICK q \in Nat : n = c * q + 0
  BY DivMod
<1> HIDE DEF r
<1>3. a + n = c * (p + q) + r
  BY <1>1, <1>2, SMT
<1>4. a + n \in Nat /\ p + q \in Nat
  BY SMT
<1>5. (a + n) % c = r
  BY <1>1, <1>3, <1>4, ModUnique
<1>6. QED  BY <1>5 DEF r

LEMMA ModDiffers ==
  ASSUME NEW c \in Nat \ {0}, NEW a \in Nat, NEW b \in Nat, a < b, b - a < c
  PROVE  a % c # b % c
<1> DEFINE r == a % c
           s == b % c
<1>1. SUFFICES ASSUME r = s  PROVE FALSE
  OBVIOUS
<1>2. PICK p \in Nat : a = c * p + r /\ r \in 0 .. c - 1
  BY DivMod
<1>3. PICK q \in Nat : b = c * q + s /\ s \in 0 .. c - 1
  BY DivMod
<1> HIDE DEF r, s
<1>4. b - a = c * (q - p)
  BY <1>1, <1>2, <1>3, SMT
<1>5. b - a \in Int /\ q - p \in Int /\ 0 - c < b - a
  BY SMT
<1>6. b - a = 0
  BY <1>4, <1>5, SmallMultiple
<1>7. QED  BY <1>6, SMT

-----------------------------------------------------------------------------
(* The ring is a queue. *)

\* Where the i-th element of the ring is.
Pos(i) == (h + i - 1) % Capacity

\* The counters and the constants, for the lemmas below.
LEMMA RingFacts ==
  ASSUME RingInv
  PROVE  /\ Capacity \in Nat \ {0} /\ IdxMod \in Nat /\ IdxMod > Capacity
         /\ IdxMod % Capacity = 0
         /\ h \in 0 .. IdxMod - 1 /\ t \in 0 .. IdxMod - 1
         /\ size \in 0 .. Capacity /\ pushed \in Nat /\ done \in Seq(Nat)
<1>1. size \in Nat /\ size <= Capacity
  BY SizeType, RingAssumption DEF RingInv, SizeOK, Types
<1>2. QED  BY <1>1, RingAssumption DEF RingInv, Types

\* The tail is one past the last element, and the tail's place is free.
LEMMA TailPos ==
  ASSUME RingInv
  PROVE  /\ Pos(size + 1) = t % Capacity
         /\ size < Capacity => \A i \in 1 .. size : Pos(i) # t % Capacity
<1>1. Pos(size + 1) = t % Capacity
  <2>1. h + (size + 1) - 1 = t \/ h + (size + 1) - 1 = t + IdxMod
    BY RingFacts DEF size
  <2>2. (t + IdxMod) % Capacity = t % Capacity
    <3>1. t \in Nat
      BY RingFacts
    <3>2. QED  BY <3>1, RingFacts, ModPeriod
  <2>3. QED  BY <2>1, <2>2 DEF Pos
<1>2. ASSUME size < Capacity, NEW i \in 1 .. size
      PROVE  Pos(i) # t % Capacity
  <2>1. /\ h + i - 1 \in Nat /\ h + (size + 1) - 1 \in Nat
        /\ h + i - 1 < h + (size + 1) - 1
        /\ (h + (size + 1) - 1) - (h + i - 1) < Capacity
    <3> DEFINE n == size
    <3>1. n \in Nat /\ n < Capacity /\ i \in 1 .. n /\ h \in Nat /\ Capacity \in Nat
      BY RingFacts, <1>2
    <3> HIDE DEF n
    <3>2. /\ h + i - 1 \in Nat /\ h + (n + 1) - 1 \in Nat
          /\ h + i - 1 < h + (n + 1) - 1
          /\ (h + (n + 1) - 1) - (h + i - 1) < Capacity
      BY <3>1
    <3>3. QED  BY <3>2 DEF n
  <2>2. Pos(i) # Pos(size + 1)
    BY <2>1, ModDiffers, RingFacts DEF Pos
  <2>3. QED  BY <1>1, <2>2
<1>3. QED  BY <1>1, <1>2

\* When the head moves on, each element is one place nearer to the front.
LEMMA HeadPos ==
  ASSUME RingInv, h' = Inc(h), NEW i \in 1 .. Capacity
  PROVE  Pos(i)' = Pos(i + 1)
<1>1. CASE h = IdxMod - 1
  <2>1. h' + i - 1 = i - 1 /\ h + (i + 1) - 1 = (i - 1) + IdxMod
    BY <1>1, RingFacts DEF Inc
  <2>2. i - 1 \in Nat
    OBVIOUS
  <2>3. ((i - 1) + IdxMod) % Capacity = (i - 1) % Capacity
    BY <2>2, RingFacts, ModPeriod
  <2>4. QED  BY <2>1, <2>3 DEF Pos
<1>2. CASE h # IdxMod - 1
  <2>1. h' + i - 1 = h + (i + 1) - 1
    BY <1>2, RingFacts DEF Inc
  <2>2. QED  BY <2>1 DEF Pos
<1>3. QED  BY <1>1, <1>2

\* What the buffer stands for.
Elements == [i \in 1 .. size |-> buf[(h + i - 1) % Capacity]]

LEMMA ElementsType ==
  ASSUME RingInv
  PROVE  /\ Elements \in Seq(Nat) /\ Len(Elements) = size
         /\ \A i \in 1 .. size : Elements[i] = buf[Pos(i)]
<1>1. \A i \in 1 .. size : buf[Pos(i)] \in Nat
  <2>1. \A i \in 1 .. size : h + i - 1 \in Nat
    BY RingFacts
  <2>2. \A a \in Nat : a % Capacity \in 0 .. Capacity - 1
    BY RingFacts, DivMod
  <2>3. \A i \in 1 .. size : Pos(i) \in 0 .. Capacity - 1
    BY <2>1, <2>2 DEF Pos
  <2>4. QED  BY <2>3 DEF RingInv, Types
<1>2. Elements = [i \in 1 .. size |-> buf[Pos(i)]]
  BY DEF Elements, Pos
<1>3. size \in Nat
  BY RingFacts
<1>4. Elements \in [1 .. size -> Nat]
  BY <1>1, <1>2
<1>5. QED  BY <1>2, <1>3, <1>4

LEMMA PushElements ==
  ASSUME NEW p \in Producers, RingInv, Push(p)
  PROVE  Elements' = Append(Elements, pushed + 1)
<1>1. RingInv' /\ size' = size + 1 /\ size < Capacity
  BY PushRing
<1>2. h' = h /\ buf' = [buf EXCEPT ![t % Capacity] = pushed + 1]
  BY DEF Push, Store
<1>3. \A i \in 1 .. size : buf'[Pos(i)] = buf[Pos(i)]
  BY <1>1, <1>2, TailPos DEF RingInv, Types
<1>4. buf'[Pos(size + 1)] = pushed + 1
  <2>1. t \in Nat /\ Capacity \in Nat \ {0}
    BY RingFacts
  <2>2. t % Capacity \in 0 .. Capacity - 1
    BY <2>1, DivMod
  <2>3. QED  BY <2>2, <1>2, TailPos DEF RingInv, Types
<1>5. Elements' = [i \in 1 .. size + 1 |-> buf'[Pos(i)]]
  BY <1>1, <1>2 DEF Elements, Pos
<1>6. /\ Elements \in Seq(Nat) /\ Len(Elements) = size /\ size \in Nat
      /\ \A i \in 1 .. size : Elements[i] = buf[Pos(i)]
  BY ElementsType, RingFacts
<1>7. Append(Elements, pushed + 1)
        = [i \in 1 .. size + 1 |-> IF i = size + 1 THEN pushed + 1 ELSE Elements[i]]
  BY <1>6
<1>8. \A i \in 1 .. size + 1 :
        buf'[Pos(i)] = IF i = size + 1 THEN pushed + 1 ELSE Elements[i]
  BY <1>3, <1>4, <1>6
<1>9. QED  BY <1>5, <1>7, <1>8

LEMMA PopElements ==
  ASSUME RingInv, Pop
  PROVE  Elements' = Tail(Elements)
<1>1. size' = size - 1 /\ size \in 1 .. Capacity
  BY PopRing, RingFacts, SyncAssumption DEF Pop, checkMinFilled
<1>2. h' = Inc(h) /\ buf' = buf
  BY DEF Pop, Drop
<1>3. Elements' = [i \in 1 .. size - 1 |-> buf[Pos(i)']]
  BY <1>1, <1>2 DEF Elements, Pos
<1>4. \A i \in 1 .. size - 1 : buf[Pos(i)'] = Elements[i + 1]
  <2>1. \A i \in 1 .. size - 1 : i \in 1 .. Capacity /\ i + 1 \in 1 .. size
    BY <1>1, RingFacts
  <2>2. \A i \in 1 .. size - 1 : Pos(i)' = Pos(i + 1)
    BY <1>2, <2>1, HeadPos
  <2>3. QED  BY <2>1, <2>2, ElementsType
<1>5. Tail(Elements) = [i \in 1 .. size - 1 |-> Elements[i + 1]]
  <2>1. Elements \in Seq(Nat) /\ Len(Elements) = size /\ size \in Nat \ {0}
    BY <1>1, ElementsType, RingFacts
  <2>2. /\ Tail(Elements) \in Seq(Nat) /\ Len(Tail(Elements)) = size - 1
        /\ \A i \in 1 .. Len(Tail(Elements)) : Tail(Elements)[i] = Elements[i + 1]
    BY <2>1, HeadTailProperties
  <2>3. Tail(Elements) = [i \in 1 .. Len(Tail(Elements)) |-> Tail(Elements)[i]]
    <3>1. \A s \in Seq(Nat) : s = [i \in 1 .. Len(s) |-> s[i]]
      OBVIOUS
    <3>2. QED  BY <2>2, <3>1, Zenon
  <2>4. QED  BY <2>2, <2>3
<1>6. QED  BY <1>3, <1>4, <1>5

\* The elements processed are those that are no longer in the ring, and the
\* one about to be removed.
Progress == Len(done) = pushed - size + (IF cons = "pop" THEN 1 ELSE 0)

QueueInv == RingInv /\ Progress

\* How each step appears to the users of the queue (RingBufferSync.h).
LEMMA QueueStep ==
  ASSUME QueueInv, [Next]_vars
  PROVE  /\ Progress'
         /\ [Queue!Next]_<<Elements, pushed, cons \in {"process", "pop"}, done>>
<1> DEFINE Busy == cons \in {"process", "pop"}
           Stutter == /\ Elements' = Elements /\ pushed' = pushed
                      /\ Busy' = Busy /\ done' = done
<1>0. RingInv /\ Progress /\ Len(Elements) = size /\ Len(done) \in Nat
      /\ size \in Nat /\ pushed \in Nat /\ MinFill \in Nat
  BY RingFacts, ElementsType, SyncAssumption DEF QueueInv
<1>1. CASE \E p \in Producers : Push(p)
  <2>1. PICK p \in Producers : Push(p)
    BY <1>1
  <2>2. /\ pushed' = pushed + 1 /\ cons' = cons /\ done' = done
        /\ size' = size + 1 /\ size < Capacity
        /\ Elements' = Append(Elements, pushed + 1)
    BY <1>0, <2>1, PushRing, PushElements DEF Push
  <2>3. Progress'
    BY <1>0, <2>2 DEF Progress
  <2>4. Queue!Put
    BY <1>0, <2>2 DEF Queue!Put, Elements
  <2>5. QED  BY <2>3, <2>4 DEF Queue!Next
<1>2. CASE Pop
  <2>1. /\ size' = size - 1 /\ pushed' = pushed /\ done' = done
        /\ cons = "pop" /\ cons' = "notify"
        /\ Elements' = Tail(Elements)
    BY <1>0, <1>2, PopRing, PopElements DEF Pop
  <2>2. Progress'
    BY <1>0, <2>1 DEF Progress
  <2>3. Len(done) = pushed - Len(Elements) + 1
    BY <1>0, <2>1 DEF Progress
  <2>4. Busy = TRUE /\ Busy' = FALSE
    BY <2>1
  <2>5. Queue!Remove
    BY <2>1, <2>3, <2>4, Zenon DEF Queue!Remove, Elements
  <2>6. QED  BY <2>2, <2>5 DEF Queue!Next
<1>3. ASSUME UNCHANGED ringVars
      PROVE  Elements' = Elements /\ size' = size
  BY <1>3 DEF ringVars, Elements, size
<1>4. ASSUME UNCHANGED ringVars, Front
      PROVE  Progress' /\ Queue!Begin
  <2>1. /\ cons = "front" /\ cons' = "process"
        /\ pushed' = pushed /\ done' = done
    BY <1>4 DEF Front
  <2>2. size > MinFill
    BY <1>0, <2>1 DEF RingInv, PopFinds, checkMinFilled
  <2>3. Progress'
    BY <1>0, <1>3, <1>4, <2>1 DEF Progress
  <2>4. QED  BY <1>0, <1>3, <1>4, <2>1, <2>2, <2>3 DEF Queue!Begin, Elements
<1>5. ASSUME UNCHANGED ringVars, ProcessItem
      PROVE  Progress' /\ Queue!Work
  <2>1. /\ cons = "process" /\ cons' = "pop" /\ pushed' = pushed
        /\ done' = Append(done, buf[item % Capacity])
    BY <1>5 DEF ProcessItem
  <2>2. size > MinFill /\ item = h
    BY <1>0, <2>1 DEF RingInv, PopFinds, checkMinFilled
  <2>3. Head(Elements) = buf[item % Capacity]
    <3>1. h + 1 - 1 = h
      BY <1>0, RingFacts
    <3>2. Pos(1) = item % Capacity
      BY <2>2, <3>1 DEF Pos
    <3>3. Head(Elements) = Elements[1] /\ 1 \in 1 .. size
      BY <1>0, <2>2, ElementsType
    <3>4. QED  BY <1>0, <3>2, <3>3, ElementsType
  <2>4. Len(done') = Len(done) + 1
    BY <1>0, <2>1, RingFacts
  <2>5. Progress'
    BY <1>0, <1>3, <1>5, <2>1, <2>4 DEF Progress
  <2>6. Len(done) = pushed - Len(Elements)
    BY <1>0, <2>1 DEF Progress
  <2>7. QED  BY <1>3, <1>5, <2>1, <2>3, <2>5, <2>6 DEF Queue!Work, Elements
<1>6. ASSUME UNCHANGED ringVars,
             \/ \E p \in Producers : PushBlocks(p) \/ NotifyMinFilled(p)
             \/ WaitUntil \/ TimedOut \/ Timeout
             \/ NotifyNotFull \/ Expire \/ Spurious
             \/ UNCHANGED vars
      PROVE  Progress' /\ Stutter
  <2>1. /\ pushed' = pushed /\ done' = done /\ Busy' = Busy
        /\ (cons' = "pop") = (cons = "pop")
    BY <1>6 DEF PushBlocks, NotifyMinFilled, WaitUntil, TimedOut, Timeout,
                NotifyNotFull, Expire, Spurious, vars
  <2>2. Progress'
    BY <1>0, <1>3, <1>6, <2>1 DEF Progress
  <2>3. QED  BY <1>3, <1>6, <2>1, <2>2
<1>7. QED  BY StepCases, <1>1, <1>2, <1>4, <1>5, <1>6 DEF Queue!Next

\* The ring buffer is a bounded queue: each element is processed once, in the
\* order of the pushes, while it is still in the buffer, and the last MinFill
\* ones are left alone (RingBufferSync.h as a whole).
THEOREM RingIsQueue == Spec => QueueSpec
<1>1. Init => QueueInv /\ Queue!Init
  <2>1. ASSUME Init  PROVE size = 0 /\ RingInv
    BY <2>1, InitRing DEF Init, RingInit, size
  <2>2. ASSUME Init  PROVE Progress
    BY <2>1, <2>2 DEF Init, Progress
  <2>3. ASSUME Init  PROVE Queue!Init
    <3>1. Elements = <<>>
      BY <2>1, <2>3, ElementsType
    <3>2. QED  BY <2>3, <3>1 DEF Init, Queue!Init, Elements
  <2>4. QED  BY <2>1, <2>2, <2>3 DEF QueueInv
<1>2. QueueInv /\ [Next]_vars => QueueInv'
  BY StepCases, PushRing, PopRing, QuietRing, QueueStep DEF QueueInv
<1>3. QueueInv /\ [Next]_vars
        => [Queue!Next]_<<Elements, pushed, cons \in {"process", "pop"}, done>>
  BY QueueStep
<1>4. QED  BY <1>1, <1>2, <1>3, PTL DEF Spec, QueueSpec, Queue!Spec, Elements
=============================================================================
