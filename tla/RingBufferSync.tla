--------------------------- MODULE RingBufferSync ---------------------------
(***************************************************************************)
(* The ring buffer between threads (RingBufferSync.h): any number of       *)
(* threads push, blocking or not, and one thread runs process() for ever.  *)
(* The pattern buffer, the input buffers and the output buffers are such   *)
(* buffers.                                                                *)
(*                                                                         *)
(* The mutex is held from the start of push_back, wait_until and pop to    *)
(* their end or to a wait on a condition variable; each such stretch is    *)
(* one action.  A notification comes after the mutex is released and is an *)
(* action of its own; a thread that was notified, that timed out or that   *)
(* wakes up for no reason competes for the mutex like any other.           *)
(*                                                                         *)
(* An element is the number of the push that stored it.                    *)
(*                                                                         *)
(* An operator whose name ends in _Fault is the operator after it, with a  *)
(* plausible bug; no specification uses it.                                *)
(***************************************************************************)
EXTENDS RingBuffer, FiniteSets, Sequences

CONSTANTS
  Producers, \* the pushing threads
  MinFill,   \* minfill_
  MaxPush    \* bound: number of elements pushed

ASSUME SyncAssumption ==
  /\ MinFill \in Nat
  /\ MinFill < Capacity
  /\ MaxPush \in Nat
  /\ IsFiniteSet(Producers)

VARIABLES
  prod,   \* prod[p]: where the producer is
  cons,   \* where the consumer is
  item,   \* the element the consumer took a reference to
  pushed, \* number of elements stored so far
  done    \* the elements processed

vars == <<ringVars, prod, cons, item, pushed, done>>

Init ==
  /\ RingInit
  /\ prod = [p \in Producers |-> "idle"]
  /\ cons = "poll"
  /\ item = 0
  /\ pushed = 0
  /\ done = <<>>

checkMinFilled == size > MinFill

-----------------------------------------------------------------------------
(* push_back(v, doBlock) *)

\* The producers asleep on not_full_, and those on their way out of the wait.
Waiting == {p \in Producers : prod[p] = "wait"}
Woken   == {p \in Producers : prod[p] = "woken"}

DoNotify_Fault == checkMinFilled
DoNotify == checkMinFilled'

\* Store the element; whether to notify is decided before the mutex is
\* released.
Push(p) ==
  /\ prod[p] \in {"idle", "woken"}
  /\ prod[p] = "idle" => pushed < MaxPush
  /\ ~full
  /\ Store(pushed + 1)
  /\ pushed' = pushed + 1
  /\ prod' = [prod EXCEPT ![p] = IF DoNotify THEN "notify" ELSE "idle"]
  /\ UNCHANGED <<cons, item, done>>

\* A full buffer sends a blocking producer to sleep on not_full_; a
\* non-blocking one returns false, and nothing changes.
PushBlocks(p) ==
  /\ prod[p] \in {"idle", "woken"}
  /\ prod[p] = "idle" => pushed < MaxPush
  /\ full
  /\ prod' = [prod EXCEPT ![p] = "wait"]
  /\ UNCHANGED <<ringVars, cons, item, pushed, done>>

\* notify_one on minfilled_: only the consumer ever waits for it.
NotifyMinFilled(p) ==
  /\ prod[p] = "notify"
  /\ prod' = [prod EXCEPT ![p] = "idle"]
  /\ cons' = IF cons = "wait" THEN "woken" ELSE cons
  /\ UNCHANGED <<ringVars, item, pushed, done>>

-----------------------------------------------------------------------------
(* process(), called in a loop *)

\* wait_until: on entry, and again when a wait ended without a time-out.
WaitUntil ==
  /\ cons \in {"poll", "woken"}
  /\ cons' = IF checkMinFilled THEN "front" ELSE "wait"
  /\ UNCHANGED <<ringVars, prod, item, pushed, done>>

\* The deadline passes: the consumer waits no longer, but others may get the
\* mutex before it does.
Expire ==
  /\ cons = "wait"
  /\ cons' = "expired"
  /\ UNCHANGED <<ringVars, prod, item, pushed, done>>

TimedOut_Fault ==
  /\ cons = "expired"
  /\ cons' = "front"
  /\ UNCHANGED <<ringVars, prod, item, pushed, done>>

\* wait_until after a time-out looks at the buffer once more.
TimedOut ==
  /\ cons = "expired"
  /\ cons' = IF checkMinFilled THEN "front" ELSE "timeout"
  /\ UNCHANGED <<ringVars, prod, item, pushed, done>>

\* timeout(), and a new deadline.
Timeout ==
  /\ cons = "timeout"
  /\ cons' = "poll"
  /\ UNCHANGED <<ringVars, prod, item, pushed, done>>

\* The consumer works on the front element in place, without the mutex.
Front ==
  /\ cons = "front"
  /\ item' = h
  /\ cons' = "process"
  /\ UNCHANGED <<ringVars, prod, pushed, done>>

ProcessItem ==
  /\ cons = "process"
  /\ done' = Append(done, buf[item % Capacity])
  /\ cons' = "pop"
  /\ UNCHANGED <<ringVars, prod, item, pushed>>

\* pop waits until the buffer is filled enough.  Nobody else removes
\* elements, so it still is (PopFinds).
Pop ==
  /\ cons = "pop"
  /\ checkMinFilled
  /\ Drop
  /\ cons' = "notify"
  /\ UNCHANGED <<prod, item, pushed, done>>

NotifyNotFull_Fault ==
  /\ cons = "notify"
  /\ cons' = "poll"
  /\ \/ /\ size # Capacity - 1 \/ Waiting = {}
        /\ UNCHANGED prod
     \/ \E p \in Waiting :
          /\ size = Capacity - 1
          /\ prod' = [prod EXCEPT ![p] = "woken"]
  /\ UNCHANGED <<ringVars, item, pushed, done>>

NotNotified_Fault ==
  /\ cons = "notify"
  /\ cons' = "poll"
  /\ UNCHANGED <<ringVars, prod, item, pushed, done>>

\* notify_one on not_full_.
NotifyNotFull ==
  /\ cons = "notify"
  /\ cons' = "poll"
  /\ \/ Waiting = {} /\ UNCHANGED prod
     \/ \E p \in Waiting : prod' = [prod EXCEPT ![p] = "woken"]
  /\ UNCHANGED <<ringVars, item, pushed, done>>

\* A condition variable may wake a thread up for no reason.
Spurious ==
  \/ /\ cons = "wait"
     /\ cons' = "woken"
     /\ UNCHANGED <<ringVars, prod, item, pushed, done>>
  \/ \E p \in Producers :
       /\ prod[p] = "wait"
       /\ prod' = [prod EXCEPT ![p] = "woken"]
       /\ UNCHANGED <<ringVars, cons, item, pushed, done>>

-----------------------------------------------------------------------------

ProducerStep(p) == Push(p) \/ PushBlocks(p) \/ NotifyMinFilled(p)

ConsumerStep ==
  \/ WaitUntil \/ TimedOut \/ Timeout \/ Front
  \/ ProcessItem \/ Pop \/ NotifyNotFull

Next ==
  \/ \E p \in Producers : ProducerStep(p)
  \/ ConsumerStep
  \/ Expire
  \/ Spurious

Spec == Init /\ [][Next]_vars

(***************************************************************************)
(* Every thread is scheduled, but it is left open whether a deadline ever  *)
(* passes, whether a producer begins another push, and whether a thread    *)
(* wakes up by itself.                                                     *)
(***************************************************************************)
Fairness ==
  /\ WF_vars(ConsumerStep)
  /\ \A p \in Producers :
       /\ WF_vars(NotifyMinFilled(p))
       /\ WF_vars(prod[p] = "woken" /\ ProducerStep(p))

LiveSpec == Spec /\ Fairness

-----------------------------------------------------------------------------
(* Properties. *)

Types ==
  /\ buf \in [0 .. Capacity - 1 -> Nat]
  /\ h \in 0 .. IdxMod - 1
  /\ t \in 0 .. IdxMod - 1
  /\ prod \in [Producers -> {"idle", "wait", "woken", "notify"}]
  /\ cons \in {"poll", "wait", "woken", "expired", "timeout", "front",
               "process", "pop", "notify"}
  /\ item \in 0 .. IdxMod - 1
  /\ pushed \in Nat
  /\ done \in Seq(Nat)

SizeOK == size <= Capacity

\* Type correctness, and the counters never run past each other, wrapped around
\* or not: RingBuffer.h's "without range checking" is safe.
TypeOK == Types /\ SizeOK

\* The element under work is the front one and stays in the buffer until the
\* pop; the pop has something to remove and need not wait.
PopFinds ==
  /\ cons \in {"front", "process", "pop"} => checkMinFilled
  /\ cons \in {"process", "pop"} => item = h

\* The consumer's wake-up is never lost: if it waits although the buffer is
\* filled enough, a producer is about to notify it.
ConsumerWakes ==
  cons = "wait" /\ checkMinFilled => \E p \in Producers : prod[p] = "notify"

\* notify_one wakes one producer per free element and that is enough: if one
\* waits, every free element is spoken for by a producer already woken or by
\* the consumer's notification to come.
ProducersWake ==
  Waiting # {} =>
    Capacity - size <= Cardinality(Woken) + (IF cons = "notify" THEN 1 ELSE 0)

\* Producers and consumer never wait for each other.
NoDeadlock ==
  cons = "wait" /\ Producers # {} =>
    \E p \in Producers : prod[p] # "wait"

\* The buffer refines a queue: elements are processed once each, in the order
\* in which they were stored, and never the last MinFill ones.
Queue ==
  INSTANCE BoundedQueue WITH
    queue <- [i \in 1 .. size |-> buf[(h + i - 1) % Capacity]],
    busy  <- cons \in {"process", "pop"}
QueueSpec == Queue!Spec

\* Every element that MinFill others follow is processed, without any help
\* from time-outs.
Serves == \A n \in 1 .. MaxPush : pushed >= n + MinFill ~> Len(done) >= n
=============================================================================
