--------------------------- MODULE ChannelOutput ---------------------------
(***************************************************************************)
(* The way of a channel's results to the sinks and back to the pool:       *)
(*   - the input thread gives a finished buffer away, works on with a new  *)
(*     one, and pushes the old one into the output buffer, waiting while   *)
(*     that is full (the end of BsaChannelImpl::process, and timeout);     *)
(*   - the output thread takes it out and calls every sink connected to    *)
(*     its edef (processOutput), with omtx_ held;                          *)
(*   - sinks are added and deleted by any thread (addSink, delSink);       *)
(*   - the user releases each result he was given, from any thread         *)
(*     (BSA_ReleaseResults);                                               *)
(*   - the program exits: static objects are destroyed, the pool first,    *)
(*     then the core with output buffers, input buffers and channels.      *)
(*                                                                         *)
(* A result buffer (BsaResultItem) is a block of the pool.  It is freed    *)
(* with the last shared_ptr to it: `Owners' has all places for these.  The *)
(* user's plain pointer is none; for him the buffer points to itself       *)
(* (self_) while refc_, the number of releases to come, is not 0.          *)
(*                                                                         *)
(* Time stamps and OnInit, which have no effect on this state, are left    *)
(* out; so is what the buffer contains, but for the number of results.     *)
(*                                                                         *)
(* An operator whose name ends in _Fault is the operator after it, with a  *)
(* plausible bug; no specification uses it.                                *)
(***************************************************************************)
EXTENDS FreeList, FiniteSets, SequencesExt

CONSTANTS
  Edefs,      \* event definitions
  ShiftMask,  \* ShiftMask[e]: the edefs whose bits the int 1<<e has
  Sinks,      \* callback tables with closures
  Capacity,   \* capacity of the output buffer
  ResultsMax, \* BSA_RESULTS_MAX
  MaxProduce, \* bound: number of buffers given away
  MaxConnect  \* bound: number of sinks connected to an edef at a time

ASSUME OutputAssumption ==
  /\ ShiftMask \in [Edefs -> SUBSET Edefs]
  /\ IsFiniteSet(Edefs) /\ Edefs # {}
  /\ Cardinality(Edefs) <= MaxBlks \* each slot has a buffer from the start
  /\ Capacity \in Nat \ {0}
  /\ ResultsMax \in Nat \ {0}
  /\ MaxProduce \in Nat
  /\ MaxConnect \in Nat

VARIABLES
  work,       \* work[e]: work_ of the slot; 0 is the null pointer
  pushing,    \* the input thread's local pointer in process()
  queue,      \* the output buffer
  out,        \* the output thread: [pc, buf, num, it]
  item,       \* item[b]: [edef, num]: edef_ and numResults_
  self,       \* the blocks whose self_ is set
  refc,       \* refc[b]: refc_
  held,       \* held[b]: releases the user still owes
  resetting,  \* blocks whose refc_ fell to 0 and whose self_ is to be reset
  callbacks,  \* callbacks[e]: callbacks_ of the slot: [sink, asked]
  maxResults, \* maxResults[e]: maxResults_ of the slot
  inUse,      \* inUseMask_
  produced,   \* number of buffers given away
  exit        \* how far the destruction of static objects has come

resultVars == <<item, self, refc, held, resetting>>
sinkVars   == <<callbacks, maxResults, inUse>>
vars == <<poolVars, work, pushing, queue, out, resultVars, sinkVars, produced, exit>>

Asleep == [pc |-> "wait", buf |-> 0, num |-> 0, it |-> 0]

\* One edef after the other gets its first buffer (BsaSlot::BsaSlot).
Init ==
  /\ \E order \in Injection(Edefs, 1 .. Cardinality(Edefs)) : work = order
  /\ numBlks = Cardinality(Edefs) /\ lst = <<>> /\ defDest = FALSE /\ gone = FALSE
  /\ pushing = 0
  /\ queue = <<>>
  /\ out = Asleep
  /\ item = [b \in Blocks |-> [edef |-> CHOOSE e \in Edefs : TRUE, num |-> 0]]
  /\ self = {}
  /\ refc = [b \in Blocks |-> 0]
  /\ held = [b \in Blocks |-> 0]
  /\ resetting = {}
  /\ callbacks = [e \in Edefs |-> <<>>]
  /\ maxResults = [e \in Edefs |-> ResultsMax]
  /\ inUse = {}
  /\ produced = 0
  /\ exit = "run"

Owners == {work[e] : e \in Edefs} \cup {pushing} \cup ToSet(queue) \cup {out.buf} \cup self

\* A shared_ptr to b has just been dropped.
Dropped(b) == IF b \in Owners' THEN UNCHANGED poolVars ELSE Free(b)

-----------------------------------------------------------------------------
(* The input thread. *)

\* A buffer with n results is replaced by a new one.
Swap(e, n) ==
  /\ pushing = 0
  /\ exit \in {"run", "pool", "outStopped", "outGone"}
  /\ produced < MaxProduce
  /\ \E b \in Blocks :
       /\ Alloc(b)
       /\ work' = [work EXCEPT ![e] = b]
       /\ refc' = [refc EXCEPT ![b] = 0]
       /\ item' = [item EXCEPT ![work[e]] = [edef |-> e, num |-> n]]
  /\ pushing' = work[e]
  /\ produced' = produced + 1
  /\ UNCHANGED <<queue, out, self, held, resetting, sinkVars, exit>>

HasRoom_Fault == Len(queue) <= Capacity
HasRoom == Len(queue) < Capacity

\* push_back, blocking; process() returns and its pointer goes.  At exit the
\* ring may be gone by now: a step into the unknown, which is not modelled.
Push ==
  /\ pushing # 0
  /\ HasRoom
  /\ exit \in {"run", "pool", "outStopped"}
  /\ queue' = Append(queue, pushing)
  /\ pushing' = 0
  /\ UNCHANGED <<poolVars, work, out, resultVars, sinkVars, produced, exit>>

-----------------------------------------------------------------------------
(* The output thread: RingBufferSync::process, processOutput. *)

\* omtx_ is held from taking the front to the end of processOutput.
OmtxFree == out.pc \notin {"deliver", "release", "drop"}

InUse(e) == ShiftMask[e] \cap inUse # {}

Clip_Fault(n, e) == n
Clip(n, e) == IF n > maxResults[e] THEN maxResults[e] ELSE n

\* The pointer moves from the ring to the thread.  If the edef has sinks the
\* buffer gets a pointer to itself, with a count for the thread.
Take ==
  /\ out.pc = "wait"
  /\ queue # <<>>
  /\ LET b == Head(queue) e == item[b].edef IN
     /\ queue' = <<0>> \o Tail(queue)
     /\ IF InUse(e)
          THEN /\ self' = self \cup {b}
               /\ refc' = [refc EXCEPT ![b] = @ + 1]
               /\ out' = [pc |-> "deliver", buf |-> b, num |-> Clip(item[b].num, e), it |-> 1]
          ELSE /\ out' = [pc |-> "drop", buf |-> b, num |-> 0, it |-> 0]
               /\ UNCHANGED <<self, refc>>
  /\ UNCHANGED <<poolVars, work, pushing, item, held, resetting, sinkVars, produced, exit>>

\* The callbacks of the edef at work.
Calls == callbacks[item[out.buf].edef]

Deliver_Fault ==
  /\ out.pc = "deliver"
  /\ out.it <= Len(Calls)
  /\ refc' = [refc EXCEPT ![out.buf] = IF out.it > 1 THEN @ + 1 ELSE @]
  /\ held' = [held EXCEPT ![out.buf] = @ + 1]
  /\ out' = [out EXCEPT !.it = @ + 1]
  /\ UNCHANGED <<poolVars, work, pushing, queue, item, self, resetting, sinkVars, produced, exit>>

\* OnResult of one sink, which owes a release from now on.
Deliver ==
  /\ out.pc = "deliver"
  /\ out.it <= Len(Calls)
  /\ refc' = [refc EXCEPT ![out.buf] = @ + 1]
  /\ held' = [held EXCEPT ![out.buf] = @ + 1]
  /\ out' = [out EXCEPT !.it = @ + 1]
  /\ UNCHANGED <<poolVars, work, pushing, queue, item, self, resetting, sinkVars, produced, exit>>

\* BsaResultItem::release: whoever finds the count at 1 resets self_, later.
CountDown(b) ==
  /\ refc' = [refc EXCEPT ![b] = @ - 1]
  /\ resetting' = IF refc[b] = 1 THEN resetting \cup {b} ELSE resetting

\* All sinks have been called: the thread gives up its own count.
Delivered ==
  /\ out.pc = "deliver"
  /\ out.it > Len(Calls)
  /\ CountDown(out.buf)
  /\ out' = [out EXCEPT !.pc = IF refc[out.buf] = 1 THEN "release" ELSE "drop"]
  /\ UNCHANGED <<poolVars, work, pushing, queue, item, self, held, sinkVars, produced, exit>>

\* End of processOutput: the local pointer goes, omtx_ is unlocked.
DropBuf ==
  /\ out.pc = "drop"
  /\ out' = [Asleep EXCEPT !.pc = "pop"]
  /\ UNCHANGED <<work, pushing, queue, resultVars, sinkVars, produced, exit>>
  /\ Dropped(out.buf)

\* The ring element, a null pointer by now, is popped.
Pop ==
  /\ out.pc = "pop"
  /\ queue' = Tail(queue)
  /\ out' = Asleep
  /\ UNCHANGED <<poolVars, work, pushing, resultVars, sinkVars, produced, exit>>

-----------------------------------------------------------------------------
(* The user. *)

\* BSA_ReleaseResults, for one of the results he was given.
Release(b) ==
  /\ held[b] > 0
  /\ held' = [held EXCEPT ![b] = @ - 1]
  /\ CountDown(b)
  /\ UNCHANGED <<poolVars, work, pushing, queue, out, item, self, sinkVars, produced, exit>>

ResetSelf_Fault(b) ==
  /\ b \in resetting
  /\ resetting' = resetting \ {b}
  /\ UNCHANGED <<poolVars, self>>
  /\ out' = IF out.pc = "release" /\ out.buf = b THEN [out EXCEPT !.pc = "drop"] ELSE out
  /\ UNCHANGED <<work, pushing, queue, item, refc, held, sinkVars, produced, exit>>

\* The second half of release, in the user's or in the output thread.
ResetSelf(b) ==
  /\ b \in resetting
  /\ resetting' = resetting \ {b}
  /\ self' = self \ {b}
  /\ out' = IF out.pc = "release" /\ out.buf = b THEN [out EXCEPT !.pc = "drop"] ELSE out
  /\ UNCHANGED <<work, pushing, queue, item, refc, held, sinkVars, produced, exit>>
  /\ Dropped(b)

\* What is in force while no sink is connected.
Limit(e) == IF e \in inUse THEN maxResults[e] ELSE ResultsMax

Asked_Fault(m, e) == IF m = 0 \/ m > ResultsMax THEN Limit(e) ELSE m

\* The limit after a sink asks for m results at most; 0 is no wish.
Asked(m, e) == IF m = 0 \/ m > Limit(e) THEN Limit(e) ELSE m

addSink(s, e, m) ==
  /\ OmtxFree
  /\ exit = "run"
  /\ Len(callbacks[e]) < MaxConnect
  /\ maxResults' = [maxResults EXCEPT ![e] = Asked(m, e)]
  /\ callbacks' = [callbacks EXCEPT ![e] = Append(@, [sink |-> s, asked |-> m])]
  /\ inUse' = inUse \cup {e}
  /\ UNCHANGED <<poolVars, work, pushing, queue, out, resultVars, produced, exit>>

\* The first entry of the sink is erased; without one nothing changes.
delSink(s, e) ==
  /\ OmtxFree
  /\ exit = "run"
  /\ e \in inUse
  /\ \E i \in DOMAIN callbacks[e] :
       /\ callbacks[e][i].sink = s
       /\ \A j \in 1 .. i - 1 : callbacks[e][j].sink # s
       /\ callbacks' = [callbacks EXCEPT ![e] = RemoveAt(@, i)]
  /\ IF callbacks'[e] = <<>>
       THEN /\ maxResults' = [maxResults EXCEPT ![e] = ResultsMax]
            /\ inUse' = inUse \ {e}
       ELSE UNCHANGED <<maxResults, inUse>>
  /\ UNCHANGED <<poolVars, work, pushing, queue, out, resultVars, produced, exit>>

-----------------------------------------------------------------------------
(* exit() *)

\* The pool was created last and is destroyed first.
DestroyPool ==
  /\ exit = "run"
  /\ exit' = "pool"
  /\ Destroy
  /\ UNCHANGED <<work, pushing, queue, out, resultVars, sinkVars, produced>>

\* ~BsaCore destroys the output buffers first.  Their thread is cancelled
\* where it waits for results, and joined.
StopOutput ==
  /\ exit = "pool"
  /\ out.pc = "wait" /\ queue = <<>>
  /\ exit' = "outStopped"
  /\ out' = [Asleep EXCEPT !.pc = "stopped"]
  /\ UNCHANGED <<poolVars, work, pushing, queue, resultVars, sinkVars, produced>>

\* Then the ring goes, with the results that came in after that.
DestroyOutput ==
  /\ exit = "outStopped"
  /\ UNCHANGED <<work, pushing, out, resultVars, sinkVars, produced>>
  /\ IF queue = <<>>
       THEN exit' = "outGone" /\ UNCHANGED <<queue, poolVars>>
       ELSE /\ queue' = Tail(queue)
            /\ UNCHANGED exit
            /\ Dropped(Head(queue))

\* The input thread is cancelled where it waits for data.
StopInput ==
  /\ exit = "outGone"
  /\ pushing = 0
  /\ exit' = "inStopped"
  /\ UNCHANGED <<poolVars, work, pushing, queue, out, resultVars, sinkVars, produced>>

\* The channels' slots are destroyed.
DestroySlot(e) ==
  /\ exit = "inStopped"
  /\ work[e] # 0
  /\ work' = [work EXCEPT ![e] = 0]
  /\ UNCHANGED <<pushing, queue, out, resultVars, sinkVars, produced, exit>>
  /\ Dropped(work[e])

-----------------------------------------------------------------------------

InputStep  == Push \/ \E e \in Edefs : \E n \in 1 .. ResultsMax : Swap(e, n)
OutputStep == Take \/ Deliver \/ Delivered \/ DropBuf \/ Pop
UserStep ==
  \/ \E b \in Blocks : Release(b) \/ ResetSelf(b)
  \/ \E s \in Sinks, e \in Edefs :
       \/ delSink(s, e)
       \/ \E m \in 0 .. ResultsMax : addSink(s, e, m)
ExitStep ==
  \/ DestroyPool \/ StopOutput \/ DestroyOutput \/ StopInput
  \/ \E e \in Edefs : DestroySlot(e)

Next == InputStep \/ OutputStep \/ UserStep \/ ExitStep

Spec == Init /\ [][Next]_vars

(***************************************************************************)
(* The threads run, and what the user was given he releases.  Nobody has   *)
(* to produce results, to connect or to exit.                              *)
(***************************************************************************)
Fairness ==
  /\ WF_vars(Push)
  /\ WF_vars(OutputStep)
  /\ \A b \in Blocks : WF_vars(Release(b)) /\ WF_vars(ResetSelf(b))

LiveSpec == Spec /\ Fairness

-----------------------------------------------------------------------------
(* Properties. *)

\* Type correctness.
TypeOK ==
  /\ numBlks \in 0 .. MaxBlks
  /\ lst \in Seq(Blocks)
  /\ defDest \in BOOLEAN /\ gone \in BOOLEAN
  /\ work \in [Edefs -> Blocks \cup {0}]
  /\ pushing \in Blocks \cup {0}
  /\ queue \in Seq(Blocks \cup {0}) /\ Len(queue) <= Capacity
  /\ out \in [pc : {"wait", "deliver", "release", "drop", "pop", "stopped"},
              buf : Blocks \cup {0}, num : 0 .. ResultsMax, it : Nat]
  /\ item \in [Blocks -> [edef : Edefs, num : 0 .. ResultsMax]]
  /\ self \subseteq Blocks
  /\ refc \in [Blocks -> Nat]
  /\ held \in [Blocks -> Nat]
  /\ resetting \subseteq Blocks
  /\ callbacks \in [Edefs -> Seq([sink : Sinks, asked : 0 .. ResultsMax])]
  /\ maxResults \in [Edefs -> 1 .. ResultsMax]
  /\ inUse \subseteq Edefs

\* Nothing is used after it was freed and nothing leaks: the blocks given out
\* are those somebody points to, no block is in the list twice, and the pool
\* goes no earlier than the last of them.
BlocksExact ==
  /\ Allocated = Owners \ {0}
  /\ IsInjective(lst)
  /\ gone => Allocated = {}

\* A plain pointer in the user's hands is good until he releases it, however
\* his releases interleave with the delivery to other sinks: refc_ counts
\* them, with one for the output thread, and self_ keeps the buffer alive
\* just as long.
CountExact ==
  \A b \in Blocks :
    /\ refc[b] = held[b] + (IF out.pc = "deliver" /\ out.buf = b THEN 1 ELSE 0)
    /\ b \in self <=> refc[b] > 0 \/ b \in resetting

\* A sink is never handed more results than it asked for, whichever sinks
\* come and go and however full the buffer already was (BsaApi.h:260).
WithinLimit ==
  out.pc = "deliver" =>
    \A i \in DOMAIN Calls : Calls[i].asked = 0 \/ out.num <= Calls[i].asked

\* Results come through and buffers come back: without exit the output buffer
\* empties, a blocked input thread goes on, and in the end only the channel's
\* own buffers are not in the pool.
Settles ==
  <>[](exit = "run" =>
         queue = <<>> /\ pushing = 0 /\ Allocated = {work[e] : e \in Edefs})
=============================================================================
