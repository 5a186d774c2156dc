------------------------------ MODULE BsaCore ------------------------------
(***************************************************************************)
(* The threads that meet around the pattern buffer and the channels:       *)
(*   - the timing callback pushes patterns (BsaCore::pushTimingData);      *)
(*   - the core thread retires the oldest pattern: it evicts it from every *)
(*     channel, then pops it (BsaCore::processItem, RingBufferSync::pop);  *)
(*   - each input thread serves the channels whose number is congruent to  *)
(*     its own: it processes data items, and when idle it times patterns   *)
(*     out (BsaChannelImpl::processInput and ::timeout).                   *)
(*                                                                         *)
(* An action is a stretch of code with at most one lookup in the pattern   *)
(* buffer; releasing a reference or a mutex is merged into the preceding   *)
(* lookup.  The pattern buffer's own mutex is held for single actions only *)
(* and needs no variable.  The channel's mutex does: it is held across     *)
(* many steps and, when an eviction is deferred, across functions.         *)
(*                                                                         *)
(* BsaChannelImpl::process is represented by the fact that it was called:  *)
(* acct logs, for each channel and edef, the patterns it was called with   *)
(* and whether there was a data item.                                      *)
(*                                                                         *)
(* An operator whose name ends in _Fault is the operator after it, with a  *)
(* plausible bug; no specification uses it.                                *)
(***************************************************************************)
EXTENDS PatternWindow, FiniteSets

CONSTANTS
  NumChannels, \* channels, numbered from 0 in creation order
  NumInpBufs,  \* input threads
  Shapes,      \* the [init, act] masks the timing system may send
  MaxPulse,    \* bound: number of pulses
  StartTimes,  \* what the EPICS event clock may say when a thread starts
  RebaseLimit  \* CLOCK_REBASE_LIMIT, in pulses

Channels == 0 .. NumChannels - 1
Threads  == 0 .. NumInpBufs - 1
Core     == -1  \* mutex owner: the core thread
Nobody   == -2  \* mutex owner: the mutex is free

ASSUME CoreAssumption ==
  /\ NumChannels \in Nat \ {0}
  /\ NumInpBufs \in Nat \ {0}
  /\ Shapes \subseteq [init : SUBSET Edefs, act : SUBSET Edefs]
  /\ MaxPulse \in Nat
  /\ StartTimes \subseteq 0 .. MaxPulse
  /\ RebaseLimit \in Nat

VARIABLES
  pulse,       \* time stamp of the latest pulse
  told,        \* input buffers told of it; NumInpBufs between callbacks
  newest,      \* newest[t]: newestPatternTimeStamp_ of the input buffer
  mtx,         \* mtx[ch]: owner of the channel's mtx_
  deferred,    \* deferred[ch]: eviction keeps mtx_ until the pop
  slot,        \* slot[ch][e]: slots_[e].pattern_ of the channel
  lastTs,      \* lastTs[ch]: lastTs_ of the channel
  lastTimeout, \* lastTimeout[t]: lastTimeout_ of the input buffer
  core,        \* the core thread: [pc, ch]
  inp,         \* inp[t]: the input thread: [pc, ch, ts, todo, pat, prev]
  acct         \* acct[ch][e]: calls of process(): [pat, item]

timingVars == <<pulse, told, newest>>
chanVars == <<mtx, deferred, slot, lastTs, acct>>
vars == <<windowVars, timingVars, chanVars, lastTimeout, core, inp>>

\* Idle: waiting for an item or a timeout.  Popping: done with an item, which
\* has yet to leave the thread's queue.
Idle == [pc |-> "idle", ch |-> 0, ts |-> 0, todo |-> {}, pat |-> 0, prev |-> 0]
Popping == [Idle EXCEPT !.pc = "ipop"]

\* The threads set lastTimeout_ to the EPICS event clock, which need not agree
\* with the time stamps of the patterns.
Init ==
  /\ pats = <<>> /\ head = 0 /\ refc = <<>>
  /\ pulse = 0 /\ told = NumInpBufs
  /\ newest = [t \in Threads |-> 0]
  /\ mtx = [ch \in Channels |-> Nobody]
  /\ deferred = [ch \in Channels |-> FALSE]
  /\ slot = [ch \in Channels |-> [e \in Edefs |-> 0]]
  /\ lastTs = [ch \in Channels |-> 0]
  /\ lastTimeout \in [Threads -> StartTimes]
  /\ core = [pc |-> "wait", ch |-> 0]
  /\ inp = [t \in Threads |-> Idle]
  /\ acct = [ch \in Channels |-> [e \in Edefs |-> <<>>]]

\* The edef a loop in ascending order handles next.
IsNext(e, todo) == e \in todo /\ \A f \in todo : e <= f

process(ch, e, n, item) ==
  acct' = [acct EXCEPT ![ch][e] = Append(@, [pat |-> n, item |-> item])]

-----------------------------------------------------------------------------
(* Timing callback. *)

\* Store the pattern, unless it involves no edef.  Either way the input
\* buffers will be told of its time stamp; on overrun, push_back throws and
\* they are not.
PushTimingData(shape) ==
  /\ told = NumInpBufs
  /\ pulse < MaxPulse
  /\ pulse' = pulse + 1
  /\ \/ /\ shape.init \cup shape.act = {}
        /\ told' = 0
        /\ UNCHANGED windowVars
     \/ /\ shape.init \cup shape.act # {}
        /\ push_back([ts |-> pulse + 1, init |-> shape.init, act |-> shape.act])
        /\ told' = 0
     \/ /\ shape.init \cup shape.act # {}
        /\ full
        /\ UNCHANGED <<windowVars, told>>
  /\ UNCHANGED <<newest, chanVars, lastTimeout, core, inp>>

\* One input buffer after the other.
UpdatePatternTimeStamp ==
  /\ told < NumInpBufs
  /\ newest' = [newest EXCEPT ![told] = pulse]
  /\ told' = told + 1
  /\ UNCHANGED <<windowVars, pulse, chanVars, lastTimeout, core, inp>>

-----------------------------------------------------------------------------
(* Core thread. *)

RetireBegin ==
  /\ core.pc = "wait"
  /\ checkMinFilled
  /\ core' = [pc |-> "evict", ch |-> 0]
  /\ UNCHANGED <<windowVars, timingVars, chanVars, lastTimeout, inp>>

\* The edefs evict's loop visits: it ends after the last one the pattern
\* involves, but does not ask of the others whether the pattern involves them.
Scanned == {e \in Edefs : \E f \in Involved(Front) : e <= f}

Expiring_Fault(ch) ==
  {e \in Scanned : slot[ch][e] = Front /\ patternGetNext(Front, e) # 0}
Unattended_Fault(ch) == {}
UnattendedOrNewer_Fault(ch) == {e \in Scanned : slot[ch][e] # Front}

\* The visited edefs whose slot still points at the pattern being retired,
\* and those whose slot points at nothing.
Expiring(ch) == {e \in Scanned : slot[ch][e] = Front}
Unattended(ch) == {e \in Scanned : slot[ch][e] = 0}

Defers_Fault(ch) == FALSE

\* Whether evict leaves the channel locked until the pop.
Defers(ch) == Expiring(ch) # {}

\* BsaChannelImpl::evict.  A slot that still points at the pattern lets it
\* go and the mutex stays locked until the pop; a slot without a pattern
\* calls process now, for an edef the pattern does not involve, too; a slot
\* with a newer pattern has already done what there was to do.
Evict ==
  LET ch == core.ch IN
  /\ core.pc = "evict"
  /\ mtx[ch] = Nobody
  /\ slot' = [slot EXCEPT ![ch] =
       [e \in Edefs |-> IF e \in Expiring(ch) THEN 0 ELSE @[e]]]
  /\ refc' = [refc EXCEPT ![Front] = @ - Cardinality(Expiring(ch))]
  /\ acct' = [acct EXCEPT ![ch] =
       [e \in Edefs |-> IF e \in Unattended(ch)
                          THEN Append(@[e], [pat |-> Front, item |-> FALSE])
                          ELSE @[e]]]
  /\ deferred' = [deferred EXCEPT ![ch] = Defers(ch)]
  /\ mtx' = [mtx EXCEPT ![ch] = IF Defers(ch) THEN Core ELSE Nobody]
  /\ core' = IF ch + 1 \in Channels THEN [core EXCEPT !.ch = ch + 1]
                                    ELSE [pc |-> "check", ch |-> 0]
  /\ UNCHANGED <<pats, head, timingVars, lastTs, lastTimeout, inp>>

RetireCheck_Fault ==
  /\ core.pc = "check"
  /\ core' = [core EXCEPT !.pc = "pop"]
  /\ mtx' = [ch \in Channels |-> IF deferred[ch] THEN Nobody ELSE mtx[ch]]
  /\ deferred' = [ch \in Channels |-> FALSE]
  /\ UNCHANGED <<windowVars, timingVars, slot, lastTs, acct, lastTimeout, inp>>

\* The reference count is compared with 0; the exception thrown otherwise is
\* swallowed by RingBufferSync::process, which pops the pattern either way.
RetireCheck ==
  /\ core.pc = "check"
  /\ core' = [core EXCEPT !.pc = "pop"]
  /\ UNCHANGED <<windowVars, timingVars, chanVars, lastTimeout, inp>>

finalizePop_Fault ==
  /\ mtx' = [ch \in Channels |-> IF deferred[ch] THEN Nobody ELSE mtx[ch]]
  /\ UNCHANGED deferred

\* BsaChannelImpl::finalizePop, of every channel.
finalizePop ==
  /\ mtx' = [ch \in Channels |-> IF deferred[ch] THEN Nobody ELSE mtx[ch]]
  /\ deferred' = [ch \in Channels |-> FALSE]

\* Once the front is unused, with the buffer locked, the channels' callbacks
\* unlock the deferred mutexes and the front goes.
RetirePop ==
  /\ core.pc = "pop"
  /\ pop
  /\ finalizePop
  /\ core' = [pc |-> "wait", ch |-> 0]
  /\ UNCHANGED <<timingVars, slot, lastTs, acct, lastTimeout, inp>>

-----------------------------------------------------------------------------
(* Input threads: timeout. *)

HasChannel_Fault(ch) == ch <= NumChannels

\* inputTimeout's loop over the channels of an input buffer.
HasChannel(ch) == ch < NumChannels

\* BsaInpBuf::timeout passes on the time stamp that was the newest one when
\* the previous timeout fired.  The first channel of a thread has its number.
TimeoutBegin(t) ==
  /\ inp[t].pc = "idle"
  /\ HasChannel(t)
  /\ inp' = [inp EXCEPT ![t] = [Idle EXCEPT !.pc = "tlock", !.ch = t,
                                            !.ts = lastTimeout[t]]]
  /\ lastTimeout' = [lastTimeout EXCEPT ![t] = newest[t]]
  /\ UNCHANGED <<windowVars, timingVars, chanVars, core>>

NextPending_Fault(ch, e) ==
  IF slot[ch][e] # 0 THEN patternGetNext(slot[ch][e], e) ELSE 0

\* The first pattern of the edef that the channel has not accounted for.
NextPending(ch, e) ==
  IF slot[ch][e] # 0 THEN patternGetNext(slot[ch][e], e) ELSE patternGetOldest(e)

TimeoutLock(t) ==
  LET ch == inp[t].ch IN
  /\ inp[t].pc = "tlock"
  /\ mtx[ch] = Nobody
  /\ mtx' = [mtx EXCEPT ![ch] = t]
  /\ \E e \in Edefs :
       /\ IsNext(e, Edefs)
       /\ inp' = [inp EXCEPT ![t].pc = "tloop", ![t].todo = Edefs,
                             ![t].prev = NextPending(ch, e)]
       /\ refc' = incRef(refc, NextPending(ch, e))
  /\ UNCHANGED <<pats, head, timingVars, deferred, slot, lastTs, acct,
                 lastTimeout, core>>

Expired_Fault(t) == inp[t].prev # 0 /\ pats[inp[t].prev].ts < inp[t].ts
Expired(t) == inp[t].prev # 0 /\ pats[inp[t].prev].ts <= inp[t].ts

\* Account for one old pattern as missed and make it the slot's pattern.
TimeoutFlush(t) ==
  LET ch == inp[t].ch
      n  == inp[t].prev
  IN
  /\ inp[t].pc = "tloop"
  /\ Expired(t)
  /\ \E e \in Edefs :
       /\ IsNext(e, inp[t].todo)
       /\ process(ch, e, n, FALSE)
       /\ slot' = [slot EXCEPT ![ch][e] = n]
       /\ inp' = [inp EXCEPT ![t].prev = patternGetNext(n, e)]
       /\ refc' = incRef(decRef(refc, slot[ch][e]), patternGetNext(n, e))
  /\ UNCHANGED <<pats, head, timingVars, mtx, deferred, lastTs,
                 lastTimeout, core>>

\* Done with an edef: on to the next one, or unlock and on to the thread's
\* next channel.
TimeoutAdvance(t) ==
  LET ch == inp[t].ch
      r  == decRef(refc, inp[t].prev)
  IN
  /\ inp[t].pc = "tloop"
  /\ ~Expired(t)
  /\ \E e \in Edefs :
       /\ IsNext(e, inp[t].todo)
       /\ \/ \E f \in Edefs :
               /\ IsNext(f, inp[t].todo \ {e})
               /\ inp' = [inp EXCEPT ![t].todo = @ \ {e},
                                     ![t].prev = NextPending(ch, f)]
               /\ refc' = incRef(r, NextPending(ch, f))
               /\ UNCHANGED mtx
          \/ /\ inp[t].todo = {e}
             /\ refc' = r
             /\ mtx' = [mtx EXCEPT ![ch] = Nobody]
             /\ inp' = [inp EXCEPT ![t] =
                  IF HasChannel(ch + NumInpBufs)
                    THEN [Idle EXCEPT !.pc = "tlock", !.ch = ch + NumInpBufs,
                                      !.ts = inp[t].ts]
                    ELSE Idle]
  /\ UNCHANGED <<pats, head, timingVars, deferred, slot, lastTs, acct,
                 lastTimeout, core>>

-----------------------------------------------------------------------------
(* Input threads: processInput. *)

\* The thread gets at a data item, perhaps right after popping the previous
\* one.  Which items there are is up to the data sources; the queue itself is
\* not modelled here.
ItemBegin(t, ch, ts) ==
  /\ inp[t].pc \in {"idle", "ipop"}
  /\ ch % NumInpBufs = t
  /\ inp' = [inp EXCEPT ![t] = [Idle EXCEPT !.pc = "ilock", !.ch = ch, !.ts = ts]]
  /\ UNCHANGED <<windowVars, timingVars, chanVars, lastTimeout, core>>

OutOfOrder(ch, ts) == ts <= lastTs[ch] /\ lastTs[ch] - ts <= RebaseLimit

\* Lock the channel, reject an item out of order, look its pattern up.
ItemLookup(t) ==
  LET ch == inp[t].ch
      n  == patternGet(inp[t].ts)
  IN
  /\ inp[t].pc = "ilock"
  /\ mtx[ch] = Nobody
  /\ \/ /\ OutOfOrder(ch, inp[t].ts)
        /\ inp' = [inp EXCEPT ![t] = Popping]
        /\ UNCHANGED <<refc, mtx, lastTs>>
     \/ /\ ~OutOfOrder(ch, inp[t].ts)
        /\ lastTs' = [lastTs EXCEPT ![ch] = inp[t].ts]
        /\ n = 0
        /\ inp' = [inp EXCEPT ![t] = Popping]
        /\ UNCHANGED <<refc, mtx>>
     \/ /\ ~OutOfOrder(ch, inp[t].ts)
        /\ lastTs' = [lastTs EXCEPT ![ch] = inp[t].ts]
        /\ n # 0
        /\ mtx' = [mtx EXCEPT ![ch] = t]
        /\ refc' = incRef(refc, n)
        /\ inp' = [inp EXCEPT ![t].pc = "iedef", ![t].pat = n,
                              ![t].todo = pats[n].act]
  /\ UNCHANGED <<pats, head, timingVars, deferred, slot, acct, lastTimeout, core>>

TimedOut_Fault(ch, e, ts) == FALSE

\* The slot's pattern is as recent as the item: a timeout got there first.
TimedOut(ch, e, ts) == slot[ch][e] # 0 /\ ts <= pats[slot[ch][e]].ts

\* An edef for which a timeout has already gone past the item's pattern.
ItemTimedOut(t) ==
  /\ inp[t].pc = "iedef"
  /\ \E e \in Edefs :
       /\ IsNext(e, inp[t].todo)
       /\ TimedOut(inp[t].ch, e, inp[t].ts)
       /\ inp' = [inp EXCEPT ![t].todo = @ \ {e}]
  /\ UNCHANGED <<windowVars, timingVars, chanVars, lastTimeout, core>>

\* The slot's pattern becomes the item's.  When no earlier pattern is found
\* the exception releases the mutex but not the item's reference.
ItemEdef(t) ==
  LET ch == inp[t].ch IN
  /\ inp[t].pc = "iedef"
  /\ \E e \in Edefs :
       LET tmp == slot[ch][e]
           n   == NextPending(ch, e)
       IN
       /\ IsNext(e, inp[t].todo)
       /\ ~TimedOut(ch, e, inp[t].ts)
       /\ slot' = [slot EXCEPT ![ch][e] = inp[t].pat]
       /\ refc' = incRef(decRef(incRef(refc, n), tmp), inp[t].pat)
       /\ inp' = [inp EXCEPT ![t] =
            IF n = 0 THEN Popping ELSE [@ EXCEPT !.pc = "iloop", !.prev = n]]
       /\ mtx' = [mtx EXCEPT ![ch] = IF n = 0 THEN Nobody ELSE @]
  /\ UNCHANGED <<pats, head, timingVars, deferred, lastTs, acct, lastTimeout, core>>

\* Account for one pattern before the item's as missed.  When no further
\* pattern is found, the same exception.
ItemCatchUp(t) ==
  LET ch == inp[t].ch
      n  == inp[t].prev
  IN
  /\ inp[t].pc = "iloop"
  /\ n # inp[t].pat
  /\ \E e \in Edefs :
       LET next == patternGetNext(n, e) IN
       /\ IsNext(e, inp[t].todo)
       /\ process(ch, e, n, FALSE)
       /\ refc' = decRef(incRef(refc, next), n)
       /\ inp' = [inp EXCEPT ![t] = IF next = 0 THEN Popping ELSE [@ EXCEPT !.prev = next]]
       /\ mtx' = [mtx EXCEPT ![ch] = IF next = 0 THEN Nobody ELSE @]
  /\ UNCHANGED <<pats, head, timingVars, deferred, slot, lastTs, lastTimeout, core>>

\* Caught up: the item's own pattern is accounted for with the item.
ItemStore(t) ==
  LET ch == inp[t].ch IN
  /\ inp[t].pc = "iloop"
  /\ inp[t].prev = inp[t].pat
  /\ \E e \in Edefs :
       /\ IsNext(e, inp[t].todo)
       /\ process(ch, e, inp[t].pat, TRUE)
       /\ inp' = [inp EXCEPT ![t].pc = "iedef", ![t].todo = @ \ {e}, ![t].prev = 0]
  /\ refc' = decRef(refc, inp[t].prev)
  /\ UNCHANGED <<pats, head, timingVars, mtx, deferred, slot, lastTs,
                 lastTimeout, core>>

ItemDone(t) ==
  /\ inp[t].pc = "iedef"
  /\ inp[t].todo = {}
  /\ refc' = decRef(refc, inp[t].pat)
  /\ mtx' = [mtx EXCEPT ![inp[t].ch] = Nobody]
  /\ inp' = [inp EXCEPT ![t] = Popping]
  /\ UNCHANGED <<pats, head, timingVars, deferred, slot, lastTs, acct,
                 lastTimeout, core>>

\* The item is popped and the thread goes to wait.  RingBufferSync::pop first
\* waits until the queue is ready, with no deadline: when a newer item came
\* in meanwhile, for as long as that item's pattern stays away.
ItemPop(t) ==
  /\ inp[t].pc = "ipop"
  /\ inp' = [inp EXCEPT ![t] = Idle]
  /\ UNCHANGED <<windowVars, timingVars, chanVars, lastTimeout, core>>

-----------------------------------------------------------------------------
(* The specification. *)

TimeoutStep(t) == TimeoutFlush(t) \/ TimeoutAdvance(t)
ItemStep(t) ==
  \/ ItemTimedOut(t) \/ ItemEdef(t)
  \/ ItemCatchUp(t)  \/ ItemStore(t)
  \/ ItemDone(t)

\* Everything but the start of a pattern's retirement.
Other ==
  \/ (\E shape \in Shapes : PushTimingData(shape)) \/ UpdatePatternTimeStamp
  \/ Evict \/ RetireCheck \/ RetirePop
  \/ \E t \in Threads :
       \/ TimeoutBegin(t) \/ TimeoutLock(t) \/ TimeoutStep(t)
       \/ \E ch \in Channels, ts \in 1 .. MaxPulse : ItemBegin(t, ch, ts)
       \/ ItemLookup(t) \/ ItemStep(t) \/ ItemPop(t)

Next == RetireBegin \/ Other

Spec == Init /\ [][Next]_vars

(***************************************************************************)
(* The timing the program counts on: MinFill patterns take far longer to   *)
(* arrive (2 s by default) than two timeouts (0.3 s each), so that every   *)
(* channel has dealt with a pattern before the pattern is retired.         *)
(***************************************************************************)
Timely == \A ch \in Channels : \A e \in Involved(Front) : slot[ch][e] # 0

TimelyNext == (RetireBegin /\ Timely) \/ Other

TimelySpec == Init /\ [][TimelyNext]_vars

(***************************************************************************)
(* Fairness.  Every thread is scheduled: what it can always do it does in  *)
(* the end.  A mutex, and the notified core thread's wait for an unused    *)
(* front, are not starved.  A thread that waits again and again times out  *)
(* again and again, because items do not move wait_until's deadline.       *)
(* Nothing makes the timing system send patterns or the data sources send  *)
(* items, and nothing brings a thread back from pop (ItemPop).             *)
(***************************************************************************)
Fairness ==
  /\ WF_vars(UpdatePatternTimeStamp)
  /\ SF_vars((RetireBegin /\ Timely) \/ Evict \/ RetireCheck \/ RetirePop)
  /\ \A t \in Threads :
       /\ SF_vars(TimeoutBegin(t))
       /\ SF_vars(TimeoutLock(t) \/ ItemLookup(t))
       /\ WF_vars(TimeoutStep(t) \/ ItemStep(t))

LiveSpec == TimelySpec /\ Fairness

-----------------------------------------------------------------------------
(* Properties. *)

ThreadState ==
  [pc : {"idle", "tlock", "tloop", "ilock", "iedef", "iloop", "ipop"}, ch : Channels,
   ts : 0 .. MaxPulse, todo : SUBSET Edefs, pat : Nat, prev : Nat]

\* Type correctness of the whole state.
TypeOK ==
  /\ pats \in Seq([ts : 1 .. MaxPulse, init : SUBSET Edefs, act : SUBSET Edefs])
  /\ head \in Nat
  /\ refc \in Seq(Int)
  /\ Len(refc) = Len(pats)
  /\ pulse \in 0 .. MaxPulse
  /\ told \in 0 .. NumInpBufs
  /\ newest \in [Threads -> 0 .. MaxPulse]
  /\ mtx \in [Channels -> Threads \cup {Core, Nobody}]
  /\ deferred \in [Channels -> BOOLEAN]
  /\ slot \in [Channels -> [Edefs -> Nat]]
  /\ lastTs \in [Channels -> 0 .. MaxPulse]
  /\ lastTimeout \in [Threads -> 0 .. MaxPulse]
  /\ core \in [pc : {"wait", "evict", "check", "pop"}, ch : Channels]
  /\ inp \in [Threads -> ThreadState]
  /\ acct \in [Channels -> [Edefs -> Seq([pat : Nat, item : BOOLEAN])]]

\* The slots' and the threads' pointers to a pattern.
Uses(n) ==
  Cardinality({x \in Channels \X Edefs : slot[x[1]][x[2]] = n})
  + Cardinality({t \in Threads : inp[t].pat = n})
  + Cardinality({t \in Threads : inp[t].prev = n})

\* Reference counting (incRef, patternGet, patternPut): a pattern's count is
\* the number of pointers to it, so nothing leaks and nothing dangles.
RefsExact == \A n \in 1 .. Len(pats) : refc[n] = Uses(n)

\* A pattern someone points at has not been popped: the ring element behind
\* a slot's or a thread's pointer is never overwritten (finalizePop waits).
NoDangling ==
  /\ \A ch \in Channels : \A e \in Edefs : slot[ch][e] \in Window \cup {0}
  /\ \A t \in Threads : {inp[t].pat, inp[t].prev} \subseteq Window \cup {0}

\* Lock discipline: a thread past its lock owns the mutex of its channel; the
\* core owns exactly the mutexes whose unlocking evict deferred, and only
\* from the eviction to the pop of one and the same pattern.
LockDiscipline ==
  /\ \A t \in Threads : inp[t].pc \in {"tloop", "iedef", "iloop"} => mtx[inp[t].ch] = t
  /\ \A ch \in Channels : mtx[ch] = Core <=> deferred[ch]
  /\ core.pc = "wait" => \A ch \in Channels : ~deferred[ch]

Accounted(ch, e, n) == \E i \in 1 .. Len(acct[ch][e]) : acct[ch][e][i].pat = n

\* No pattern is lost: whichever of evict, timeout and catching up comes
\* first, a pattern is accounted for in every channel before it is popped.
AtLeastOnce ==
  \A n \in 1 .. head : \A e \in Involved(n) : \A ch \in Channels : Accounted(ch, e, n)

\* evict's "the computation is up-to-date ... and everything up to
\* slots_[edef].pattern_ has been accounted for already": whenever evict
\* could lock the channel, patterns up to the slot's are accounted for.
SlotUpToDate ==
  \A ch \in Channels : mtx[ch] = Nobody =>
    \A e \in Edefs : \A n \in 1 .. slot[ch][e] :
      e \in Involved(n) => Accounted(ch, e, n)

\* A channel feeds an edef's computation in pulse order, whatever mix of
\* items, timeouts and evictions drives it.
InOrder ==
  \A ch \in Channels : \A e \in Edefs : \A i \in 2 .. Len(acct[ch][e]) :
    acct[ch][e][i-1].pat <= acct[ch][e][i].pat

\* ... and feeds each pattern to it once: a result's count and missed add up
\* to the pulses averaged (BsaTest.cc checks count + missed = navg).
AcctOnce ==
  \A ch \in Channels : \A e \in Edefs : \A i, j \in 1 .. Len(acct[ch][e]) :
    acct[ch][e][i].pat = acct[ch][e][j].pat => i = j

\* processInput's search for the patterns between the slot's and the item's
\* moves forward, never misses, and ends at the item's own pattern: neither
\* of the two exceptions that "should not happen" does.
ItemFindsPattern ==
  \A t \in Threads : \A e \in Edefs : IsNext(e, inp[t].todo) =>
    /\ inp[t].pc = "iedef" /\ ~TimedOut(inp[t].ch, e, inp[t].ts)
       => NextPending(inp[t].ch, e) \in 1 .. inp[t].pat
    /\ inp[t].pc = "iloop" /\ inp[t].prev # inp[t].pat
       => patternGetNext(inp[t].prev, e) \in inp[t].prev + 1 .. inp[t].pat

\* The core thread's wait for an unused front does not wait for itself:
\* whoever holds the front, as a slot's pattern or in the middle of its work,
\* is not blocked on a mutex the core keeps until the pop.
Blocked(t) == inp[t].pc \in {"tlock", "ilock"} /\ mtx[inp[t].ch] = Core
NoRetireDeadlock ==
  core.pc = "pop" =>
    /\ \A ch \in Channels : \A e \in Edefs :
         slot[ch][e] = Front => ~Blocked(ch % NumInpBufs)
    /\ \A t \in Threads : Front \in {inp[t].pat, inp[t].prev} => ~Blocked(t)

\* A slot's pattern only moves forward, until the core thread takes it away.
SlotForward ==
  [][\A ch \in Channels : \A e \in Edefs :
       slot'[ch][e] # slot[ch][e] =>
         \/ slot'[ch][e] > slot[ch][e]
         \/ slot'[ch][e] = 0 /\ slot[ch][e] = Front /\ core.pc = "evict"]_vars

\* A deferred mutex stays locked until the pattern is gone: nothing else
\* changes a channel between its deferred eviction and the pop.
DeferredFrozen ==
  [][\A ch \in Channels : deferred[ch] =>
       /\ slot'[ch] = slot[ch] /\ acct'[ch] = acct[ch] /\ lastTs'[ch] = lastTs[ch]
       /\ ~deferred'[ch] => head' = head + 1]_vars

\* With the timing the program counts on, the threads together keep the
\* channels' promise of an exact account (Accounting).
Abs == INSTANCE Accounting
ExactAccount == Abs!Spec

\* The thread gets back to waiting for items and timeouts, time and again.
KeepsWaiting(t) == []<>(inp[t].pc = "idle")

\* Timeouts bring every computation of a channel up to date even if no data
\* item arrives, so that users never wait for a result for longer than the
\* sink timeout, unless the channel's thread gets stuck in pop.
CatchesUp ==
  \A ch \in Channels : KeepsWaiting(ch % NumInpBufs) => Abs!CatchesUp(ch)

=============================================================================
