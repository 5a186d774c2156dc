---------------------------- MODULE InputBuffers ----------------------------
(***************************************************************************)
(* From the C API to a channel's processInput:                             *)
(*   - set-up: the size of the thread pools is configured, the core is     *)
(*     created once, channels are created one after the other, each of the *)
(*     first with an input and an output buffer and their threads;         *)
(*   - the timing system is connected, and its callback tells one input    *)
(*     buffer after the other the time stamp of a new pattern;             *)
(*   - data sources store items without waiting, into the buffer that      *)
(*     their channel shares with others;                                   *)
(*   - a buffer's thread works on an item when checkMinFilled says so,     *)
(*     that is when the newest item's pattern has arrived.                 *)
(*                                                                         *)
(* One thread does the set-up, one calls the timing callback, and each     *)
(* channel has one data source.  What processItem and timeout do to the    *)
(* channel is in BsaCore; time-outs appear here as wake-ups.  Time stamps  *)
(* are natural numbers; BsaTimeStamp says why their order is that of time. *)
(*                                                                         *)
(* An operator whose name ends in _Fault is the operator after it, with a  *)
(* plausible bug; no specification uses it.                                *)
(***************************************************************************)
EXTENDS Integers, Sequences, FiniteSets

CONSTANTS
  MaxPool,     \* largest pool of threads, 100 in the library
  DefaultPool, \* DEFAULT_NUM_INP_BUFS, DEFAULT_NUM_OUT_BUFS
  IbufSize,    \* 1 << IBUF_SIZE_LD
  MaxChannels, \* bound: number of channels; at most 128, as BsaChid is signed
  MaxStamp,    \* bound: time stamps
  MaxStore     \* bound: items stored for a channel

ASSUME InputAssumption ==
  /\ MaxPool \in Nat \ {0}
  /\ DefaultPool \in 1 .. MaxPool
  /\ IbufSize \in Nat \ {0}
  /\ MaxChannels \in 0 .. 128
  /\ MaxStamp \in Nat
  /\ MaxStore \in Nat

Bufs  == 0 .. MaxPool - 1
Chids == 0 .. MaxChannels - 1

VARIABLES
  config,     \* [inp, out]: numInpBufs_ and numOutBufs_ of theConfig_
  core,       \* the same of theCore_; zero while there is none
  registered, \* extRef_ is set, and the timing system calls
  channels,   \* number of channels_
  inpBufs,    \* number of inpBufs_
  outBufs,    \* number of outBufs_
  poppers,    \* number of channels known to the pattern buffer
  creating,   \* where createChannel is
  stamp,      \* time stamp of the newest pattern
  timing,     \* where the timing callback is: [pc, it]
  queue,      \* queue[b]: an input buffer, items [chid, ts]
  newest,     \* newest[b]: newestPatternTimeStamp_
  thread,     \* thread[b]: where the buffer's thread is
  owing,      \* channels whose source has stored, but not yet notified
  stored, dropped, processed \* calls of storeData, inpBufferDrops, processInput

setUpVars == <<config, core, registered, channels, inpBufs, outBufs, poppers, creating>>
countVars == <<stored, dropped, processed>>
flowVars == <<stamp, timing, queue, newest, thread, owing, countVars>>
vars == <<setUpVars, flowVars>>

Idle == [pc |-> "idle", it |-> 0]

Init ==
  /\ config = [inp |-> DefaultPool, out |-> DefaultPool]
  /\ core = [inp |-> 0, out |-> 0]
  /\ registered = FALSE
  /\ channels = 0 /\ inpBufs = 0 /\ outBufs = 0 /\ poppers = 0
  /\ creating = "no"
  /\ stamp = 0
  /\ timing = Idle
  /\ queue = [b \in Bufs |-> <<>>]
  /\ newest = [b \in Bufs |-> 0]
  /\ thread = [b \in Bufs |-> "none"]
  /\ owing = {}
  /\ stored = [c \in Chids |-> 0]
  /\ dropped = [c \in Chids |-> 0]
  /\ processed = [c \in Chids |-> 0]

BufOf(c) == c % core.inp

-----------------------------------------------------------------------------
(* Set-up. *)

\* BSA_ConfigSetInputBufPoolSize, ...OutputBufPoolSize: not once a core exists.
Configure(inp, out) ==
  /\ core.inp = 0
  /\ config' = [inp |-> inp, out |-> out]
  /\ UNCHANGED <<core, registered, channels, inpBufs, outBufs, poppers, creating>>
  /\ UNCHANGED flowVars

\* The core with the pools of theConfig_, where 0 stands for the default.
Created == [p \in {"inp", "out"} |-> IF config[p] = 0 THEN DefaultPool ELSE config[p]]

\* theCore(), which creates the core when it is first called.
TheCore == core' = IF core.inp = 0 THEN Created ELSE core

\* BSA_TimingCallbackRegister, and the timing system calls from now on.
Register ==
  /\ ~registered
  /\ TheCore
  /\ registered' = TRUE
  /\ UNCHANGED <<config, channels, inpBufs, outBufs, poppers, creating>>
  /\ UNCHANGED flowVars

\* BSA_TimingCallbackUnregister, after the timing system's last call.
Unregister ==
  /\ registered
  /\ timing = Idle
  /\ registered' = FALSE
  /\ UNCHANGED <<config, core, channels, inpBufs, outBufs, poppers, creating>>
  /\ UNCHANGED flowVars

\* BSA_CreateChannel of a name that findChannel does not find.
CreateBegin ==
  /\ creating = "no"
  /\ channels < MaxChannels
  /\ TheCore
  /\ creating' = "input"
  /\ UNCHANGED <<config, registered, channels, inpBufs, outBufs, poppers>>
  /\ UNCHANGED flowVars

NeedsBuf_Fault(pool) == channels + 1 < core[pool]

\* The first channels come with a buffer each.
NeedsBuf(pool) == channels < core[pool]

AddInpBuf ==
  /\ creating = "input"
  /\ creating' = IF NeedsBuf("inp") THEN "start" ELSE "output"
  /\ inpBufs' = IF NeedsBuf("inp") THEN inpBufs + 1 ELSE inpBufs
  /\ UNCHANGED <<config, core, registered, channels, outBufs, poppers>>
  /\ UNCHANGED flowVars

\* start(); the thread goes to its loop.
StartInpBuf ==
  /\ creating = "start"
  /\ creating' = "output"
  /\ thread' = [thread EXCEPT ![channels] = "look"]
  /\ UNCHANGED <<config, core, registered, channels, inpBufs, outBufs, poppers>>
  /\ UNCHANGED <<stamp, timing, queue, newest, owing, countVars>>

AddOutBuf ==
  /\ creating = "output"
  /\ creating' = "channel"
  /\ outBufs' = IF NeedsBuf("out") THEN outBufs + 1 ELSE outBufs
  /\ UNCHANGED <<config, core, registered, channels, inpBufs, poppers>>
  /\ UNCHANGED flowVars

AddChannel ==
  /\ creating = "channel"
  /\ creating' = "finalize"
  /\ channels' = channels + 1
  /\ UNCHANGED <<config, core, registered, inpBufs, outBufs, poppers>>
  /\ UNCHANGED flowVars

\* The pattern buffer will call the channel's finalizePop.
AddFinalizePop ==
  /\ creating = "finalize"
  /\ creating' = "no"
  /\ poppers' = poppers + 1
  /\ UNCHANGED <<config, core, registered, channels, inpBufs, outBufs>>
  /\ UNCHANGED flowVars

-----------------------------------------------------------------------------
(* The timing callback: pushTimingData. *)

\* The time stamp at the back of buffer b.
Back(b) == queue[b][Len(queue[b])].ts

checkMinFilled_Fault(b) == queue[b] # <<>>

\* The newest item's pattern has arrived.
checkMinFilled(b) == queue[b] # <<>> /\ Back(b) <= newest[b]

\* A pattern comes later than the one before; MaxStamp stands for all later.
Pulse ==
  /\ registered
  /\ timing.pc = "idle"
  /\ \E t \in stamp .. MaxStamp : (t > stamp \/ t = MaxStamp) /\ stamp' = t
  /\ timing' = [pc |-> "tell", it |-> 0]
  /\ UNCHANGED <<setUpVars, queue, newest, thread, owing, countVars>>

\* The pattern buffer overruns: push_back throws, and no buffer is told.
Overrun ==
  /\ registered
  /\ timing.pc = "idle"
  /\ stamp < MaxStamp
  /\ stamp' = stamp + 1
  /\ UNCHANGED <<setUpVars, timing, queue, newest, thread, owing, countVars>>

NextBuf == [pc |-> "tell", it |-> timing.it + 1]

Released_Fault(b) == queue[b] # <<>> /\ queue[b][1].ts > newest[b] /\ queue[b][1].ts <= stamp

\* The pattern of the newest item arrives.
Released(b) == queue[b] # <<>> /\ Back(b) > newest[b] /\ Back(b) <= stamp

\* updatePatternTimeStamp of the next buffer, up to the end of its lock.
Tell ==
  /\ timing.pc = "tell"
  /\ timing.it < inpBufs
  /\ LET b == timing.it IN
     /\ newest' = [newest EXCEPT ![b] = stamp]
     /\ timing' = IF Released(b) THEN [timing EXCEPT !.pc = "notify"] ELSE NextBuf
  /\ UNCHANGED <<setUpVars, stamp, queue, thread, owing, countVars>>

\* notify_one: the thread looks again if it sleeps.
Wake(b) ==
  thread' = [thread EXCEPT ![b] = CASE @ = "wait" -> "look" [] @ = "popWait" -> "pop" [] OTHER -> @]

TellNotify ==
  /\ timing.pc = "notify"
  /\ Wake(timing.it)
  /\ timing' = NextBuf
  /\ UNCHANGED <<setUpVars, stamp, queue, newest, owing, countVars>>

TellEnd ==
  /\ timing.pc = "tell"
  /\ timing.it >= inpBufs
  /\ timing' = Idle
  /\ UNCHANGED <<setUpVars, stamp, queue, newest, thread, owing, countVars>>

-----------------------------------------------------------------------------
(* The data sources: storeData. *)

Full_Fault(b) == Len(queue[b]) > IbufSize

Full(b) == Len(queue[b]) >= IbufSize

\* push_back without waiting, up to the end of its lock.
Store(c, ts) ==
  /\ c < channels
  /\ c \notin owing
  /\ stored[c] < MaxStore
  /\ ~Full(BufOf(c))
  /\ stored' = [stored EXCEPT ![c] = @ + 1]
  /\ queue' = [queue EXCEPT ![BufOf(c)] = Append(@, [chid |-> c, ts |-> ts])]
  /\ owing' = IF ts <= newest[BufOf(c)] THEN owing \cup {c} ELSE owing
  /\ UNCHANGED <<setUpVars, stamp, timing, newest, thread, dropped, processed>>

StoreNotify(c) ==
  /\ c \in owing
  /\ owing' = owing \ {c}
  /\ Wake(BufOf(c))
  /\ UNCHANGED <<setUpVars, stamp, timing, queue, newest, countVars>>

Refuse_Fault(c) ==
  /\ c < channels
  /\ c \notin owing
  /\ stored[c] < MaxStore
  /\ Full(BufOf(c))
  /\ stored' = [stored EXCEPT ![c] = @ + 1]
  /\ UNCHANGED <<setUpVars, stamp, timing, queue, newest, thread, owing, dropped, processed>>

\* The buffer is full: the item is dropped, and counted.
Refuse(c) ==
  /\ c < channels
  /\ c \notin owing
  /\ stored[c] < MaxStore
  /\ Full(BufOf(c))
  /\ stored' = [stored EXCEPT ![c] = @ + 1]
  /\ dropped' = [dropped EXCEPT ![c] = @ + 1]
  /\ UNCHANGED <<setUpVars, stamp, timing, queue, newest, thread, owing, processed>>

-----------------------------------------------------------------------------
(* The thread of an input buffer: RingBufferSync::process. *)

To(b, pc) == thread' = [thread EXCEPT ![b] = pc]

\* wait_until: go on to the front item, or sleep.
Look(b) ==
  /\ thread[b] = "look"
  /\ To(b, IF checkMinFilled(b) THEN "work" ELSE "wait")
  /\ UNCHANGED <<setUpVars, stamp, timing, queue, newest, owing, countVars>>

\* A sleeping thread wakes up by itself; with a deadline (in wait_until) also
\* at the deadline, after which it looks again, or sees to the time-out first.
WakeUp(b) ==
  /\ \/ thread[b] = "wait" /\ To(b, "look")
     \/ thread[b] = "popWait" /\ To(b, "pop")
  /\ UNCHANGED <<setUpVars, stamp, timing, queue, newest, owing, countVars>>

\* processItem of the front item.
Work(b) ==
  /\ thread[b] = "work"
  /\ processed' = [processed EXCEPT ![queue[b][1].chid] = @ + 1]
  /\ To(b, "pop")
  /\ UNCHANGED <<setUpVars, stamp, timing, queue, newest, owing, stored, dropped>>

\* pop() asks checkMinFilled again, and has no deadline.
Pop(b) ==
  /\ thread[b] = "pop"
  /\ IF checkMinFilled(b)
       THEN To(b, "look") /\ queue' = [queue EXCEPT ![b] = Tail(@)]
       ELSE To(b, "popWait") /\ UNCHANGED queue
  /\ UNCHANGED <<setUpVars, stamp, timing, newest, owing, countVars>>

-----------------------------------------------------------------------------

SetUp ==
  \/ \E inp, out \in 0 .. MaxPool : Configure(inp, out)
  \/ Register \/ Unregister
  \/ CreateBegin \/ AddInpBuf \/ StartInpBuf \/ AddOutBuf \/ AddChannel \/ AddFinalizePop
TellStep == Tell \/ TellNotify \/ TellEnd
Source(c) == Refuse(c) \/ \E ts \in 1 .. MaxStamp : Store(c, ts)
ThreadStep(b) == Look(b) \/ Work(b) \/ Pop(b)

Next ==
  \/ SetUp \/ Pulse \/ Overrun \/ TellStep
  \/ \E c \in Chids : Source(c) \/ StoreNotify(c)
  \/ \E b \in Bufs : ThreadStep(b) \/ WakeUp(b)

Spec == Init /\ [][Next]_vars

(***************************************************************************)
(* While it is connected the timing system sends patterns that the buffer  *)
(* has room for, again and again.  Threads run.  Nobody has to set up or   *)
(* to store anything, and no sleeping thread wakes up by itself.           *)
(***************************************************************************)
Fairness ==
  /\ WF_vars(Pulse) /\ WF_vars(TellStep)
  /\ \A c \in Chids : WF_vars(StoreNotify(c))
  /\ \A b \in Bufs : WF_vars(ThreadStep(b))

LiveSpec == Spec /\ Fairness

-----------------------------------------------------------------------------
(* Properties. *)

Pools == [inp : 0 .. MaxPool, out : 0 .. MaxPool]

\* Type correctness; no buffer holds more than its size.
TypeOK ==
  /\ config \in Pools /\ core \in Pools
  /\ registered \in BOOLEAN
  /\ channels \in 0 .. MaxChannels /\ poppers \in 0 .. MaxChannels
  /\ inpBufs \in 0 .. MaxPool /\ outBufs \in 0 .. MaxPool
  /\ creating \in {"no", "input", "start", "output", "channel", "finalize"}
  /\ stamp \in 0 .. MaxStamp
  /\ timing \in [pc : {"idle", "tell", "notify"}, it : 0 .. MaxPool]
  /\ queue \in [Bufs -> Seq([chid : Chids, ts : 1 .. MaxStamp])]
  /\ \A b \in Bufs : Len(queue[b]) <= IbufSize
  /\ newest \in [Bufs -> 0 .. MaxStamp]
  /\ thread \in [Bufs -> {"none", "look", "wait", "work", "pop", "popWait"}]
  /\ owing \subseteq Chids
  /\ stored \in [Chids -> 0 .. MaxStore]
  /\ dropped \in [Chids -> Nat]
  /\ processed \in [Chids -> Nat]

\* Whatever pools are configured, and although timing callback and sources
\* are at work meanwhile: every channel finds an input buffer with a running
\* thread and an output buffer at the index it computes.
Prepared ==
  /\ \A c \in 0 .. channels - 1 :
       /\ core.inp > 0 /\ BufOf(c) < inpBufs /\ thread[BufOf(c)] # "none"
       /\ core.out > 0 /\ c % core.out < outBufs
  /\ poppers = IF creating = "finalize" THEN channels - 1 ELSE channels

\* Somebody is about to wake the thread of buffer b.
WakeUpDue(b) ==
  \/ timing.pc = "notify" /\ timing.it = b
  \/ \E c \in owing : BufOf(c) = b

Asleep(b) == thread[b] \in {"wait", "popWait"}

\* No wake-up is lost, although both sources and timing callback decide under
\* the lock, notify after it, and only when they see the condition turn true:
\* a sleeping thread has nothing to do, or somebody is about to wake it.
ItemWakes ==
  \A b \in Bufs : Asleep(b) /\ checkMinFilled(b) => WakeUpDue(b)

\* The items of channel c that are still to be processed.
Pending(c) ==
  Cardinality(UNION {
    {<<b, i>> : i \in {i \in DOMAIN queue[b] :
       /\ queue[b][i].chid = c
       /\ ~(i = 1 /\ thread[b] \in {"pop", "popWait"})}} : b \in Bufs})

\* Each item is processed once, or waits, or was dropped and counted.
Accounted ==
  \A c \in Chids : stored[c] = dropped[c] + processed[c] + Pending(c)

\* A thread does not work on an item newer than the newest pattern unless
\* items are out of order; and it never finds its buffer empty.
ItemInTime ==
  \A b \in Bufs :
    thread[b] \in {"work", "pop", "popWait"} =>
      /\ queue[b] # <<>>
      /\ (\A i, j \in DOMAIN queue[b] : i <= j => queue[b][i].ts <= queue[b][j].ts)
           => queue[b][1].ts <= newest[b]

\* While patterns keep coming all items are processed in the end.
Served ==
  <>[]registered => <>[](\A b \in Bufs : queue[b] = <<>>)

\* "hold data items in the input queue until a pattern has arrived that has a
\* timestamp equal or later than the data timestamp": and no longer.  While a
\* thread sleeps, and nobody is about to wake it, the patterns of all waiting
\* items are yet to come.
HeldUntilPattern ==
  \A b \in Bufs :
    thread[b] = "wait" /\ ~WakeUpDue(b) =>
      \A i \in DOMAIN queue[b] : queue[b][i].ts > newest[b]
=============================================================================
