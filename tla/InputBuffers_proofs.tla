------------------------ MODULE InputBuffers_proofs ------------------------
(***************************************************************************)
(* Proofs about InputBuffers, for any size of pools and buffers, any       *)
(* number of channels and items: set-up never exposes a channel without    *)
(* its buffers, no wake-up of an input thread is lost, and no item is      *)
(* worked on before its pattern is there.                                  *)
(***************************************************************************)
EXTENDS InputBuffers, FunctionTheorems, FiniteSetTheorems, SequenceTheorems, TLAPS

Item == [chid : Chids, ts : 1 .. MaxStamp]

\* A remainder is below the divisor, and no more than the dividend.
LEMMA Remainder ==
  ASSUME NEW c \in Nat, NEW n \in Nat \ {0}
  PROVE  c % n \in 0 .. n - 1 /\ c % n <= c
<1>1. c % n \in 0 .. n - 1
  BY SMT
<1>2. CASE c < n
  BY <1>1, <1>2, SMT
<1>3. CASE c >= n
  BY <1>1, <1>3, SMT
<1> QED
  BY <1>1, <1>2, <1>3, SMT

-----------------------------------------------------------------------------
(* Set-up. *)

\* Buffers that n channels have called for.
Buffers(n, pool) == IF n < core[pool] THEN n ELSE core[pool]

\* createChannel adds buffers before the channel, so that there may be one
\* buffer more than the channels call for, the last one without its thread.
CountInv ==
  /\ core.inp = 0 \/ core.out = 0 =>
       core.inp = 0 /\ core.out = 0 /\ channels = 0 /\ creating = "no"
  /\ inpBufs = IF creating \in {"start", "output", "channel"}
                 THEN Buffers(channels + 1, "inp") ELSE Buffers(channels, "inp")
  /\ outBufs = IF creating = "channel"
                 THEN Buffers(channels + 1, "out") ELSE Buffers(channels, "out")
  /\ poppers = IF creating = "finalize" THEN channels - 1 ELSE channels
  /\ creating \in {"input", "start", "output", "channel"} => channels < MaxChannels
  /\ creating = "finalize" => channels > 0
  /\ creating = "start" => channels < core.inp

\* A buffer has its thread, unless it was added by the step before; channels
\* that are spoken of exist, and so does the buffer to be notified.
OthersInv ==
  /\ \A b \in Bufs : b < inpBufs /\ ~(creating = "start" /\ b = channels) => thread[b] # "none"
  /\ \A c \in owing : c < channels
  /\ timing.pc = "notify" => timing.it < inpBufs

SetUpInv == CountInv /\ OthersInv

Inv == TypeOK /\ SetUpInv

\* The types of the variables that set-up shares with nobody.
LEMMA Constants ==
  /\ MaxPool \in Nat \ {0} /\ DefaultPool \in 1 .. MaxPool /\ IbufSize \in Nat \ {0}
  /\ MaxChannels \in Nat /\ MaxStamp \in Nat /\ MaxStore \in Nat
  /\ Bufs = 0 .. MaxPool - 1 /\ Chids = 0 .. MaxChannels - 1
BY InputAssumption DEF Bufs, Chids

LEMMA CoreTypes ==
  ASSUME TypeOK
  PROVE  /\ core.inp \in 0 .. MaxPool /\ core.out \in 0 .. MaxPool
         /\ core["inp"] = core.inp /\ core["out"] = core.out
         /\ Created \in Pools /\ Created.inp # 0 /\ Created.out # 0
<1>1. core \in Pools /\ config \in Pools
  BY DEF TypeOK
<1>2. core.inp \in 0 .. MaxPool /\ core.out \in 0 .. MaxPool
  BY <1>1 DEF Pools
<1>3. config.inp \in 0 .. MaxPool /\ config.out \in 0 .. MaxPool
  BY <1>1 DEF Pools
<1>4. Created["inp"] \in 1 .. MaxPool /\ Created["out"] \in 1 .. MaxPool
  BY <1>3, Constants DEF Created
<1>5. Created = [inp |-> Created["inp"], out |-> Created["out"]]
  BY DEF Created
<1>6. Created \in Pools
  BY <1>4, <1>5 DEF Pools
<1> QED
  BY <1>2, <1>4, <1>6

LEMMA ConfigureInv ==
  ASSUME Inv, NEW inp \in 0 .. MaxPool, NEW out \in 0 .. MaxPool, Configure(inp, out)
  PROVE  Inv'
<1>1. config' \in Pools
  BY DEF Configure, Pools
<1> QED
  BY <1>1 DEF Inv, TypeOK, SetUpInv, CountInv, OthersInv, Configure, flowVars, countVars, Buffers, Pools

\* theCore() only does something before there is a channel.
LEMMA TheCoreInv ==
  ASSUME Inv, TheCore
  PROVE  /\ core' \in Pools /\ core'.inp # 0 /\ core'.out # 0
         /\ core.inp # 0 => core' = core
         /\ core.inp = 0 => channels = 0 /\ creating = "no" /\ inpBufs = 0 /\ outBufs = 0
<1>1. core \in Pools /\ (core.inp # 0 => core.out # 0)
  BY DEF Inv, TypeOK, SetUpInv, CountInv, OthersInv
<1>2. core.inp = 0 => channels = 0 /\ creating = "no"
  BY DEF Inv, SetUpInv, CountInv, OthersInv
<1>3. ASSUME core.inp = 0 PROVE inpBufs = 0 /\ outBufs = 0
  <2>1. core["inp"] = 0 /\ core["out"] = 0 /\ channels = 0 /\ creating = "no"
    BY <1>2, <1>3, CoreTypes DEF Inv, SetUpInv, CountInv, OthersInv
  <2> QED
    BY <2>1 DEF Inv, SetUpInv, CountInv, OthersInv, Buffers
<1>4. Created \in Pools /\ Created.inp # 0 /\ Created.out # 0
  BY CoreTypes DEF Inv
<1> QED
  BY <1>1, <1>2, <1>3, <1>4 DEF TheCore

LEMMA RegisterInv ==
  ASSUME Inv, Register \/ CreateBegin
  PROVE  Inv'
<1>1. /\ core' \in Pools /\ core'.inp # 0 /\ core'.out # 0
      /\ core.inp # 0 => core' = core
      /\ core.inp = 0 => channels = 0 /\ creating = "no" /\ inpBufs = 0 /\ outBufs = 0
  BY TheCoreInv DEF Register, CreateBegin
<1>2. /\ UNCHANGED <<config, channels, inpBufs, outBufs, poppers>>
      /\ UNCHANGED flowVars
      /\ registered' \in BOOLEAN
      /\ \/ creating' = creating
         \/ creating = "no" /\ creating' = "input" /\ channels < MaxChannels
  BY DEF Register, CreateBegin, Inv, TypeOK
<1>3. TypeOK'
  BY <1>1, <1>2 DEF Inv, TypeOK, flowVars, countVars
<1>4. CASE core.inp # 0
  <2>1. CountInv'
    BY <1>1, <1>2, <1>4 DEF Inv, SetUpInv, CountInv, Buffers
  <2>2. OthersInv'
    BY <1>2 DEF Inv, SetUpInv, OthersInv, flowVars
  <2> QED
    BY <1>3, <2>1, <2>2 DEF Inv, SetUpInv
<1>5. CASE core.inp = 0
  <2>1. core'.inp \in Nat /\ core'.out \in Nat /\ core'["inp"] > 0 /\ core'["out"] > 0
    BY <1>1, Constants DEF Pools
  <2>2. poppers = 0 /\ MaxChannels \in Nat /\ \A c \in owing : c < channels
    BY <1>1, <1>5, Constants DEF Inv, SetUpInv, CountInv, OthersInv
  <2>3. CountInv'
    BY <1>1, <1>2, <1>5, <2>1, <2>2 DEF SetUpInv, CountInv, Buffers
  <2>4. OthersInv'
    BY <1>2, <2>2 DEF Inv, SetUpInv, OthersInv, flowVars
  <2> QED
    BY <1>3, <2>3, <2>4 DEF Inv, SetUpInv
<1> QED
  BY <1>3, <1>4, <1>5 DEF Inv

\* The steps of createChannel, up to the notification of the pattern buffer.
LEMMA CreateInv ==
  ASSUME Inv, AddInpBuf \/ AddOutBuf \/ AddChannel \/ AddFinalizePop
  PROVE  Inv'
<1>1. /\ core.inp \in 1 .. MaxPool /\ core.out \in 1 .. MaxPool
      /\ core["inp"] = core.inp /\ core["out"] = core.out
  BY CoreTypes, Constants DEF Inv, SetUpInv, CountInv, OthersInv, AddInpBuf, AddOutBuf, AddChannel, AddFinalizePop
<1>2. /\ channels \in 0 .. MaxChannels /\ poppers \in 0 .. MaxChannels
      /\ inpBufs \in 0 .. MaxPool /\ outBufs \in 0 .. MaxPool
      /\ \A b \in Bufs : b \in Nat
  BY Constants DEF Inv, TypeOK
<1>3. /\ UNCHANGED <<config, core, registered>>
      /\ UNCHANGED flowVars
  BY DEF AddInpBuf, AddOutBuf, AddChannel, AddFinalizePop
<1>4. SetUpInv'
  <2>1. CASE AddInpBuf
    <3>1. CountInv'
      BY <1>1, <1>2, <1>3, <2>1, Constants
         DEF Inv, SetUpInv, CountInv, AddInpBuf, NeedsBuf, Buffers
    <3>2. inpBufs' = inpBufs \/ (inpBufs' = inpBufs + 1 /\ creating' = "start" /\ inpBufs = channels)
      BY <1>1, <1>2, <2>1 DEF Inv, SetUpInv, CountInv, AddInpBuf, NeedsBuf, Buffers
    <3>3. timing.it \in Nat
      BY Constants DEF Inv, TypeOK
    <3>4. OthersInv'
      BY <1>2, <1>3, <2>1, <3>2, <3>3 DEF Inv, SetUpInv, OthersInv, AddInpBuf, flowVars
    <3> QED
      BY <3>1, <3>4 DEF SetUpInv
  <2>2. CASE AddOutBuf
    <3>1. CountInv'
      BY <1>1, <1>2, <1>3, <2>2, Constants
         DEF Inv, SetUpInv, CountInv, AddOutBuf, NeedsBuf, Buffers
    <3>2. OthersInv'
      BY <1>3, <2>2 DEF Inv, SetUpInv, OthersInv, AddOutBuf, flowVars
    <3> QED
      BY <3>1, <3>2 DEF SetUpInv
  <2>3. CASE AddChannel
    <3>1. CountInv'
      BY <1>1, <1>2, <1>3, <2>3, Constants
         DEF Inv, SetUpInv, CountInv, AddChannel, Buffers
    <3>2. \A c \in owing : c \in Nat
      BY Constants DEF Inv, TypeOK
    <3>3. OthersInv'
      BY <1>2, <1>3, <2>3, <3>2 DEF Inv, SetUpInv, OthersInv, AddChannel, flowVars
    <3> QED
      BY <3>1, <3>3 DEF SetUpInv
  <2>4. CASE AddFinalizePop
    <3>1. CountInv'
      BY <1>1, <1>2, <1>3, <2>4, Constants
         DEF Inv, SetUpInv, CountInv, AddFinalizePop, Buffers
    <3>2. OthersInv'
      BY <1>3, <2>4 DEF Inv, SetUpInv, OthersInv, AddFinalizePop, flowVars
    <3> QED
      BY <3>1, <3>2 DEF SetUpInv
  <2> QED
    BY <2>1, <2>2, <2>3, <2>4
<1>5. channels' \in 0 .. MaxChannels /\ poppers' \in 0 .. MaxChannels
  BY <1>2, Constants DEF Inv, SetUpInv, CountInv, OthersInv, AddInpBuf, AddOutBuf, AddChannel, AddFinalizePop
<1>6. creating' \in {"no", "input", "start", "output", "channel", "finalize"}
  BY DEF AddInpBuf, AddOutBuf, AddChannel, AddFinalizePop
<1>7. /\ inpBufs' = inpBufs \/ inpBufs' = Buffers(channels + 1, "inp")
      /\ outBufs' = outBufs \/ outBufs' = Buffers(channels + 1, "out")
  BY <1>1, <1>2, Constants DEF Inv, SetUpInv, CountInv, OthersInv, AddInpBuf, AddOutBuf, AddChannel, AddFinalizePop, NeedsBuf, Buffers
<1>8. Buffers(channels + 1, "inp") \in 0 .. MaxPool /\ Buffers(channels + 1, "out") \in 0 .. MaxPool
  BY <1>1, <1>2, Constants DEF Buffers
<1>9. inpBufs' \in 0 .. MaxPool /\ outBufs' \in 0 .. MaxPool
  BY <1>2, <1>7, <1>8
<1> QED
  BY <1>3, <1>4, <1>5, <1>6, <1>9 DEF Inv, TypeOK, flowVars, countVars

LEMMA StartInv ==
  ASSUME Inv, StartInpBuf
  PROVE  Inv'
<1> USE DEF Inv
<1>1. core["inp"] = core.inp /\ channels \in Nat /\ core.inp \in 0 .. MaxPool
  <2>1. channels \in Nat
    BY Constants DEF TypeOK
  <2> QED
    BY <2>1, CoreTypes
<1>2. channels < core.inp /\ channels \in Bufs
  BY <1>1, Constants DEF SetUpInv, CountInv, StartInpBuf
<1>3. /\ thread' \in [Bufs -> {"none", "look", "wait", "work", "pop", "popWait"}]
      /\ thread'[channels] = "look"
      /\ \A b \in Bufs : b # channels => thread'[b] = thread[b]
  BY <1>2 DEF TypeOK, StartInpBuf
<1>4. UNCHANGED <<config, core, registered, channels, inpBufs, outBufs, poppers>>
      /\ UNCHANGED <<stamp, timing, queue, newest, owing, countVars>>
      /\ creating = "start" /\ creating' = "output"
  BY DEF StartInpBuf
<1>5. TypeOK'
  BY <1>3, <1>4 DEF TypeOK, countVars
<1>6. CountInv'
  BY <1>1, <1>4 DEF SetUpInv, CountInv, Buffers
<1>7. OthersInv'
  BY <1>3, <1>4 DEF SetUpInv, OthersInv
<1> QED
  BY <1>5, <1>6, <1>7 DEF SetUpInv

LEMMA SetUpSteps ==
  ASSUME Inv, SetUp
  PROVE  Inv'
<1>1. CASE Unregister
  BY <1>1 DEF Inv, TypeOK, SetUpInv, CountInv, OthersInv, Unregister, flowVars, countVars, Buffers
<1> QED
  BY <1>1, ConfigureInv, RegisterInv, CreateInv, StartInv DEF SetUp

-----------------------------------------------------------------------------
(* The timing callback, the sources and the threads. *)

\* Set-up is none of their business, and no thread ends.
LEMMA FlowSetUp ==
  ASSUME Inv, UNCHANGED setUpVars,
         \A b \in Bufs : thread[b] # "none" => thread'[b] # "none",
         \A c \in owing' : c < channels,
         timing'.pc = "notify" => timing'.it < inpBufs
  PROVE  SetUpInv'
BY DEF Inv, SetUpInv, CountInv, OthersInv, setUpVars, Buffers

\* Where notify_one leaves a thread.
LEMMA WakeTypes ==
  ASSUME TypeOK, NEW b \in Bufs, Wake(b)
  PROVE  /\ thread' \in [Bufs -> {"none", "look", "wait", "work", "pop", "popWait"}]
         /\ \A a \in Bufs : thread[a] # "none" => thread'[a] # "none"
         /\ \A a \in Bufs : a # b => thread'[a] = thread[a]
         /\ ~Asleep(b)'
         /\ thread'[b] \in {"work", "pop", "popWait"} => thread[b] \in {"work", "pop", "popWait"}
BY DEF TypeOK, Wake, Asleep

\* There are no more buffers than the pool has, and each has a number.
LEMMA BufCount ==
  ASSUME Inv
  PROVE  inpBufs \in 0 .. MaxPool /\ \A n \in 0 .. inpBufs - 1 : n \in Bufs
BY Constants DEF Inv, TypeOK

LEMMA TimingSteps ==
  ASSUME Inv, Pulse \/ Overrun \/ TellStep
  PROVE  Inv'
<1>1. /\ stamp \in 0 .. MaxStamp /\ timing \in [pc : {"idle", "tell", "notify"}, it : 0 .. MaxPool]
      /\ timing.it \in Nat /\ inpBufs \in 0 .. MaxPool
      /\ newest \in [Bufs -> 0 .. MaxStamp]
  BY Constants DEF Inv, TypeOK
<1>2. CASE Pulse \/ Overrun
  <2>1. stamp' \in 0 .. MaxStamp /\ timing' \in [pc : {"idle", "tell", "notify"}, it : 0 .. MaxPool]
    BY <1>1, <1>2, Constants DEF Pulse, Overrun
  <2>2. TypeOK'
    BY <1>2, <2>1 DEF Inv, TypeOK, Pulse, Overrun, setUpVars, countVars
  <2> QED
    BY <1>2, <2>2, FlowSetUp DEF Inv, SetUpInv, CountInv, OthersInv, Pulse, Overrun, setUpVars
<1>3. CASE Tell
  <2>1. timing.it < inpBufs /\ timing.it \in Bufs
    BY <1>1, <1>3, BufCount DEF Tell
  <2>2. newest' \in [Bufs -> 0 .. MaxStamp]
    BY <1>1, <1>3, <2>1 DEF Tell
  <2>3. timing' \in [pc : {"idle", "tell", "notify"}, it : 0 .. MaxPool]
    BY <1>1, <1>3, <2>1, Constants DEF Tell, NextBuf
  <2>4. TypeOK'
    BY <1>3, <2>2, <2>3 DEF Inv, TypeOK, Tell, setUpVars, countVars
  <2>5. timing'.pc = "notify" => timing'.it < inpBufs
    BY <1>1, <1>3, <2>1 DEF Tell, NextBuf
  <2> QED
    BY <1>3, <2>4, <2>5, FlowSetUp DEF Inv, SetUpInv, CountInv, OthersInv, Tell
<1>4. CASE TellNotify
  <2>1. timing.it < inpBufs /\ timing.it \in Bufs
    BY <1>1, <1>4, BufCount DEF Inv, SetUpInv, CountInv, OthersInv, TellNotify
  <2>2. /\ thread' \in [Bufs -> {"none", "look", "wait", "work", "pop", "popWait"}]
        /\ \A a \in Bufs : thread[a] # "none" => thread'[a] # "none"
    BY <1>4, <2>1, WakeTypes DEF Inv, TellNotify
  <2>3. timing' \in [pc : {"idle", "tell", "notify"}, it : 0 .. MaxPool] /\ timing'.pc # "notify"
    BY <1>1, <1>4, <2>1, Constants DEF TellNotify, NextBuf
  <2>4. TypeOK'
    BY <1>4, <2>2, <2>3 DEF Inv, TypeOK, TellNotify, setUpVars, countVars
  <2> QED
    BY <1>4, <2>2, <2>3, <2>4, FlowSetUp DEF Inv, SetUpInv, CountInv, OthersInv, TellNotify
<1>5. CASE TellEnd
  <2>1. timing' \in [pc : {"idle", "tell", "notify"}, it : 0 .. MaxPool] /\ timing'.pc # "notify"
    BY <1>5, Constants DEF TellEnd, Idle
  <2>2. TypeOK'
    BY <1>5, <2>1 DEF Inv, TypeOK, TellEnd, setUpVars, countVars
  <2> QED
    BY <1>5, <2>1, <2>2, FlowSetUp DEF Inv, SetUpInv, CountInv, OthersInv, TellEnd
<1> QED
  BY <1>2, <1>3, <1>4, <1>5 DEF TellStep

\* Channels that exist find a buffer.
LEMMA Found ==
  ASSUME Inv, NEW c \in Chids, c < channels
  PROVE  /\ core.inp > 0 /\ BufOf(c) \in Bufs /\ BufOf(c) < core.inp /\ BufOf(c) <= c
         /\ core.out > 0 /\ c % core.out < core.out /\ c % core.out <= c
<1>1. c \in Nat /\ channels \in Nat /\ channels # 0
  BY Constants DEF Inv, TypeOK
<1>2. core.inp \in 1 .. MaxPool /\ core.out \in 1 .. MaxPool
  <2>1. core.inp \in 0 .. MaxPool /\ core.out \in 0 .. MaxPool
    BY CoreTypes DEF Inv
  <2>2. core.inp # 0 /\ core.out # 0
    BY <1>1 DEF Inv, SetUpInv, CountInv
  <2> QED
    BY <2>1, <2>2, Constants
<1>3. core.inp \in Nat \ {0} /\ core.out \in Nat \ {0} /\ core.inp <= MaxPool
  BY <1>2, Constants
<1>4. /\ c % core.inp \in 0 .. core.inp - 1 /\ c % core.inp <= c
      /\ c % core.out \in 0 .. core.out - 1 /\ c % core.out <= c
  BY <1>1, <1>3, Remainder
<1> QED
  BY <1>3, <1>4, Constants DEF BufOf

LEMMA SourceSteps ==
  ASSUME Inv, NEW c \in Chids, Source(c) \/ StoreNotify(c)
  PROVE  Inv'
<1>1. c < channels
  BY DEF Inv, SetUpInv, OthersInv, Source, Refuse, Store, StoreNotify
<1>2. BufOf(c) \in Bufs
  BY <1>1, Found
<1>3. stored[c] \in 0 .. MaxStore /\ dropped[c] \in Nat /\ MaxStore \in Nat /\ MaxStamp \in Nat
  BY Constants DEF Inv, TypeOK
<1>4. CASE Refuse(c)
  <2>1. stored' \in [Chids -> 0 .. MaxStore]
    BY <1>3, <1>4 DEF Inv, TypeOK, Refuse
  <2>2. dropped' \in [Chids -> Nat]
    BY <1>3, <1>4 DEF Inv, TypeOK, Refuse
  <2>3. TypeOK'
    BY <1>4, <2>1, <2>2 DEF Inv, TypeOK, Refuse, setUpVars
  <2> QED
    BY <1>4, <2>3, FlowSetUp DEF Inv, SetUpInv, OthersInv, Refuse
<1>5. ASSUME NEW ts \in 1 .. MaxStamp, Store(c, ts)
      PROVE  Inv'
  <2> DEFINE b == BufOf(c)
             item == [chid |-> c, ts |-> ts]
  <2>1. stored' \in [Chids -> 0 .. MaxStore]
    BY <1>3, <1>5 DEF Inv, TypeOK, Store
  <2>2. queue[b] \in Seq(Item) /\ item \in Item /\ Len(queue[b]) < IbufSize
    <3>1. queue[b] \in Seq(Item) /\ item \in Item
      BY <1>2 DEF Inv, TypeOK, Item
    <3>2. ~(Len(queue[b]) >= IbufSize)
      BY <1>5 DEF Store, Full
    <3>3. Len(queue[b]) \in Nat
      BY <3>1
    <3> QED
      BY <3>1, <3>2, <3>3, Constants
  <2>3. Append(queue[b], item) \in Seq(Item) /\ Len(Append(queue[b], item)) <= IbufSize
    BY <2>2, Constants
  <2>4. queue' = [queue EXCEPT ![b] = Append(queue[b], item)]
    BY <1>5 DEF Store
  <2>5. queue' \in [Bufs -> Seq(Item)] /\ \A a \in Bufs : Len(queue'[a]) <= IbufSize
    BY <1>2, <2>3, <2>4 DEF Inv, TypeOK, Item
  <2>6. owing' \subseteq Chids /\ \A a \in owing' : a < channels
    BY <1>1, <1>5 DEF Inv, TypeOK, SetUpInv, OthersInv, Store
  <2>7. TypeOK'
    BY <1>5, <2>1, <2>5, <2>6 DEF Inv, TypeOK, Item, Store, setUpVars
  <2> QED
    BY <1>5, <2>6, <2>7, FlowSetUp DEF Inv, SetUpInv, OthersInv, Store
<1>6. CASE StoreNotify(c)
  <2>1. /\ thread' \in [Bufs -> {"none", "look", "wait", "work", "pop", "popWait"}]
        /\ \A a \in Bufs : thread[a] # "none" => thread'[a] # "none"
    BY <1>2, <1>6, WakeTypes DEF Inv, StoreNotify
  <2>2. TypeOK'
    BY <1>6, <2>1 DEF Inv, TypeOK, StoreNotify, setUpVars, countVars
  <2> QED
    BY <1>6, <2>1, <2>2, FlowSetUp DEF Inv, SetUpInv, OthersInv, StoreNotify
<1> QED
  BY <1>4, <1>5, <1>6 DEF Source

\* A thread with an item in hand finds it at the front.
Holds == \A b \in Bufs : thread[b] \in {"work", "pop", "popWait"} => queue[b] # <<>>

LEMMA ThreadSteps ==
  ASSUME Inv, Holds, NEW b \in Bufs, ThreadStep(b) \/ WakeUp(b)
  PROVE  Inv'
<1>1. /\ queue[b] \in Seq(Item) /\ Len(queue[b]) <= IbufSize
      /\ thread \in [Bufs -> {"none", "look", "wait", "work", "pop", "popWait"}]
  BY DEF Inv, TypeOK, Item
<1>2. /\ thread' \in [Bufs -> {"none", "look", "wait", "work", "pop", "popWait"}]
      /\ \A a \in Bufs : thread[a] # "none" => thread'[a] # "none"
  BY <1>1 DEF ThreadStep, Look, Work, Pop, WakeUp, To
<1>3. UNCHANGED <<setUpVars, stamp, timing, newest, owing>>
  BY DEF ThreadStep, Look, Work, Pop, WakeUp, countVars
<1>4. SetUpInv'
  BY <1>2, <1>3, FlowSetUp DEF Inv, SetUpInv, OthersInv
<1>5. CASE Look(b) \/ WakeUp(b)
  <2>1. UNCHANGED <<queue, countVars>>
    BY <1>5 DEF Look, WakeUp
  <2>2. TypeOK'
    BY <1>2, <1>3, <2>1 DEF Inv, TypeOK, setUpVars, countVars
  <2> QED
    BY <1>4, <2>2 DEF Inv
<1>6. CASE Work(b)
  <2>1. queue[b] # <<>>
    BY <1>6 DEF Holds, Work
  <2>2. queue[b][1].chid \in Chids
    <3>1. queue[b][1] \in Item
      BY <1>1, <2>1
    <3> QED
      BY <3>1 DEF Item
  <2>3. processed' \in [Chids -> Nat]
    <3>1. processed \in [Chids -> Nat]
      BY DEF Inv, TypeOK
    <3>2. processed' = [processed EXCEPT ![queue[b][1].chid] = processed[queue[b][1].chid] + 1]
      BY <1>6 DEF Work
    <3> QED
      BY <2>2, <3>1, <3>2
  <2>4. UNCHANGED <<queue, stored, dropped>>
    BY <1>6 DEF Work
  <2>5. TypeOK'
    BY <1>2, <1>3, <2>3, <2>4 DEF Inv, TypeOK, setUpVars
  <2> QED
    BY <1>4, <2>5 DEF Inv
<1>7. CASE Pop(b)
  <2>1. queue' = queue \/ (queue[b] # <<>> /\ queue' = [queue EXCEPT ![b] = Tail(queue[b])])
    BY <1>7 DEF Pop, checkMinFilled
  <2>2. queue[b] # <<>> => Tail(queue[b]) \in Seq(Item) /\ Len(Tail(queue[b])) <= IbufSize
    BY <1>1, Constants
  <2>3. queue' \in [Bufs -> Seq(Item)] /\ \A a \in Bufs : Len(queue'[a]) <= IbufSize
    BY <2>1, <2>2 DEF Inv, TypeOK, Item
  <2>4. UNCHANGED countVars
    BY <1>7 DEF Pop
  <2>5. TypeOK'
    BY <1>2, <1>3, <2>3, <2>4 DEF Inv, TypeOK, Item, setUpVars, countVars
  <2> QED
    BY <1>4, <2>5 DEF Inv
<1> QED
  BY <1>5, <1>6, <1>7 DEF ThreadStep

-----------------------------------------------------------------------------
(* No item before its pattern. *)

Sorted(b) == \A i, j \in DOMAIN queue[b] : i <= j => queue[b][i].ts <= queue[b][j].ts

\* What holds of the item a thread works on: it is at the front, and in time
\* if the items are in order.
InTime(b) ==
  thread[b] \in {"work", "pop", "popWait"} =>
    queue[b] # <<>> /\ (Sorted(b) => queue[b][1].ts <= newest[b])

TimeInv == \A b \in Bufs : newest[b] <= stamp /\ InTime(b)

\* The front item of an ordered buffer is no newer than the one at its back.
LEMMA FrontBack ==
  ASSUME NEW b \in Bufs, Inv, queue[b] # <<>>
  PROVE  /\ 1 \in DOMAIN queue[b] /\ queue[b][1].ts \in Nat /\ Back(b) \in Nat
         /\ Sorted(b) => queue[b][1].ts <= Back(b)
<1>1. queue[b] \in Seq(Item) /\ MaxStamp \in Nat
  BY Constants DEF Inv, TypeOK, Item
<1>2. Len(queue[b]) \in Nat /\ Len(queue[b]) >= 1 /\ DOMAIN queue[b] = 1 .. Len(queue[b])
  BY <1>1
<1>3. queue[b][1] \in Item /\ queue[b][Len(queue[b])] \in Item
  BY <1>1, <1>2
<1>4. queue[b][1].ts \in Nat /\ Back(b) \in Nat
  BY <1>1, <1>3 DEF Item, Back
<1> QED
  BY <1>2, <1>4 DEF Sorted, Back

\* A buffer that is left alone, or told of a pattern.
LEMMA InTimeKept ==
  ASSUME Inv, NEW b \in Bufs, InTime(b), queue'[b] = queue[b], newest[b] <= newest'[b],
         newest'[b] \in Nat,
         thread'[b] \in {"work", "pop", "popWait"} => thread[b] \in {"work", "pop", "popWait"}
  PROVE  InTime(b)'
<1>1. newest[b] \in Nat
  BY Constants DEF Inv, TypeOK
<1>2. queue[b] # <<>> => queue[b][1].ts \in Nat
  BY FrontBack
<1> QED
  BY <1>1, <1>2 DEF InTime, Sorted

LEMMA TimeSteps ==
  ASSUME Inv, TimeInv, [Next]_vars
  PROVE  TimeInv'
<1>1. /\ stamp \in Nat /\ MaxStamp \in Nat
      /\ newest \in [Bufs -> Nat]
      /\ thread \in [Bufs -> {"none", "look", "wait", "work", "pop", "popWait"}]
  BY Constants DEF Inv, TypeOK
<1>2. ASSUME UNCHANGED <<queue, newest>>, stamp <= stamp', stamp' \in Nat,
             \A b \in Bufs : thread'[b] \in {"work", "pop", "popWait"}
                              => thread[b] \in {"work", "pop", "popWait"}
      PROVE  TimeInv'
  <2> SUFFICES ASSUME NEW b \in Bufs
               PROVE  newest'[b] <= stamp' /\ InTime(b)'
    BY DEF TimeInv
  <2>1. newest[b] \in Nat /\ newest'[b] = newest[b]
    BY <1>1, <1>2
  <2> QED
    BY <1>1, <1>2, <2>1, InTimeKept DEF TimeInv
<1>3. CASE SetUp
  <2>1. UNCHANGED <<queue, newest, stamp>>
    BY <1>3 DEF SetUp, Configure, Register, Unregister, CreateBegin, AddInpBuf, StartInpBuf,
       AddOutBuf, AddChannel, AddFinalizePop, flowVars
  <2>2. UNCHANGED thread \/ thread' = [thread EXCEPT ![channels] = "look"]
    BY <1>3 DEF SetUp, Configure, Register, Unregister, CreateBegin, AddInpBuf, StartInpBuf,
       AddOutBuf, AddChannel, AddFinalizePop, flowVars
  <2> QED
    BY <1>1, <1>2, <2>1, <2>2
<1>4. CASE Pulse \/ Overrun \/ TellEnd
  <2>1. UNCHANGED <<queue, newest, thread>> /\ stamp' \in Nat /\ stamp <= stamp'
    BY <1>1, <1>4 DEF Pulse, Overrun, TellEnd
  <2> QED
    BY <1>2, <2>1
<1>5. CASE Tell
  <2>1. UNCHANGED <<queue, stamp, thread>> /\ newest' = [newest EXCEPT ![timing.it] = stamp]
    BY <1>5 DEF Tell
  <2> SUFFICES ASSUME NEW b \in Bufs
               PROVE  newest'[b] <= stamp' /\ InTime(b)'
    BY DEF TimeInv
  <2>2. newest[b] <= stamp /\ InTime(b) /\ newest[b] \in Nat
    BY <1>1 DEF TimeInv
  <2>3. newest'[b] \in Nat /\ newest[b] <= newest'[b] /\ newest'[b] <= stamp
    BY <1>1, <2>1, <2>2
  <2> QED
    BY <2>1, <2>2, <2>3, InTimeKept
<1>6. CASE TellNotify
  <2>1. timing.it \in Bufs
    BY <1>6, BufCount, Constants DEF Inv, TypeOK, SetUpInv, OthersInv, TellNotify
  <2>2. UNCHANGED <<queue, newest, stamp>> /\ Wake(timing.it)
    BY <1>6 DEF TellNotify
  <2> QED
    BY <1>1, <1>2, <2>1, <2>2, WakeTypes DEF Inv
<1>7. ASSUME NEW c \in Chids, StoreNotify(c)
      PROVE  TimeInv'
  <2>1. BufOf(c) \in Bufs
    BY <1>7, Found DEF Inv, SetUpInv, OthersInv, StoreNotify
  <2>2. UNCHANGED <<queue, newest, stamp>> /\ Wake(BufOf(c))
    BY <1>7 DEF StoreNotify
  <2> QED
    BY <1>1, <1>2, <2>1, <2>2, WakeTypes DEF Inv
<1>8. ASSUME NEW c \in Chids, Refuse(c)
      PROVE  TimeInv'
  BY <1>1, <1>2, <1>8 DEF Refuse
<1>9. ASSUME NEW c \in Chids, NEW ts \in 1 .. MaxStamp, Store(c, ts)
      PROVE  TimeInv'
  <2> DEFINE a == BufOf(c)
             item == [chid |-> c, ts |-> ts]
  <2>1. UNCHANGED <<newest, stamp, thread>> /\ queue' = [queue EXCEPT ![a] = Append(queue[a], item)]
    BY <1>9 DEF Store
  <2> SUFFICES ASSUME NEW b \in Bufs
               PROVE  newest'[b] <= stamp' /\ InTime(b)'
    BY DEF TimeInv
  <2>2. newest[b] <= stamp /\ InTime(b) /\ newest[b] \in Nat
    BY <1>1 DEF TimeInv
  <2>3. CASE b # a
    <3>1. queue \in [Bufs -> Seq(Item)]
      BY DEF Inv, TypeOK, Item
    <3>2. queue'[b] = queue[b]
      BY <2>1, <2>3, <3>1
    <3> QED
      BY <2>1, <2>2, <3>2, InTimeKept
  <2>4. CASE b = a
    <3>1. queue[b] \in Seq(Item) /\ item \in Item
      BY DEF Inv, TypeOK, Item
    <3>2. queue'[b] = Append(queue[b], item)
      BY <2>1, <2>4 DEF Inv, TypeOK
    <3>3. queue'[b] # <<>> /\ DOMAIN queue[b] \subseteq DOMAIN queue'[b]
      BY <3>1, <3>2
    <3>4. \A i \in DOMAIN queue[b] : queue'[b][i] = queue[b][i]
      BY <3>1, <3>2
    <3>5. Sorted(b)' => Sorted(b)
      BY <3>3, <3>4 DEF Sorted
    <3>6. queue[b] # <<>> => 1 \in DOMAIN queue[b]
      BY <3>1
    <3> QED
      BY <2>1, <2>2, <3>3, <3>4, <3>5, <3>6 DEF InTime
  <2> QED
    BY <2>3, <2>4
<1>10. ASSUME NEW a \in Bufs, ThreadStep(a) \/ WakeUp(a)
       PROVE  TimeInv'
  <2>1. UNCHANGED <<newest, stamp>> /\ \A b \in Bufs : b # a => thread'[b] = thread[b] /\ queue'[b] = queue[b]
    BY <1>1, <1>10 DEF ThreadStep, Look, Work, Pop, WakeUp, To, Inv, TypeOK
  <2> SUFFICES ASSUME NEW b \in Bufs
               PROVE  newest'[b] <= stamp' /\ InTime(b)'
    BY DEF TimeInv
  <2>2. newest[b] <= stamp /\ InTime(b) /\ newest[b] \in Nat
    BY <1>1 DEF TimeInv
  <2>3. CASE b # a \/ WakeUp(a) \/ Work(a)
    <3>1. queue'[b] = queue[b]
      BY <2>1, <2>3 DEF WakeUp, Work
    <3>2. thread'[b] \in {"work", "pop", "popWait"} => thread[b] \in {"work", "pop", "popWait"}
      BY <1>1, <2>1, <2>3 DEF WakeUp, Work, To
    <3> QED
      BY <2>1, <2>2, <3>1, <3>2, InTimeKept
  <2>4. CASE b = a /\ Look(a)
    <3>1. queue' = queue /\ newest' = newest
      BY <2>4 DEF Look
    <3>2. thread'[b] = (IF checkMinFilled(b) THEN "work" ELSE "wait")
      BY <1>1, <2>4 DEF Look, To
    <3>3. CASE checkMinFilled(b)
      <4>1. queue[b] # <<>> /\ Back(b) <= newest[b]
        BY <3>3 DEF checkMinFilled
      <4>2. /\ queue[b][1].ts \in Nat /\ Back(b) \in Nat
            /\ Sorted(b) => queue[b][1].ts <= Back(b)
        BY <4>1, FrontBack
      <4>3. Sorted(b) => queue[b][1].ts <= newest[b]
        BY <2>2, <4>1, <4>2
      <4>4. InTime(b)'
        BY <3>1, <4>1, <4>3 DEF InTime, Sorted
      <4> QED
        BY <2>1, <2>2, <4>4
    <3> QED
      BY <2>1, <2>2, <3>2, <3>3 DEF InTime
  <2>5. CASE b = a /\ Pop(a)
    <3>1. CASE checkMinFilled(a)
      <4>1. thread'[b] = "look"
        BY <1>1, <2>5, <3>1 DEF Pop, To
      <4> QED
        BY <2>1, <2>2, <4>1 DEF InTime
    <3>2. CASE ~checkMinFilled(a)
      <4>1. queue' = queue /\ thread[b] = "pop"
        BY <2>5, <3>2 DEF Pop
      <4> QED
        BY <2>1, <2>2, <4>1, InTimeKept
    <3> QED
      BY <3>1, <3>2
  <2> QED
    BY <1>10, <2>3, <2>4, <2>5 DEF ThreadStep
<1>11. CASE UNCHANGED vars
  BY <1>1, <1>2, <1>11 DEF vars, flowVars
<1> QED
  BY <1>3, <1>4, <1>5, <1>6, <1>7, <1>8, <1>9, <1>10, <1>11 DEF Next, TellStep, Source

-----------------------------------------------------------------------------
(* No wake-up is lost. *)

\* The wake-up of a buffer's thread, once due, stays due until it is given.
LEMMA DueKept ==
  ASSUME NEW b \in Bufs, WakeUpDue(b), core' = core,
         timing.pc = "notify" /\ timing.it = b => timing' = timing,
         \A c \in owing : BufOf(c) = b => c \in owing'
  PROVE  WakeUpDue(b)'
BY DEF WakeUpDue, BufOf

\* Where neither buffers nor those who owe a wake-up change.
LEMMA WakesKept ==
  ASSUME Inv, ItemWakes, NEW b \in Bufs, UNCHANGED <<core, timing, owing>>,
         queue'[b] = queue[b], newest'[b] = newest[b],
         Asleep(b)' => Asleep(b)
  PROVE  Asleep(b)' /\ checkMinFilled(b)' => WakeUpDue(b)'
<1>1. checkMinFilled(b)' = checkMinFilled(b)
  BY DEF checkMinFilled, Back
<1>2. WakeUpDue(b)' = WakeUpDue(b)
  BY DEF WakeUpDue, BufOf
<1> QED
  BY <1>1, <1>2 DEF ItemWakes

LEMMA FlowTypes ==
  ASSUME Inv
  PROVE  /\ stamp \in Nat /\ newest \in [Bufs -> Nat]
         /\ thread \in [Bufs -> {"none", "look", "wait", "work", "pop", "popWait"}]
         /\ timing.it \in Nat /\ queue \in [Bufs -> Seq(Item)]
<1>1. stamp \in Nat /\ newest \in [Bufs -> Nat]
  BY Constants DEF Inv, TypeOK
<1>2. timing.it \in Nat
  BY Constants DEF Inv, TypeOK
<1>3. /\ thread \in [Bufs -> {"none", "look", "wait", "work", "pop", "popWait"}]
      /\ queue \in [Bufs -> Seq(Item)]
  BY DEF Inv, TypeOK, Item
<1> QED
  BY <1>1, <1>2, <1>3

LEMMA WakeSteps ==
  ASSUME Inv, TimeInv, ItemWakes, [Next]_vars
  PROVE  ItemWakes'
<1> SUFFICES ASSUME NEW b \in Bufs, Asleep(b)', checkMinFilled(b)'
             PROVE  WakeUpDue(b)'
  BY DEF ItemWakes
<1>1. /\ stamp \in Nat /\ newest \in [Bufs -> Nat] /\ newest[b] <= stamp
      /\ thread \in [Bufs -> {"none", "look", "wait", "work", "pop", "popWait"}]
      /\ timing.it \in Nat /\ queue \in [Bufs -> Seq(Item)]
  BY FlowTypes DEF TimeInv
<1>2. CASE SetUp
  <2>1. UNCHANGED <<queue, newest, timing, owing>>
    BY <1>2 DEF SetUp, Configure, Register, Unregister, CreateBegin, AddInpBuf, StartInpBuf,
       AddOutBuf, AddChannel, AddFinalizePop, flowVars
  <2>2. UNCHANGED thread \/ thread' = [thread EXCEPT ![channels] = "look"]
    BY <1>2 DEF SetUp, Configure, Register, Unregister, CreateBegin, AddInpBuf, StartInpBuf,
       AddOutBuf, AddChannel, AddFinalizePop, flowVars
  <2>3. Asleep(b)
    BY <1>1, <2>2 DEF Asleep
  <2>4. core' = core \/ core.inp = 0
    BY <1>2 DEF SetUp, Configure, Register, Unregister, CreateBegin, AddInpBuf, StartInpBuf,
       AddOutBuf, AddChannel, AddFinalizePop, TheCore
  <2>5. CASE core' = core
    BY <2>1, <2>3, <2>5, WakesKept
  <2>6. CASE core.inp = 0
    <3>1. channels = 0
      BY <2>6 DEF Inv, SetUpInv, CountInv
    <3>2. owing = {}
      BY <3>1, Constants DEF Inv, TypeOK, SetUpInv, OthersInv
    <3>3. checkMinFilled(b)
      BY <2>1 DEF checkMinFilled, Back
    <3>4. WakeUpDue(b)
      BY <2>3, <3>3 DEF ItemWakes
    <3> QED
      BY <2>1, <3>2, <3>4 DEF WakeUpDue
  <2> QED
    BY <2>4, <2>5, <2>6
<1>3. CASE Pulse \/ Overrun \/ TellEnd
  <2>1. UNCHANGED <<core, queue, newest, thread, owing>>
    BY <1>3 DEF Pulse, Overrun, TellEnd, setUpVars
  <2>2. timing.pc = "notify" => timing' = timing
    BY <1>3 DEF Pulse, Overrun, TellEnd
  <2>3. Asleep(b) /\ checkMinFilled(b)
    BY <2>1 DEF Asleep, checkMinFilled, Back
  <2> QED
    BY <2>1, <2>2, <2>3, DueKept DEF ItemWakes
<1>4. CASE Tell
  <2>1. UNCHANGED <<core, queue, thread, owing>> /\ newest' = [newest EXCEPT ![timing.it] = stamp]
    BY <1>4 DEF Tell, setUpVars
  <2>2. Asleep(b) /\ timing.pc # "notify"
    BY <1>4, <2>1 DEF Asleep, Tell
  <2>3. CASE checkMinFilled(b)
    BY <2>1, <2>2, <2>3, DueKept DEF ItemWakes
  <2>4. CASE ~checkMinFilled(b)
    <3>1. queue[b] # <<>> /\ Back(b) <= newest'[b] /\ ~(Back(b) <= newest[b])
      BY <2>1, <2>4 DEF checkMinFilled, Back
    <3>2. Back(b) \in Nat
      BY <3>1, FrontBack
    <3>3. timing.it = b /\ newest'[b] = stamp
      BY <1>1, <2>1, <3>1
    <3>4. Released(b)
      BY <1>1, <3>1, <3>2, <3>3 DEF Released
    <3>5. timing' = [timing EXCEPT !.pc = "notify"]
      BY <1>4, <3>3, <3>4 DEF Tell
    <3> QED
      BY <3>3, <3>5 DEF WakeUpDue, Inv, TypeOK
  <2> QED
    BY <2>3, <2>4
<1>5. CASE TellNotify
  <2>1. timing.it \in Bufs
    <3>1. timing.it < inpBufs
      BY <1>5 DEF Inv, SetUpInv, OthersInv, TellNotify
    <3>2. timing.it \in 0 .. inpBufs - 1
      BY <1>1, <3>1, BufCount, Constants
    <3> QED
      BY <3>2, BufCount
  <2>2. UNCHANGED <<core, queue, newest, owing>> /\ Wake(timing.it)
    BY <1>5 DEF TellNotify, setUpVars
  <2>3. b # timing.it /\ thread'[b] = thread[b]
    BY <2>1, <2>2, WakeTypes DEF Inv
  <2>4. Asleep(b) /\ checkMinFilled(b)
    BY <2>2, <2>3 DEF Asleep, checkMinFilled, Back
  <2> QED
    BY <2>2, <2>3, <2>4, DueKept DEF ItemWakes
<1>6. ASSUME NEW c \in Chids, StoreNotify(c)
      PROVE  WakeUpDue(b)'
  <2>1. BufOf(c) \in Bufs
    BY <1>6, Found DEF Inv, SetUpInv, OthersInv, StoreNotify
  <2>2. UNCHANGED <<core, timing, queue, newest>> /\ Wake(BufOf(c)) /\ owing' = owing \ {c}
    BY <1>6 DEF StoreNotify, setUpVars
  <2>3. b # BufOf(c) /\ thread'[b] = thread[b]
    BY <2>1, <2>2, WakeTypes DEF Inv
  <2>4. Asleep(b) /\ checkMinFilled(b)
    BY <2>2, <2>3 DEF Asleep, checkMinFilled, Back
  <2> QED
    BY <2>2, <2>3, <2>4, DueKept DEF ItemWakes
<1>7. ASSUME NEW c \in Chids, Refuse(c)
      PROVE  WakeUpDue(b)'
  <2>1. UNCHANGED <<core, timing, owing, queue, newest, thread>>
    BY <1>7 DEF Refuse, setUpVars
  <2> QED
    BY <2>1, WakesKept DEF Asleep
<1>8. ASSUME NEW c \in Chids, NEW ts \in 1 .. MaxStamp, Store(c, ts)
      PROVE  WakeUpDue(b)'
  <2> DEFINE a == BufOf(c)
             item == [chid |-> c, ts |-> ts]
  <2>1. /\ UNCHANGED <<core, timing, newest, thread>>
        /\ queue' = [queue EXCEPT ![a] = Append(queue[a], item)]
        /\ owing' = IF ts <= newest[a] THEN owing \cup {c} ELSE owing
    BY <1>8 DEF Store, setUpVars
  <2>2. Asleep(b)
    BY <2>1 DEF Asleep
  <2>3. CASE b # a
    <3>1. queue'[b] = queue[b]
      BY <1>1, <2>1, <2>3
    <3>2. checkMinFilled(b)
      BY <2>1, <3>1 DEF checkMinFilled, Back
    <3> QED
      BY <2>1, <2>2, <3>2, DueKept DEF ItemWakes
  <2>4. CASE b = a
    <3>1. queue[b] \in Seq(Item) /\ item \in Item
      BY <1>1 DEF Item
    <3>2. queue'[b] = Append(queue[b], item)
      BY <1>1, <2>1, <2>4
    <3>3. queue'[b][Len(queue'[b])] = item
      BY <3>1, <3>2
    <3>4. ts <= newest[b]
      BY <2>1, <3>3 DEF checkMinFilled, Back
    <3>5. c \in owing' /\ BufOf(c)' = b
      BY <2>1, <2>4, <3>4 DEF BufOf
    <3> QED
      BY <3>5 DEF WakeUpDue, BufOf
  <2> QED
    BY <2>3, <2>4
<1>9. ASSUME NEW a \in Bufs, ThreadStep(a) \/ WakeUp(a)
      PROVE  WakeUpDue(b)'
  <2>1. /\ UNCHANGED <<core, timing, owing, newest>>
        /\ b # a => thread'[b] = thread[b] /\ queue'[b] = queue[b]
    BY <1>1, <1>9 DEF ThreadStep, Look, Work, Pop, WakeUp, To, setUpVars
  <2>2. CASE b # a
    BY <2>1, <2>2, WakesKept DEF Asleep
  <2>3. CASE b = a /\ (WakeUp(a) \/ Work(a))
    BY <1>1, <2>3 DEF WakeUp, Work, To, Asleep
  <2>4. CASE b = a /\ Look(a)
    <3>1. queue' = queue /\ newest' = newest
      BY <2>4 DEF Look
    <3>2. checkMinFilled(b)
      BY <3>1 DEF checkMinFilled, Back
    <3> QED
      BY <1>1, <2>4, <3>2 DEF Look, To, Asleep
  <2>5. CASE b = a /\ Pop(a)
    <3>1. CASE checkMinFilled(b)
      BY <1>1, <2>5, <3>1 DEF Pop, To, Asleep
    <3>2. CASE ~checkMinFilled(b)
      <4>1. queue' = queue /\ newest' = newest
        BY <2>5, <3>2 DEF Pop
      <4> QED
        BY <3>2, <4>1 DEF checkMinFilled, Back
    <3> QED
      BY <3>1, <3>2
  <2> QED
    BY <1>9, <2>2, <2>3, <2>4, <2>5 DEF ThreadStep
<1>10. CASE UNCHANGED vars
  <2>1. UNCHANGED <<core, timing, owing, queue, newest, thread>>
    BY <1>10 DEF vars, setUpVars, flowVars
  <2> QED
    BY <2>1, WakesKept DEF Asleep
<1> QED
  BY <1>2, <1>3, <1>4, <1>5, <1>6, <1>7, <1>8, <1>9, <1>10 DEF Next, TellStep, Source

-----------------------------------------------------------------------------
(* The theorems. *)

LEMMA InitInv ==
  ASSUME Init
  PROVE  Inv /\ TimeInv /\ ItemWakes
<1>1. TypeOK
  <2>1. config \in Pools /\ core \in Pools
    BY Constants DEF Init, Pools
  <2>2. /\ channels \in 0 .. MaxChannels /\ poppers \in 0 .. MaxChannels
        /\ inpBufs \in 0 .. MaxPool /\ outBufs \in 0 .. MaxPool
        /\ stamp \in 0 .. MaxStamp
    BY Constants DEF Init
  <2>3. timing \in [pc : {"idle", "tell", "notify"}, it : 0 .. MaxPool]
    BY Constants DEF Init, Idle
  <2>4. /\ queue \in [Bufs -> Seq([chid : Chids, ts : 1 .. MaxStamp])]
        /\ \A b \in Bufs : Len(queue[b]) <= IbufSize
    BY Constants DEF Init
  <2>5. newest \in [Bufs -> 0 .. MaxStamp]
    BY Constants DEF Init
  <2>6. stored \in [Chids -> 0 .. MaxStore] /\ dropped \in [Chids -> Nat] /\ processed \in [Chids -> Nat]
    BY Constants DEF Init
  <2> QED
    BY <2>1, <2>2, <2>3, <2>4, <2>5, <2>6 DEF Init, TypeOK
<1>2. SetUpInv
  BY DEF Init, SetUpInv, CountInv, OthersInv, Buffers, Idle
<1>3. TimeInv /\ ItemWakes
  BY DEF Init, TimeInv, InTime, ItemWakes, Asleep
<1> QED
  BY <1>1, <1>2, <1>3 DEF Inv

LEMMA NextInv ==
  ASSUME Inv, TimeInv, [Next]_vars
  PROVE  Inv'
<1>1. Holds
  BY DEF TimeInv, InTime, Holds
<1>2. CASE UNCHANGED vars
  BY <1>2 DEF Inv, TypeOK, SetUpInv, CountInv, OthersInv, Buffers,
     vars, setUpVars, flowVars, countVars
<1> QED
  BY <1>1, <1>2, SetUpSteps, TimingSteps, SourceSteps, ThreadSteps DEF Next

\* All that is proved, as one invariant: what set-up, time and wake-ups are.
LEMMA Invariance == Spec => [](Inv /\ TimeInv /\ ItemWakes)
<1>1. Init => Inv /\ TimeInv /\ ItemWakes
  BY InitInv
<1>2. Inv /\ TimeInv /\ ItemWakes /\ [Next]_vars => (Inv /\ TimeInv /\ ItemWakes)'
  BY NextInv, TimeSteps, WakeSteps
<1> QED
  BY <1>1, <1>2, PTL DEF Spec

\* Type correctness, and no input buffer holds more than its size.
THEOREM TypeCorrect == Spec => []TypeOK
<1>1. Inv => TypeOK
  BY DEF Inv
<1> QED
  BY <1>1, Invariance, PTL

\* BsaCore::createChannel, interrupted anywhere by timing callback and data
\* sources, whatever pools the C API has configured: a channel that exists has
\* the input buffer, its thread, and the output buffer that it will look up.
THEOREM SetUpCorrect == Spec => []Prepared
<1>1. Inv => Prepared
  <2> SUFFICES ASSUME Inv
               PROVE  Prepared
    OBVIOUS
  <2>1. poppers = IF creating = "finalize" THEN channels - 1 ELSE channels
    BY DEF Inv, SetUpInv, CountInv
  <2>2. /\ channels \in 0 .. MaxChannels /\ MaxChannels \in Nat
        /\ core["inp"] = core.inp /\ core["out"] = core.out
        /\ core.inp \in Nat /\ core.out \in Nat
    <3>1. channels \in 0 .. MaxChannels /\ MaxChannels \in Nat
      BY Constants DEF Inv, TypeOK
    <3>2. TypeOK
      BY DEF Inv
    <3> QED
      BY <3>1, <3>2, CoreTypes, Constants
  <2> SUFFICES ASSUME NEW c \in 0 .. channels - 1
               PROVE  /\ core.inp > 0 /\ BufOf(c) < inpBufs /\ thread[BufOf(c)] # "none"
                      /\ core.out > 0 /\ c % core.out < outBufs
    BY <2>1 DEF Prepared
  <2>3. c \in Chids /\ c \in Nat /\ c < channels
    BY <2>2, Constants
  <2>4. /\ core.inp > 0 /\ BufOf(c) \in Bufs /\ BufOf(c) < core.inp /\ BufOf(c) <= c
        /\ core.out > 0 /\ c % core.out < core.out /\ c % core.out <= c
        /\ c % core.out \in Nat /\ BufOf(c) \in Nat
    BY <2>2, <2>3, Found, Constants
  <2>5. /\ inpBufs = Buffers(channels, "inp") \/ inpBufs = Buffers(channels + 1, "inp")
        /\ outBufs = Buffers(channels, "out") \/ outBufs = Buffers(channels + 1, "out")
    BY DEF Inv, SetUpInv, CountInv
  <2>6. BufOf(c) < inpBufs /\ c % core.out < outBufs
    BY <2>2, <2>3, <2>4, <2>5 DEF Buffers
  <2>7. thread[BufOf(c)] # "none"
    BY <2>2, <2>3, <2>4, <2>6 DEF Inv, SetUpInv, OthersInv
  <2> QED
    BY <2>4, <2>6, <2>7
<1> QED
  BY <1>1, Invariance, PTL

\* RingBufferSync's notifications, given after the lock is released, and only
\* when push_back or updatePatternTimeStamp sees checkMinFilled turn true:
\* no thread sleeps on an item that can be worked on.
THEOREM NeverForgotten == Spec => []ItemWakes
<1> QED
  BY Invariance, PTL

\* A thread between checkMinFilled and the second one in pop() has the item it
\* looked at, with its pattern in the past if the items are in order.
THEOREM NotTooEarly == Spec => []ItemInTime
<1>1. TimeInv => ItemInTime
  BY DEF TimeInv, InTime, ItemInTime, Sorted
<1> QED
  BY <1>1, Invariance, PTL

-----------------------------------------------------------------------------
(* Every item is accounted for. *)

Handed(b) == thread[b] \in {"pop", "popWait"}

\* The items that Pending counts: those of channel c in the buffers, but for
\* the ones that were processed and wait for their pop.
Waits(c, b, i) == i \in DOMAIN queue[b] /\ queue[b][i].chid = c /\ ~(i = 1 /\ Handed(b))

PendingSet(c) == {x \in Bufs \X (1 .. IbufSize) : Waits(c, x[1], x[2])}

LEMMA PendingIs ==
  ASSUME Inv, NEW c
  PROVE  /\ Pending(c) = Cardinality(PendingSet(c))
         /\ IsFiniteSet(PendingSet(c)) /\ Pending(c) \in Nat
<1> DEFINE S == UNION {{<<b, i>> : i \in {i \in DOMAIN queue[b] :
                     /\ queue[b][i].chid = c
                     /\ ~(i = 1 /\ thread[b] \in {"pop", "popWait"})}} : b \in Bufs}
<1>1. ASSUME NEW x
      PROVE  x \in S <=> x \in PendingSet(c)
  <2>1. x \in S <=> \E b \in Bufs : \E i \in DOMAIN queue[b] : x = <<b, i>> /\ Waits(c, b, i)
    BY DEF Waits, Handed
  <2>2. \A b \in Bufs : DOMAIN queue[b] \subseteq 1 .. IbufSize
    <3>1. \A b \in Bufs : queue[b] \in Seq(Item) /\ Len(queue[b]) <= IbufSize
      BY DEF Inv, TypeOK, Item
    <3>2. QED  BY <3>1, Constants
  <2>3. \A b \in Bufs : \A i : Waits(c, b, i) => i \in DOMAIN queue[b]
    BY DEF Waits
  <2>4. QED  BY <2>1, <2>2, <2>3 DEF PendingSet
<1>2. S = PendingSet(c)
  BY <1>1
<1>3. Pending(c) = Cardinality(PendingSet(c))
  BY <1>2 DEF Pending
<1>4. IsFiniteSet(Bufs \X (1 .. IbufSize))
  <2>1. IsFiniteSet(0 .. MaxPool - 1) /\ IsFiniteSet(1 .. IbufSize)
    BY Constants, FS_Interval
  <2>2. QED  BY <2>1, Constants, FS_Product
<1>5. IsFiniteSet(PendingSet(c))
  BY <1>4, FS_Subset DEF PendingSet
<1>6. QED  BY <1>3, <1>5, FS_CardinalityType

LEMMA PendingAll ==
  \A d : Inv => Pending(d) = Cardinality(PendingSet(d)) /\ Pending(d) \in Nat
BY PendingIs

\* The same after a step.
LEMMA PendingNext ==
  ASSUME Inv', NEW c
  PROVE  /\ Pending(c)' = Cardinality(PendingSet(c)')
         /\ Pending(c)' \in Nat
<1>1. (\A d : Inv => Pending(d) = Cardinality(PendingSet(d)) /\ Pending(d) \in Nat)'
  BY PendingAll, PTL
<1>2. QED  BY <1>1

\* Only what is in the buffers, and which of it has been handed out, counts.
LEMMA PendingKept ==
  ASSUME Inv, Inv', queue' = queue, \A b \in Bufs : Handed(b)' = Handed(b), NEW c \in Chids
  PROVE  Pending(c)' = Pending(c)
<1>1. PendingSet(c)' = PendingSet(c)
  BY DEF PendingSet, Waits
<1>2. QED  BY <1>1, PendingIs, PendingNext

\* Buffers whose thread has not been started have none.
NotStarted ==
  \A b \in Bufs : b >= inpBufs \/ (creating = "start" /\ b = channels) => thread[b] = "none"

AccountInv == NotStarted /\ Accounted

\* Where no thread comes to life.
LEMMA NotStartedKept ==
  ASSUME NotStarted, UNCHANGED setUpVars,
         \A b \in Bufs : thread[b] = "none" => thread'[b] = "none"
  PROVE  NotStarted'
BY DEF NotStarted, setUpVars

LEMMA AccountedKept ==
  ASSUME Inv, Inv', Accounted, UNCHANGED countVars, queue' = queue,
         \A b \in Bufs : Handed(b)' = Handed(b)
  PROVE  Accounted'
BY PendingKept DEF Accounted, countVars

\* createChannel: a thread is started only for a buffer that had none.
LEMMA SetUpAccount ==
  ASSUME Inv, Inv', AccountInv, SetUp
  PROVE  AccountInv'
<1>1. /\ channels \in Nat /\ inpBufs \in Nat /\ core.inp \in Nat
      /\ thread \in [Bufs -> {"none", "look", "wait", "work", "pop", "popWait"}]
      /\ Bufs \subseteq Nat
      /\ core["inp"] = core.inp
  <2>1. channels \in Nat /\ inpBufs \in Nat
    BY Constants DEF Inv, TypeOK
  <2>2. core.inp \in Nat /\ core["inp"] = core.inp
    BY Constants, CoreTypes DEF Inv
  <2>3. thread \in [Bufs -> {"none", "look", "wait", "work", "pop", "popWait"}]
    BY DEF Inv, TypeOK
  <2>4. QED  BY <2>1, <2>2, <2>3, Constants
<1>2. UNCHANGED <<queue, countVars>>
  BY DEF SetUp, Configure, Register, Unregister, CreateBegin, AddInpBuf, StartInpBuf,
         AddOutBuf, AddChannel, AddFinalizePop, flowVars
<1>3. CASE StartInpBuf
  <2>1. /\ creating = "start" /\ creating' = "output" /\ UNCHANGED <<inpBufs, channels>>
        /\ thread' = [thread EXCEPT ![channels] = "look"]
    BY <1>3 DEF StartInpBuf
  <2>2. inpBufs = channels + 1
    <3>1. channels < core.inp
      BY <2>1 DEF Inv, SetUpInv, CountInv
    <3>2. inpBufs = Buffers(channels + 1, "inp")
      BY <2>1 DEF Inv, SetUpInv, CountInv
    <3>3. QED  BY <1>1, <3>1, <3>2 DEF Buffers
  <2>3. NotStarted'
    BY <1>1, <2>1, <2>2 DEF AccountInv, NotStarted
  <2>4. \A b \in Bufs : Handed(b)' = Handed(b)
    BY <1>1, <2>1 DEF AccountInv, NotStarted, Handed
  <2>5. QED  BY <1>2, <2>3, <2>4, AccountedKept DEF AccountInv
<1>4. CASE ~StartInpBuf
  <2>1. thread' = thread
    BY <1>4 DEF SetUp, Configure, Register, Unregister, CreateBegin, AddInpBuf,
                AddOutBuf, AddChannel, AddFinalizePop, flowVars
  <2>2. Accounted'
    BY <1>2, <2>1, AccountedKept DEF AccountInv, Handed
  <2>3. NotStarted'
    <3>1. CASE AddInpBuf
      <4>1. /\ creating = "input" /\ channels' = channels
            /\ IF channels < core.inp THEN inpBufs' = inpBufs + 1
                                      ELSE inpBufs' = inpBufs /\ creating' = "output"
        BY <1>1, <3>1 DEF AddInpBuf, NeedsBuf
      <4>2. inpBufs = Buffers(channels, "inp")
        BY <4>1 DEF Inv, SetUpInv, CountInv
      <4>3. channels < core.inp => inpBufs = channels
        BY <1>1, <4>2 DEF Buffers
      <4>4. QED  BY <1>1, <2>1, <4>1, <4>3 DEF AccountInv, NotStarted
    <3>2. CASE ~AddInpBuf
      <4>1. inpBufs' = inpBufs
        BY <1>4, <3>2 DEF SetUp, Configure, Register, Unregister, CreateBegin,
                AddOutBuf, AddChannel, AddFinalizePop
      <4>2. creating' = "start" => creating = "start" /\ channels' = channels
        BY <1>4, <3>2 DEF SetUp, Configure, Register, Unregister, CreateBegin,
                AddOutBuf, AddChannel, AddFinalizePop
      <4>3. QED  BY <2>1, <4>1, <4>2 DEF AccountInv, NotStarted
    <3>3. QED  BY <3>1, <3>2
  <2>4. QED  BY <2>2, <2>3 DEF AccountInv
<1>5. QED  BY <1>3, <1>4

\* A notification hands nothing out and takes nothing back.
LEMMA WakeAccount ==
  ASSUME Inv, Inv', AccountInv, NEW b \in Bufs, Wake(b), UNCHANGED <<setUpVars, queue, countVars>>
  PROVE  AccountInv'
<1>1. thread \in [Bufs -> {"none", "look", "wait", "work", "pop", "popWait"}]
  BY DEF Inv, TypeOK
<1>2. \A a \in Bufs : Handed(a)' = Handed(a)
  BY <1>1 DEF Wake, Handed
<1>3. \A a \in Bufs : thread[a] = "none" => thread'[a] = "none"
  BY <1>1 DEF Wake
<1>4. QED  BY <1>2, <1>3, NotStartedKept, AccountedKept DEF AccountInv

LEMMA TimingAccount ==
  ASSUME Inv, Inv', AccountInv, Pulse \/ Overrun \/ TellStep
  PROVE  AccountInv'
<1>1. UNCHANGED <<setUpVars, queue, countVars>>
  BY DEF Pulse, Overrun, TellStep, Tell, TellNotify, TellEnd
<1>2. CASE TellNotify
  <2>1. timing.it \in Bufs
    <3>1. timing.it < inpBufs
      BY <1>2 DEF Inv, SetUpInv, OthersInv, TellNotify
    <3>2. timing.it \in 0 .. inpBufs - 1
      BY <3>1, BufCount, FlowTypes, Constants
    <3>3. QED  BY <3>2, BufCount
  <2>2. QED  BY <1>1, <1>2, <2>1, WakeAccount DEF TellNotify
<1>3. CASE ~TellNotify
  <2>1. thread' = thread
    BY <1>3 DEF Pulse, Overrun, TellStep, Tell, TellEnd
  <2>2. QED  BY <1>1, <2>1, NotStartedKept, AccountedKept DEF AccountInv, Handed
<1>4. QED  BY <1>2, <1>3

\* A call of storeData adds its item to one channel's, or drops it.
LEMMA StoreAccount ==
  ASSUME Inv, Inv', TimeInv, AccountInv, NEW c \in Chids, NEW ts \in 1 .. MaxStamp, Store(c, ts)
  PROVE  AccountInv'
<1> DEFINE b == BufOf(c)
           q == queue[b]
           item == [chid |-> c, ts |-> ts]
           n == Len(q) + 1
<1>1. b \in Bufs
  BY Found DEF Store
<1>2. /\ queue \in [Bufs -> Seq(Item)] /\ q \in Seq(Item) /\ n \in Nat
  <2>1. queue \in [Bufs -> Seq(Item)]
    BY DEF Inv, TypeOK, Item
  <2>2. q \in Seq(Item)
    BY <1>1, <2>1
  <2>3. Len(q) \in Nat
    BY <2>2
  <2>4. QED  BY <2>1, <2>2, <2>3
<1>3. /\ queue' = [queue EXCEPT ![b] = Append(q, item)]
      /\ UNCHANGED <<setUpVars, thread, dropped, processed>>
      /\ stored' = [stored EXCEPT ![c] = stored[c] + 1]
  BY DEF Store
<1>4. NotStarted'
  BY <1>3, NotStartedKept DEF AccountInv
<1>5. \A a \in Bufs : Handed(a)' = Handed(a)
  BY <1>3 DEF Handed
<1>6. ~(n = 1 /\ Handed(b))
  <2>1. Handed(b) => q # <<>>
    BY <1>1 DEF TimeInv, InTime, Handed
  <2>2. q # <<>> => n # 1
    BY <1>2
  <2>3. QED  BY <2>1, <2>2
<1>7. /\ queue'[b] = Append(q, item)
      /\ \A a \in Bufs : a # b => queue'[a] = queue[a]
  BY <1>1, <1>2, <1>3
<1>8. /\ DOMAIN queue'[b] = DOMAIN q \cup {n} /\ n \notin DOMAIN q
      /\ queue'[b][n] = item /\ \A i \in DOMAIN q : queue'[b][i] = q[i]
  <2>1. \A s \in Seq(Item) :
          /\ DOMAIN Append(s, item) = DOMAIN s \cup {Len(s) + 1}
          /\ Len(s) + 1 \notin DOMAIN s
          /\ Append(s, item)[Len(s) + 1] = item
          /\ \A i \in DOMAIN s : Append(s, item)[i] = s[i]
    OBVIOUS
  <2>2. QED  BY <1>2, <1>7, <2>1
<1>9. ASSUME NEW d \in Chids, NEW a \in Bufs, NEW i
      PROVE  Waits(d, a, i)' <=> Waits(d, a, i) \/ (d = c /\ a = b /\ i = n)
  <2>1. CASE a # b
    BY <1>5, <1>7, <2>1 DEF Waits
  <2>2. CASE a = b
    BY <1>5, <1>6, <1>8, <2>2 DEF Waits
  <2>3. QED  BY <2>1, <2>2
<1>10. n \in 1 .. IbufSize
  <2>1. Len(queue'[b]) <= IbufSize /\ Len(queue'[b]) = n
    BY <1>1, <1>2, <1>7 DEF Inv, TypeOK
  <2>2. QED  BY <1>2, <2>1, Constants
<1>11. /\ PendingSet(c)' = PendingSet(c) \cup {<<b, n>>} /\ <<b, n>> \notin PendingSet(c)
       /\ \A d \in Chids : d # c => PendingSet(d)' = PendingSet(d)
  <2>1. \A d \in Chids : \A x \in Bufs \X (1 .. IbufSize) :
          Waits(d, x[1], x[2])' <=> Waits(d, x[1], x[2]) \/ (d = c /\ x = <<b, n>>)
    BY <1>1, <1>9
  <2>2. ~Waits(c, b, n)
    BY <1>8 DEF Waits
  <2>3. <<b, n>> \in Bufs \X (1 .. IbufSize)
    BY <1>1, <1>10
  <2>4. QED  BY <2>1, <2>2, <2>3 DEF PendingSet
<1>12. /\ Pending(c)' = Pending(c) + 1
       /\ \A d \in Chids : d # c => Pending(d)' = Pending(d)
  BY <1>11, PendingIs, PendingNext, FS_AddElement
<1>13. ASSUME NEW d \in Chids
       PROVE  stored'[d] = dropped'[d] + processed'[d] + Pending(d)'
  <2>1. /\ stored[d] = dropped[d] + processed[d] + Pending(d)
        /\ stored[d] \in Nat /\ dropped[d] \in Nat /\ processed[d] \in Nat
        /\ stored \in [Chids -> Nat]
    <3>1. stored[d] = dropped[d] + processed[d] + Pending(d)
      BY DEF AccountInv, Accounted
    <3>2. /\ stored \in [Chids -> 0 .. MaxStore] /\ MaxStore \in Nat
          /\ dropped \in [Chids -> Nat] /\ processed \in [Chids -> Nat]
      BY Constants DEF Inv, TypeOK
    <3>3. stored \in [Chids -> Nat]
      BY <3>2
    <3>4. QED  BY <3>1, <3>2, <3>3
  <2>2. Pending(d) \in Nat
    BY PendingIs
  <2>3. CASE d = c
    BY <1>3, <1>12, <2>1, <2>2, <2>3
  <2>4. CASE d # c
    BY <1>3, <1>12, <2>1, <2>2, <2>4
  <2>5. QED  BY <2>3, <2>4
<1>14. QED  BY <1>4, <1>13 DEF AccountInv, Accounted

\* A full buffer refuses an item, which is counted as dropped.
LEMMA RefuseAccount ==
  ASSUME Inv, Inv', AccountInv, NEW c \in Chids, Refuse(c)
  PROVE  AccountInv'
<1>1. /\ UNCHANGED <<setUpVars, queue, thread, processed>>
      /\ stored' = [stored EXCEPT ![c] = stored[c] + 1]
      /\ dropped' = [dropped EXCEPT ![c] = dropped[c] + 1]
  BY DEF Refuse
<1>2. NotStarted'
  BY <1>1, NotStartedKept DEF AccountInv
<1>3. ASSUME NEW d \in Chids
      PROVE  stored'[d] = dropped'[d] + processed'[d] + Pending(d)'
  <2>1. Pending(d)' = Pending(d) /\ Pending(d) \in Nat
    BY <1>1, PendingKept, PendingIs DEF Handed
  <2>2. stored[d] = dropped[d] + processed[d] + Pending(d)
    BY DEF AccountInv, Accounted
  <2>3. /\ stored \in [Chids -> 0 .. MaxStore] /\ MaxStore \in Nat
        /\ dropped \in [Chids -> Nat] /\ processed \in [Chids -> Nat]
    BY Constants DEF Inv, TypeOK
  <2>4. /\ stored'[d] = IF d = c THEN stored[d] + 1 ELSE stored[d]
        /\ dropped'[d] = IF d = c THEN dropped[d] + 1 ELSE dropped[d]
        /\ processed'[d] = processed[d]
    BY <1>1, <2>3
  <2>5. stored[d] \in Nat /\ dropped[d] \in Nat /\ processed[d] \in Nat
    BY <2>3
  <2>6. QED  BY <2>1, <2>2, <2>4, <2>5
<1>4. QED  BY <1>2, <1>3 DEF AccountInv, Accounted

\* processItem: the front item no longer waits.
LEMMA WorkAccount ==
  ASSUME Inv, Inv', TimeInv, AccountInv, NEW b \in Bufs, Work(b)
  PROVE  AccountInv'
<1>1. /\ thread \in [Bufs -> {"none", "look", "wait", "work", "pop", "popWait"}]
      /\ queue[b] \in Seq(Item) /\ processed \in [Chids -> Nat]
  BY DEF Inv, TypeOK, Item
<1>2. /\ thread[b] = "work" /\ thread' = [thread EXCEPT ![b] = "pop"]
      /\ UNCHANGED <<setUpVars, queue, stored, dropped>>
  BY DEF Work, To
<1>3. 1 \in DOMAIN queue[b] /\ queue[b][1] \in Item
  <2>1. queue[b] # <<>>
    BY <1>2 DEF TimeInv, InTime
  <2>2. QED  BY <1>1, <2>1
<1>4. PICK c \in Chids : c = queue[b][1].chid
  BY <1>3 DEF Item
<1>5. processed' = [processed EXCEPT ![c] = processed[c] + 1]
  BY <1>4 DEF Work
<1>6. NotStarted'
  BY <1>1, <1>2, NotStartedKept DEF AccountInv
<1>7. /\ ~Handed(b) /\ Handed(b)'
      /\ \A a \in Bufs : a # b => Handed(a)' = Handed(a)
  BY <1>1, <1>2 DEF Handed
<1>8. <<b, 1>> \in Bufs \X (1 .. IbufSize)
  BY Constants
<1>9. /\ PendingSet(c)' = PendingSet(c) \ {<<b, 1>>} /\ <<b, 1>> \in PendingSet(c)
      /\ \A d \in Chids : d # c => PendingSet(d)' = PendingSet(d)
  <2>1. \A d \in Chids : \A x \in Bufs \X (1 .. IbufSize) :
          Waits(d, x[1], x[2])' <=> Waits(d, x[1], x[2]) /\ ~(d = c /\ x = <<b, 1>>)
    BY <1>2, <1>7, <1>4 DEF Waits
  <2>2. Waits(c, b, 1)
    BY <1>3, <1>7, <1>4 DEF Waits
  <2>3. <<b, 1>> \in PendingSet(c)
    BY <2>2, <1>8 DEF PendingSet
  <2>4. \A x : x \in PendingSet(c)' <=> x \in PendingSet(c) /\ x # <<b, 1>>
    BY <2>1 DEF PendingSet
  <2>5. \A d \in Chids : d # c => PendingSet(d)' = PendingSet(d)
    BY <2>1 DEF PendingSet
  <2>6. PendingSet(c)' = PendingSet(c) \ {<<b, 1>>}
    BY <2>4
  <2>7. QED  BY <2>3, <2>5, <2>6
<1>10. /\ Pending(c)' = Pending(c) - 1
      /\ \A d \in Chids : d # c => Pending(d)' = Pending(d)
  <2>1. Cardinality(PendingSet(c) \ {<<b, 1>>}) = Cardinality(PendingSet(c)) - 1
    BY <1>9, PendingIs, FS_RemoveElement
  <2>2. Pending(c)' = Pending(c) - 1
    BY <1>9, <2>1, PendingIs, PendingNext
  <2>3. QED  BY <1>9, <2>2, PendingIs, PendingNext
<1>11. ASSUME NEW d \in Chids
      PROVE  stored'[d] = dropped'[d] + processed'[d] + Pending(d)'
  <2>1. stored[d] = dropped[d] + processed[d] + Pending(d)
    BY DEF AccountInv, Accounted
  <2>2. /\ stored \in [Chids -> 0 .. MaxStore] /\ MaxStore \in Nat
        /\ dropped \in [Chids -> Nat]
    BY Constants DEF Inv, TypeOK
  <2>3. stored[d] \in Nat /\ dropped[d] \in Nat /\ processed[d] \in Nat
    BY <1>1, <2>2
  <2>4. /\ stored'[d] = stored[d] /\ dropped'[d] = dropped[d]
        /\ processed'[d] = IF d = c THEN processed[d] + 1 ELSE processed[d]
    BY <1>1, <1>2, <1>5
  <2>5. Pending(d) \in Nat /\ Pending(d)' = IF d = c THEN Pending(d) - 1 ELSE Pending(d)
    <3>1. Pending(d) \in Nat
      BY PendingIs
    <3>2. QED  BY <1>10, <3>1, Zenon
  <2>6. QED  BY <2>1, <2>3, <2>4, <2>5
<1>12. QED  BY <1>6, <1>11 DEF AccountInv, Accounted

\* Two finite sets of the same size.
LEMMA SameSize ==
  ASSUME NEW S, NEW T, NEW f, IsFiniteSet(S), f \in [S -> T],
         \A x, y \in S : f[x] = f[y] => x = y,
         \A y \in T : \E x \in S : f[x] = y
  PROVE  Cardinality(T) = Cardinality(S)
<1>1. f \in Bijection(S, T)
  BY Fun_IsBij
<1>2. ExistsBijection(S, T)
  BY <1>1 DEF ExistsBijection
<1>3. QED  BY <1>2, FS_Bijection

\* The item that is popped is one that no longer waits: the others move up.
LEMMA PopAccount ==
  ASSUME Inv, Inv', AccountInv, NEW b \in Bufs, Pop(b)
  PROVE  AccountInv'
<1>1. /\ thread \in [Bufs -> {"none", "look", "wait", "work", "pop", "popWait"}]
      /\ queue \in [Bufs -> Seq(Item)] /\ queue[b] \in Seq(Item)
  BY DEF Inv, TypeOK, Item
<1>2. thread[b] = "pop" /\ UNCHANGED <<setUpVars, countVars>>
  BY DEF Pop
<1>3. CASE ~checkMinFilled(b)
  <2>1. queue' = queue /\ thread' = [thread EXCEPT ![b] = "popWait"]
    BY <1>3 DEF Pop, To
  <2>2. NotStarted'
    BY <1>1, <1>2, <2>1, NotStartedKept DEF AccountInv
  <2>3. \A a \in Bufs : Handed(a)' = Handed(a)
    BY <1>1, <1>2, <2>1 DEF Handed
  <2>4. QED  BY <1>2, <2>1, <2>2, <2>3, AccountedKept DEF AccountInv
<1>4. CASE checkMinFilled(b)
  <2>1. /\ queue' = [queue EXCEPT ![b] = Tail(queue[b])]
        /\ thread' = [thread EXCEPT ![b] = "look"]
        /\ queue[b] # <<>>
    BY <1>4 DEF Pop, To, checkMinFilled
  <2>2. NotStarted'
    BY <1>1, <1>2, <2>1, NotStartedKept DEF AccountInv
  <2>3. /\ Handed(b) /\ ~Handed(b)'
        /\ \A a \in Bufs : a # b => Handed(a)' = Handed(a) /\ queue'[a] = queue[a]
        /\ queue'[b] = Tail(queue[b])
    BY <1>1, <1>2, <2>1 DEF Handed
  <2>4. \A i : /\ i \in DOMAIN queue'[b] <=> i \in Nat /\ i >= 1 /\ i + 1 \in DOMAIN queue[b]
               /\ i \in DOMAIN queue'[b] => queue'[b][i] = queue[b][i + 1]
    <3>1. /\ Tail(queue[b]) \in Seq(Item) /\ Len(Tail(queue[b])) = Len(queue[b]) - 1
          /\ \A i \in 1 .. Len(Tail(queue[b])) : Tail(queue[b])[i] = queue[b][i + 1]
      BY <1>1, <2>1, HeadTailProperties
    <3>2. /\ DOMAIN queue[b] = 1 .. Len(queue[b]) /\ Len(queue[b]) \in Nat
          /\ DOMAIN Tail(queue[b]) = 1 .. Len(Tail(queue[b]))
      BY <1>1, <3>1
    <3>3. QED  BY <2>3, <3>1, <3>2
  <2>5. \A i \in DOMAIN queue[b] : i \in Nat /\ i >= 1 /\ i <= IbufSize
    <3>1. Len(queue[b]) <= IbufSize
      BY DEF Inv, TypeOK
    <3>2. QED  BY <1>1, <3>1, Constants
  <2>6. ASSUME NEW d \in Chids
        PROVE  Pending(d)' = Pending(d)
    <3> DEFINE up(x) == IF x[1] = b THEN <<b, x[2] - 1>> ELSE x
               f == [x \in PendingSet(d) |-> up(x)]
    <3>1. \A x \in PendingSet(d) : /\ x \in Bufs \X (1 .. IbufSize)
                                   /\ x[1] = b => x[2] \in 2 .. IbufSize
      BY <2>3 DEF PendingSet, Waits
    <3>2. ASSUME NEW x \in PendingSet(d)
          PROVE  up(x) \in PendingSet(d)'
      <4>1. CASE x[1] # b
        BY <2>3, <3>1, <4>1 DEF PendingSet, Waits
      <4>2. CASE x[1] = b
        <5>1. x[2] \in DOMAIN queue[b] /\ queue[b][x[2]].chid = d
          BY <4>2 DEF PendingSet, Waits
        <5>2. x[2] - 1 \in 1 .. IbufSize /\ (x[2] - 1) + 1 = x[2]
          BY <3>1, <4>2, Constants
        <5>3. x[2] - 1 \in DOMAIN queue'[b] /\ queue'[b][x[2] - 1] = queue[b][x[2]]
          BY <2>4, <5>1, <5>2
        <5>4. Waits(d, b, x[2] - 1)'
          BY <2>3, <5>1, <5>3 DEF Waits
        <5>5. <<b, x[2] - 1>> \in PendingSet(d)'
          BY <5>2, <5>4 DEF PendingSet
        <5>6. QED  BY <4>2, <5>5
      <4>3. QED  BY <4>1, <4>2
    <3>3. \A x, y \in PendingSet(d) : up(x) = up(y) => x = y
      <4>1. \A x \in PendingSet(d) : x = <<x[1], x[2]>> /\ x[2] \in Nat
        BY <3>1, Constants
      <4>2. QED  BY <4>1
    <3>4. ASSUME NEW y \in PendingSet(d)'
          PROVE  \E x \in PendingSet(d) : up(x) = y
      <4>1. y \in Bufs \X (1 .. IbufSize) /\ Waits(d, y[1], y[2])'
        BY DEF PendingSet
      <4>2. CASE y[1] # b
        <5>1. y \in PendingSet(d)
          BY <2>3, <4>1, <4>2 DEF PendingSet, Waits
        <5>2. QED  BY <4>2, <5>1
      <4>3. CASE y[1] = b
        <5>1. y[2] \in DOMAIN queue'[b] /\ queue'[b][y[2]].chid = d
          BY <4>1, <4>3 DEF Waits
        <5>2. /\ y[2] + 1 \in DOMAIN queue[b] /\ queue[b][y[2] + 1].chid = d
              /\ y[2] \in Nat /\ y[2] >= 1
          BY <2>4, <5>1
        <5>3. Waits(d, b, y[2] + 1)
          BY <5>2 DEF Waits
        <5>4. y[2] + 1 \in 1 .. IbufSize
          BY <2>5, <5>2, Constants
        <5>5. <<b, y[2] + 1>> \in PendingSet(d)
          BY <5>3, <5>4 DEF PendingSet
        <5>6. up(<<b, y[2] + 1>>) = <<b, y[2]>>
          BY <5>2
        <5>7. y = <<b, y[2]>>
          BY <4>1, <4>3
        <5>8. QED  BY <5>5, <5>6, <5>7
      <4>4. QED  BY <4>2, <4>3
    <3>5. f \in [PendingSet(d) -> PendingSet(d)']
      BY <3>2
    <3>6. /\ \A x, y \in PendingSet(d) : f[x] = f[y] => x = y
          /\ \A y \in PendingSet(d)' : \E x \in PendingSet(d) : f[x] = y
      BY <3>3, <3>4
    <3> HIDE DEF f
    <3>7. Cardinality(PendingSet(d)') = Cardinality(PendingSet(d))
      BY <3>5, <3>6, PendingIs, SameSize
    <3>8. QED  BY <3>7, PendingIs, PendingNext
  <2>7. Accounted'
    BY <1>2, <2>6 DEF AccountInv, Accounted, countVars
  <2>8. QED  BY <2>2, <2>7 DEF AccountInv
<1>5. QED  BY <1>3, <1>4

LEMMA LookAccount ==
  ASSUME Inv, Inv', AccountInv, NEW b \in Bufs, Look(b) \/ WakeUp(b)
  PROVE  AccountInv'
<1>1. thread \in [Bufs -> {"none", "look", "wait", "work", "pop", "popWait"}]
  BY DEF Inv, TypeOK
<1>2. UNCHANGED <<setUpVars, queue, countVars>>
  BY DEF Look, WakeUp
<1>3. \A a \in Bufs : /\ Handed(a)' = Handed(a)
                      /\ thread[a] = "none" => thread'[a] = "none"
  BY <1>1 DEF Look, WakeUp, To, Handed
<1>4. QED  BY <1>2, <1>3, NotStartedKept, AccountedKept DEF AccountInv

LEMMA AccountSteps ==
  ASSUME Inv, TimeInv, AccountInv, [Next]_vars
  PROVE  AccountInv'
<1>1. Inv'
  BY NextInv
<1>2. ASSUME NEW c \in Chids, StoreNotify(c)
      PROVE  AccountInv'
  <2>1. BufOf(c) \in Bufs
    BY <1>2, Found DEF Inv, SetUpInv, OthersInv, StoreNotify
  <2>2. QED  BY <1>1, <1>2, <2>1, WakeAccount DEF StoreNotify
<1>3. CASE UNCHANGED vars
  BY <1>1, <1>3, NotStartedKept, AccountedKept DEF AccountInv, vars, flowVars, Handed
<1>4. QED
  BY <1>1, <1>2, <1>3, SetUpAccount, TimingAccount, StoreAccount, RefuseAccount, WorkAccount,
     PopAccount, LookAccount DEF Next, Source, ThreadStep

LEMMA InitAccount ==
  ASSUME Init
  PROVE  AccountInv
<1>1. Inv
  BY InitInv
<1>2. NotStarted
  BY DEF Init, NotStarted
<1>3. ASSUME NEW c \in Chids
      PROVE  stored[c] = dropped[c] + processed[c] + Pending(c)
  <2>1. PendingSet(c) = {}
    BY DEF Init, PendingSet, Waits
  <2>2. Pending(c) = 0
    BY <1>1, <2>1, PendingIs, FS_EmptySet
  <2>3. QED  BY <2>2 DEF Init
<1>4. QED  BY <1>2, <1>3 DEF AccountInv, Accounted

\* Whatever set-up, sources, timing callback and threads do at the same time:
\* an item that storeData was called with has been processed once, or is
\* still in its buffer, or was refused and counted (BsaCore::storeData,
\* BsaInpBuf, RingBufferSync::process).
THEOREM ItemsAccounted == Spec => []Accounted
<1>1. Init => Inv /\ TimeInv /\ ItemWakes /\ AccountInv
  BY InitInv, InitAccount
<1>2. Inv /\ TimeInv /\ ItemWakes /\ AccountInv /\ [Next]_vars
        => (Inv /\ TimeInv /\ ItemWakes /\ AccountInv)'
  BY NextInv, TimeSteps, WakeSteps, AccountSteps
<1>3. AccountInv => Accounted
  BY DEF AccountInv
<1>4. QED  BY <1>1, <1>2, <1>3, PTL DEF Spec
=============================================================================
