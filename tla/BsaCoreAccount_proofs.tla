----------------------- MODULE BsaCoreAccount_proofs -----------------------
(***************************************************************************)
(* Proofs about the account BsaCore's channels keep: in order, at least    *)
(* once, and, when timeouts are in time, exactly once.                     *)
(***************************************************************************)
EXTENDS BsaCore_proofs

(* The log of one edef's computation. *)

Below(s, k) == \A i \in 1 .. Len(s) : s[i].pat <= k
Has(s, n)   == \E i \in 1 .. Len(s) : s[i].pat = n
Ordered(s)  == \A i \in 2 .. Len(s) : s[i-1].pat <= s[i].pat
Strict(s)   == \A i, j \in 1 .. Len(s) : i < j => s[i].pat < s[j].pat

\* r is s with one more entry, of pattern n.
Logged(r, s, n) == \E item \in BOOLEAN : r = Append(s, [pat |-> n, item |-> item])

LEMMA LoggedFacts ==
  ASSUME NEW s \in Seq(Entry), NEW n \in Nat, NEW r, Logged(r, s, n)
  PROVE  /\ r \in Seq(Entry) /\ Len(r) = Len(s) + 1 /\ Len(s) \in Nat
         /\ r[Len(r)].pat = n
         /\ \A i \in 1 .. Len(s) : r[i] = s[i] /\ s[i].pat \in Nat
<1>1. PICK item \in BOOLEAN : r = Append(s, [pat |-> n, item |-> item])
  BY DEF Logged
<1>2. [pat |-> n, item |-> item] \in Entry
  BY DEF Entry
<1>3. /\ r \in Seq(Entry) /\ Len(r) = Len(s) + 1 /\ Len(s) \in Nat
      /\ r[Len(s) + 1] = [pat |-> n, item |-> item]
      /\ \A i \in 1 .. Len(s) : r[i] = s[i]
  BY <1>1, <1>2, AppendProperties, LenProperties
<1>4. \A i \in 1 .. Len(s) : s[i] \in Entry
  BY ElementOfSeq
<1>5. QED  BY <1>3, <1>4 DEF Entry

LEMMA LoggedBelow ==
  ASSUME NEW s \in Seq(Entry), NEW n \in Nat, NEW r, Logged(r, s, n),
         NEW k \in Int, n <= k, NEW j \in Int, j <= k, Below(s, j)
  PROVE  Below(r, k)
<1>1. ASSUME NEW i \in 1 .. Len(r)
      PROVE  r[i].pat <= k
  <2>1. i \in 1 .. Len(s) \/ i = Len(r)
    BY LoggedFacts
  <2>2. CASE i \in 1 .. Len(s)
    <3>1. r[i] = s[i] /\ s[i].pat \in Nat /\ s[i].pat <= j
      BY <2>2, LoggedFacts DEF Below
    <3>2. QED  BY <3>1
  <2>3. CASE i = Len(r)
    BY <2>3, LoggedFacts
  <2>4. QED  BY <2>1, <2>2, <2>3
<1>2. QED  BY <1>1 DEF Below

LEMMA BelowMonotone ==
  ASSUME NEW s \in Seq(Entry), NEW j \in Int, NEW k \in Int, j <= k, Below(s, j)
  PROVE  Below(s, k)
<1>1. \A i \in 1 .. Len(s) : s[i] \in Entry
  BY ElementOfSeq
<1>2. \A i \in 1 .. Len(s) : s[i].pat \in Nat
  BY <1>1 DEF Entry
<1>3. QED  BY <1>2 DEF Below

LEMMA LoggedHas ==
  ASSUME NEW s \in Seq(Entry), NEW n \in Nat, NEW r, Logged(r, s, n)
  PROVE  Has(r, n) /\ \A m : Has(s, m) => Has(r, m)
<1>1. /\ Len(r) = Len(s) + 1 /\ Len(s) \in Nat /\ r[Len(r)].pat = n
      /\ \A i \in 1 .. Len(s) : r[i] = s[i]
  BY LoggedFacts
<1>2. Len(r) \in 1 .. Len(r) /\ \A i \in 1 .. Len(s) : i \in 1 .. Len(r)
  BY <1>1
<1>3. QED  BY <1>1, <1>2 DEF Has

LEMMA LoggedOrdered ==
  ASSUME NEW s \in Seq(Entry), NEW n \in Nat, NEW r, Logged(r, s, n),
         Ordered(s), Below(s, n)
  PROVE  Ordered(r)
<1>1. ASSUME NEW i \in 2 .. Len(r)
      PROVE  r[i-1].pat <= r[i].pat
  <2>1. /\ i - 1 \in 1 .. Len(s)
        /\ i \in 2 .. Len(s) \/ i = Len(r)
    BY LoggedFacts
  <2>2. r[i-1] = s[i-1] /\ s[i-1].pat <= n
    BY <2>1, LoggedFacts DEF Below
  <2>3. CASE i \in 2 .. Len(s)
    <3>1. i \in 1 .. Len(s)
      BY <2>3
    <3>2. r[i] = s[i]
      BY <3>1, LoggedFacts
    <3>3. QED  BY <2>2, <2>3, <3>2 DEF Ordered
  <2>4. CASE i = Len(r)
    BY <2>2, <2>4, LoggedFacts
  <2>5. QED  BY <2>1, <2>3, <2>4
<1>2. QED  BY <1>1 DEF Ordered

LEMMA LoggedStrict ==
  ASSUME NEW s \in Seq(Entry), NEW n \in Nat, NEW r, Logged(r, s, n),
         Strict(s), NEW k \in Int, k < n, Below(s, k)
  PROVE  Strict(r)
<1>1. ASSUME NEW i \in 1 .. Len(r), NEW j \in 1 .. Len(r), i < j
      PROVE  r[i].pat < r[j].pat
  <2>1. i \in 1 .. Len(s) /\ (j \in 1 .. Len(s) \/ j = Len(r))
    BY <1>1, LoggedFacts
  <2>2. r[i] = s[i] /\ s[i].pat <= k /\ s[i].pat \in Nat
    BY <2>1, LoggedFacts DEF Below
  <2>3. CASE j \in 1 .. Len(s)
    <3>1. r[j] = s[j]
      BY <2>3, LoggedFacts
    <3>2. QED  BY <1>1, <2>1, <2>2, <2>3, <3>1 DEF Strict
  <2>4. CASE j = Len(r)
    BY <2>2, <2>4, LoggedFacts
  <2>5. QED  BY <2>1, <2>3, <2>4
<1>2. QED  BY <1>1 DEF Strict

-----------------------------------------------------------------------------
(* What an input thread's step means to one edef of one channel. *)

\* Thread t is catching up with the edef's patterns in processInput.
Working(t, c, e) == inp[t].pc = "iloop" /\ inp[t].ch = c /\ IsNext(e, inp[t].todo)
Busy(c, e) == \E t \in Threads : Working(t, c, e)

\* Nothing.
Same(c, e) ==
  /\ slot'[c][e] = slot[c][e] /\ acct'[c][e] = acct[c][e]
  /\ \A u \in Threads : Working(u, c, e)' <=> Working(u, c, e)
  /\ \A u \in Threads : Working(u, c, e) => inp'[u].prev = inp[u].prev

\* A timeout accounts for a pattern.
Flushed(t, c, e) ==
  /\ inp[t].pc = "tloop" /\ inp[t].ch = c /\ IsNext(e, inp[t].todo) /\ inp[t].prev # 0
  /\ ~Busy(c, e) /\ ~Busy(c, e)'
  /\ Logged(acct'[c][e], acct[c][e], inp[t].prev)
  /\ slot'[c][e] = inp[t].prev

\* An item finds the first pattern to catch up with, or none.
Started(t, c, e) ==
  /\ inp[t].pc = "iedef" /\ inp[t].ch = c /\ IsNext(e, inp[t].todo)
  /\ ~TimedOut(c, e, inp[t].ts)
  /\ ~Busy(c, e) /\ \A u \in Threads \ {t} : ~Working(u, c, e)'
  /\ acct'[c][e] = acct[c][e] /\ slot'[c][e] = inp[t].pat
  /\ \/ NextPending(c, e) = 0 /\ ~Working(t, c, e)'
     \/ /\ NextPending(c, e) # 0 /\ Working(t, c, e)'
        /\ inp'[t].prev = NextPending(c, e)

\* An item accounts for a pattern before its own.
Caught(t, c, e) ==
  /\ Working(t, c, e) /\ inp[t].prev # inp[t].pat
  /\ \A u \in Threads \ {t} : ~Working(u, c, e)'
  /\ Logged(acct'[c][e], acct[c][e], inp[t].prev)
  /\ slot'[c][e] = slot[c][e]
  /\ \/ patternGetNext(inp[t].prev, e) = 0 /\ ~Working(t, c, e)'
     \/ /\ patternGetNext(inp[t].prev, e) # 0 /\ Working(t, c, e)'
        /\ inp'[t].prev = patternGetNext(inp[t].prev, e)

\* An item is accounted for itself.
Stored(t, c, e) ==
  /\ Working(t, c, e) /\ inp[t].prev = inp[t].pat
  /\ ~Busy(c, e)'
  /\ Logged(acct'[c][e], acct[c][e], inp[t].pat)
  /\ slot'[c][e] = slot[c][e]

Accounts(t, c, e) ==
  Same(c, e) \/ Flushed(t, c, e) \/ Started(t, c, e) \/ Caught(t, c, e) \/ Stored(t, c, e)

\* Nobody else works on a channel that t has locked.
LEMMA OnlyOne ==
  ASSUME TypeInv, LockDiscipline, NEW t \in Threads, NEW u \in Threads \ {t},
         inp[t].pc \in {"tloop", "iedef", "iloop"}, NEW e
  PROVE  ~Working(u, inp[t].ch, e)
  BY DEF LockDiscipline, Working

LEMMA NobodyBusy ==
  ASSUME TypeInv, LockDiscipline, NEW c \in Channels, mtx[c] = Nobody, NEW e
  PROVE  ~Busy(c, e)
<1>1. \A t \in Threads : t # Nobody
  BY ThreadFacts DEF Nobody
<1>2. QED  BY <1>1 DEF LockDiscipline, Busy, Working

LEMMA InputThreads ==
  ASSUME TypeInv, NEW t \in Threads, InputStep(t)
  PROVE  \A u \in Threads \ {t} : inp'[u] = inp[u]
  BY DEF InputStep, TimeoutBegin, TimeoutLock, TimeoutFlush, TimeoutAdvance, ItemBegin,
         ItemLookup, ItemTimedOut, ItemEdef, ItemCatchUp, ItemStore, ItemDone, ItemPop,
         TypeInv, TypeOK

\* Steps that neither start, nor end, nor do any accounting.
LEMMA QuietSteps ==
  ASSUME TypeInv, NEW t \in Threads,
         \/ TimeoutBegin(t) \/ TimeoutLock(t) \/ TimeoutAdvance(t)
         \/ \E ch \in Channels, ts \in 1 .. MaxPulse : ItemBegin(t, ch, ts)
         \/ ItemLookup(t) \/ ItemTimedOut(t) \/ ItemDone(t) \/ ItemPop(t)
  PROVE  \A c \in Channels, e \in Edefs : Same(c, e)
<1>1. UNCHANGED <<slot, acct>> /\ inp[t].pc # "iloop" /\ InputStep(t)
  BY DEF TimeoutBegin, TimeoutLock, TimeoutAdvance, ItemBegin, ItemLookup, ItemTimedOut,
         ItemDone, ItemPop, chanVars, InputStep
<1>2. inp'[t].pc # "iloop"
  <2>1. CASE TimeoutBegin(t)
    BY <2>1, TimeoutBeginDoes DEF Becomes
  <2>2. CASE TimeoutLock(t)
    BY <2>2, TimeoutLockDoes DEF Becomes
  <2>3. CASE TimeoutAdvance(t)
    BY <2>3, TimeoutAdvanceDoes DEF Becomes, BecomesIdle
  <2>4. CASE \E ch \in Channels, ts \in 1 .. MaxPulse : ItemBegin(t, ch, ts)
    BY <2>4, ItemBeginDoes DEF Becomes
  <2>5. CASE ItemLookup(t)
    BY <2>5, ItemLookupDoes DEF Becomes, BecomesPopping
  <2>6. CASE ItemTimedOut(t)
    BY <2>6, ItemTimedOutDoes DEF Becomes
  <2>7. CASE ItemDone(t)
    BY <2>7, ItemDoneDoes DEF Becomes, BecomesPopping
  <2>8. CASE ItemPop(t)
    BY <2>8, ItemPopDoes DEF Becomes, BecomesIdle
  <2>9. QED  BY <2>1, <2>2, <2>3, <2>4, <2>5, <2>6, <2>7, <2>8
<1>3. \A u \in Threads \ {t} : inp'[u] = inp[u]
  BY <1>1, InputThreads
<1>4. ASSUME NEW c, NEW e, NEW u \in Threads
      PROVE  /\ Working(u, c, e)' <=> Working(u, c, e)
             /\ Working(u, c, e) => inp'[u].prev = inp[u].prev
  BY <1>1, <1>2, <1>3 DEF Working
<1>5. QED  BY <1>1, <1>4 DEF Same

\* The edef at hand is the only one of the channel that such a step concerns.
LEMMA OtherEdefs ==
  ASSUME CoreInv, NEW t \in Threads, NEW e \in Edefs, IsNext(e, inp[t].todo),
         NEW ch \in Channels, ch = inp[t].ch,
         InputStep(t), inp[t].pc \in {"tloop", "iedef", "iloop"},
         inp'[t].pc = "iloop" => inp'[t].ch = ch /\ inp'[t].todo = inp[t].todo,
         slot' = [slot EXCEPT ![ch] = slot'[ch]],
         acct' = [acct EXCEPT ![ch] = acct'[ch]],
         \A f \in Edefs \ {e} : slot'[ch][f] = slot[ch][f] /\ acct'[ch][f] = acct[ch][f]
  PROVE  \A c \in Channels, f \in Edefs : ~(c = ch /\ f = e) => Same(c, f)
<1>0. /\ TypeInv /\ inp[t].todo \subseteq Edefs
      /\ slot \in [Channels -> [Edefs -> Nat]]
      /\ acct \in [Channels -> [Edefs -> Seq(Entry)]]
  BY ThreadFacts DEF CoreInv, TypeInv, TypeOK
<1>1. \A u \in Threads \ {t} : inp'[u] = inp[u]
  BY <1>0, InputThreads
<1>2. ASSUME NEW c \in Channels, NEW f \in Edefs, ~(c = ch /\ f = e)
      PROVE  Same(c, f)
  <2>1. slot'[c][f] = slot[c][f] /\ acct'[c][f] = acct[c][f]
    BY <1>0, <1>2
  <2>2. ~Working(t, c, f)
    BY <1>0, <1>2, NextUnique DEF Working
  <2>3. ~Working(t, c, f)'
    BY <1>0, <1>2, NextUnique DEF Working
  <2>4. QED  BY <1>1, <2>1, <2>2, <2>3 DEF Same, Working
<1>3. QED  BY <1>2

LEMMA ProcessDoes ==
  ASSUME TypeInv, NEW c \in Channels, NEW e \in Edefs, NEW n \in Nat, NEW item \in BOOLEAN,
         process(c, e, n, item)
  PROVE  /\ Logged(acct'[c][e], acct[c][e], n)
         /\ \A f \in Edefs \ {e} : acct'[c][f] = acct[c][f]
         /\ acct' = [acct EXCEPT ![c] = acct'[c]]
<1>1. acct \in [Channels -> [Edefs -> Seq(Entry)]]
  BY DEF TypeInv, TypeOK, Entry
<1>2. acct'[c][e] = Append(acct[c][e], [pat |-> n, item |-> item])
  BY <1>1 DEF process
<1>3. QED  BY <1>1, <1>2 DEF process, Logged

LEMMA SlotSet ==
  ASSUME TypeInv, NEW c \in Channels, NEW e \in Edefs,
         \E n : slot' = [slot EXCEPT ![c][e] = n]
  PROVE  /\ \A f \in Edefs \ {e} : slot'[c][f] = slot[c][f]
         /\ slot' = [slot EXCEPT ![c] = slot'[c]]
<1>1. PICK n : slot' = [slot EXCEPT ![c][e] = n]
  OBVIOUS
<1>2. slot \in [Channels -> [Edefs -> Nat]]
  BY DEF TypeInv, TypeOK
<1>3. QED  BY <1>1, <1>2

LEMMA NothingSet ==
  ASSUME TypeInv, NEW c \in Channels
  PROVE  /\ UNCHANGED slot => slot' = [slot EXCEPT ![c] = slot'[c]]
         /\ UNCHANGED acct => acct' = [acct EXCEPT ![c] = acct'[c]]
  BY DEF TypeInv, TypeOK

LEMMA InputAccounts ==
  ASSUME CoreInv, NEW t \in Threads, InputStep(t)
  PROVE  \A c \in Channels, e \in Edefs : Accounts(t, c, e)
<1>a. PICK ch \in Channels : ch = inp[t].ch
  BY ThreadFacts DEF CoreInv
<1>0. /\ TypeInv /\ LockDiscipline /\ ThreadTracks(t) /\ Holds(t) /\ ch = inp[t].ch
      /\ inp[t].pat \in Nat /\ inp[t].prev \in Nat
      /\ \A u \in Threads \ {t} : inp'[u] = inp[u]
  BY <1>a, ThreadFacts, InputThreads DEF CoreInv, RefInv, Holdings, Tracks
<1>1. ASSUME inp[t].pc \in {"tloop", "iedef", "iloop"}, NEW e
      PROVE  \A u \in Threads \ {t} : ~Working(u, ch, e) /\ ~Working(u, ch, e)'
  <2>1. \A u \in Threads \ {t} : ~Working(u, ch, e)
    BY <1>0, <1>1, OnlyOne
  <2>2. mtx[ch] = t
    BY <1>0, <1>1 DEF LockDiscipline
  <2>3. ASSUME NEW u \in Threads \ {t}, inp'[u].pc = "iloop", inp'[u].ch = ch
        PROVE  FALSE
    <3>1. inp[u].pc = "iloop" /\ inp[u].ch = ch
      BY <1>0, <2>3
    <3>2. mtx[ch] = u
      BY <1>0, <3>1 DEF LockDiscipline
    <3>3. QED  BY <2>2, <3>2
  <2>5. ASSUME NEW u \in Threads \ {t}
        PROVE  inp'[u].ch # ch \/ inp'[u].pc # "iloop"
    BY <2>3
  <2>6. QED  BY <2>1, <2>5 DEF Working
<1>2. CASE \/ TimeoutBegin(t) \/ TimeoutLock(t) \/ TimeoutAdvance(t)
           \/ \E c \in Channels, ts \in 1 .. MaxPulse : ItemBegin(t, c, ts)
           \/ ItemLookup(t) \/ ItemTimedOut(t) \/ ItemDone(t) \/ ItemPop(t)
  BY <1>0, <1>2, QuietSteps DEF Accounts
<1>3. CASE TimeoutFlush(t)
  <2>1. PICK e \in Edefs :
          /\ inp[t].pc = "tloop" /\ IsNext(e, inp[t].todo) /\ inp[t].prev # 0
          /\ process(ch, e, inp[t].prev, FALSE)
          /\ slot' = [slot EXCEPT ![ch][e] = inp[t].prev]
          /\ inp'[t].pc = "tloop"
    BY <1>0, <1>3, TimeoutFlushDoes DEF Expired, Becomes
  <2>2. Flushed(t, ch, e)
    <3>1. ~Busy(ch, e) /\ ~Busy(ch, e)'
      BY <1>0, <1>1, <2>1 DEF Busy, Working
    <3>2. Logged(acct'[ch][e], acct[ch][e], inp[t].prev)
      BY <1>0, <2>1, ProcessDoes
    <3>3. slot'[ch][e] = inp[t].prev
      BY <1>0, <2>1 DEF TypeInv, TypeOK
    <3>4. QED  BY <1>0, <2>1, <3>1, <3>2, <3>3 DEF Flushed
  <2>3. \A c \in Channels, f \in Edefs : ~(c = ch /\ f = e) => Same(c, f)
    <3>1. acct' = [acct EXCEPT ![ch] = acct'[ch]] /\ \A f \in Edefs \ {e} : acct'[ch][f] = acct[ch][f]
      BY <1>0, <2>1, ProcessDoes
    <3>2. slot' = [slot EXCEPT ![ch] = slot'[ch]] /\ \A f \in Edefs \ {e} : slot'[ch][f] = slot[ch][f]
      <4>1. \E n : slot' = [slot EXCEPT ![ch][e] = n]
        BY <2>1
      <4>2. QED  BY <1>0, <4>1, SlotSet
    <3>3. /\ inp[t].pc \in {"tloop", "iedef", "iloop"} /\ inp'[t].pc # "iloop"
          /\ IsNext(e, inp[t].todo) /\ slot' = [slot EXCEPT ![ch] = slot'[ch]]
          /\ acct' = [acct EXCEPT ![ch] = acct'[ch]]
          /\ \A f \in Edefs \ {e} : slot'[ch][f] = slot[ch][f] /\ acct'[ch][f] = acct[ch][f]
      BY <2>1, <3>1, <3>2
    <3>4. QED  BY <1>0, <3>3, OtherEdefs
  <2>4. QED  BY <2>2, <2>3 DEF Accounts
<1>4. CASE ItemEdef(t)
  <2>1. PICK e \in Edefs :
          /\ inp[t].pc = "iedef" /\ IsNext(e, inp[t].todo) /\ ~TimedOut(ch, e, inp[t].ts)
          /\ UNCHANGED acct
          /\ slot' = [slot EXCEPT ![ch][e] = inp[t].pat]
          /\ \/ NextPending(ch, e) = 0 /\ BecomesPopping(t)
             \/ /\ NextPending(ch, e) # 0
                /\ Becomes(t, "iloop", ch, inp[t].ts, inp[t].todo, inp[t].pat,
                           NextPending(ch, e))
    BY <1>0, <1>4, ItemEdefDoes
  <2>2. Started(t, ch, e)
    <3>1. ~Busy(ch, e) /\ \A u \in Threads \ {t} : ~Working(u, ch, e)'
      BY <1>0, <1>1, <2>1 DEF Busy, Working
    <3>2. \/ NextPending(ch, e) = 0 /\ inp'[t].pc = "ipop"
          \/ /\ NextPending(ch, e) # 0 /\ inp'[t].pc = "iloop" /\ inp'[t].ch = ch
             /\ inp'[t].todo = inp[t].todo /\ inp'[t].prev = NextPending(ch, e)
      BY <2>1 DEF BecomesPopping, Becomes
    <3>3. \/ NextPending(ch, e) = 0 /\ ~Working(t, ch, e)'
          \/ /\ NextPending(ch, e) # 0 /\ Working(t, ch, e)'
             /\ inp'[t].prev = NextPending(ch, e)
      BY <1>0, <2>1, <3>2 DEF Working
    <3>4. slot'[ch][e] = inp[t].pat
      BY <1>0, <2>1 DEF TypeInv, TypeOK
    <3>5. QED  BY <1>0, <2>1, <3>1, <3>3, <3>4 DEF Started
  <2>3. \A c \in Channels, f \in Edefs : ~(c = ch /\ f = e) => Same(c, f)
    <3>1. /\ slot' = [slot EXCEPT ![ch] = slot'[ch]] /\ acct' = [acct EXCEPT ![ch] = acct'[ch]]
          /\ \A f \in Edefs \ {e} : slot'[ch][f] = slot[ch][f] /\ acct'[ch][f] = acct[ch][f]
      <4>1. \E n : slot' = [slot EXCEPT ![ch][e] = n]
        BY <2>1
      <4>2. acct' = [acct EXCEPT ![ch] = acct'[ch]]
        BY <1>0, <2>1, NothingSet
      <4>3. /\ slot' = [slot EXCEPT ![ch] = slot'[ch]]
            /\ \A f \in Edefs \ {e} : slot'[ch][f] = slot[ch][f]
        BY <1>0, <4>1, SlotSet
      <4>4. QED  BY <2>1, <4>2, <4>3
    <3>2. inp'[t].pc = "iloop" => inp'[t].ch = ch /\ inp'[t].todo = inp[t].todo
      BY <2>1 DEF BecomesPopping, Becomes
    <3>3. inp[t].pc \in {"tloop", "iedef", "iloop"} /\ IsNext(e, inp[t].todo)
      BY <2>1
    <3>4. QED  BY <1>0, <3>1, <3>2, <3>3, OtherEdefs
  <2>4. QED  BY <2>2, <2>3 DEF Accounts
<1>5. CASE ItemCatchUp(t)
  <2>1. PICK e \in Edefs :
          /\ inp[t].pc = "iloop" /\ IsNext(e, inp[t].todo) /\ inp[t].prev # inp[t].pat
          /\ UNCHANGED slot
          /\ process(ch, e, inp[t].prev, FALSE)
          /\ \/ patternGetNext(inp[t].prev, e) = 0 /\ BecomesPopping(t)
             \/ /\ patternGetNext(inp[t].prev, e) # 0
                /\ Becomes(t, "iloop", ch, inp[t].ts, inp[t].todo, inp[t].pat,
                           patternGetNext(inp[t].prev, e))
    BY <1>0, <1>5, ItemCatchUpDoes
  <2>2. Caught(t, ch, e)
    <3>1. Working(t, ch, e) /\ \A u \in Threads \ {t} : ~Working(u, ch, e)'
      BY <1>0, <1>1, <2>1 DEF Working
    <3>2. \/ patternGetNext(inp[t].prev, e) = 0 /\ inp'[t].pc = "ipop"
          \/ /\ patternGetNext(inp[t].prev, e) # 0 /\ inp'[t].pc = "iloop" /\ inp'[t].ch = ch
             /\ inp'[t].todo = inp[t].todo /\ inp'[t].prev = patternGetNext(inp[t].prev, e)
      BY <2>1 DEF BecomesPopping, Becomes
    <3>3. \/ patternGetNext(inp[t].prev, e) = 0 /\ ~Working(t, ch, e)'
          \/ /\ patternGetNext(inp[t].prev, e) # 0 /\ Working(t, ch, e)'
             /\ inp'[t].prev = patternGetNext(inp[t].prev, e)
      BY <1>0, <2>1, <3>2 DEF Working
    <3>4. Logged(acct'[ch][e], acct[ch][e], inp[t].prev)
      BY <1>0, <2>1, ProcessDoes
    <3>5. QED  BY <1>0, <2>1, <3>1, <3>3, <3>4 DEF Caught
  <2>3. \A c \in Channels, f \in Edefs : ~(c = ch /\ f = e) => Same(c, f)
    <3>1. /\ slot' = [slot EXCEPT ![ch] = slot'[ch]] /\ acct' = [acct EXCEPT ![ch] = acct'[ch]]
          /\ \A f \in Edefs \ {e} : slot'[ch][f] = slot[ch][f] /\ acct'[ch][f] = acct[ch][f]
      <4>1. slot' = [slot EXCEPT ![ch] = slot'[ch]]
        BY <1>0, <2>1, NothingSet
      <4>2. /\ acct' = [acct EXCEPT ![ch] = acct'[ch]]
            /\ \A f \in Edefs \ {e} : acct'[ch][f] = acct[ch][f]
        BY <1>0, <2>1, ProcessDoes
      <4>3. QED  BY <2>1, <4>1, <4>2
    <3>2. inp'[t].pc = "iloop" => inp'[t].ch = ch /\ inp'[t].todo = inp[t].todo
      BY <2>1 DEF BecomesPopping, Becomes
    <3>3. QED  BY <1>0, <2>1, <3>1, <3>2, OtherEdefs
  <2>4. QED  BY <2>2, <2>3 DEF Accounts
<1>6. CASE ItemStore(t)
  <2>1. PICK e \in Edefs :
          /\ inp[t].pc = "iloop" /\ IsNext(e, inp[t].todo) /\ inp[t].prev = inp[t].pat
          /\ UNCHANGED slot
          /\ process(ch, e, inp[t].pat, TRUE)
          /\ inp'[t].pc = "iedef"
    BY <1>0, <1>6, ItemStoreDoes DEF Becomes
  <2>2. Stored(t, ch, e)
    <3>1. Working(t, ch, e) /\ ~Busy(ch, e)'
      BY <1>0, <1>1, <2>1 DEF Busy, Working
    <3>2. Logged(acct'[ch][e], acct[ch][e], inp[t].pat)
      BY <1>0, <2>1, ProcessDoes
    <3>3. QED  BY <1>0, <2>1, <3>1, <3>2 DEF Stored
  <2>3. \A c \in Channels, f \in Edefs : ~(c = ch /\ f = e) => Same(c, f)
    <3>1. /\ slot' = [slot EXCEPT ![ch] = slot'[ch]] /\ acct' = [acct EXCEPT ![ch] = acct'[ch]]
          /\ \A f \in Edefs \ {e} : slot'[ch][f] = slot[ch][f] /\ acct'[ch][f] = acct[ch][f]
      <4>1. slot' = [slot EXCEPT ![ch] = slot'[ch]]
        BY <1>0, <2>1, NothingSet
      <4>2. /\ acct' = [acct EXCEPT ![ch] = acct'[ch]]
            /\ \A f \in Edefs \ {e} : acct'[ch][f] = acct[ch][f]
        BY <1>0, <2>1, ProcessDoes
      <4>3. QED  BY <2>1, <4>1, <4>2
    <3>2. QED  BY <1>0, <2>1, <3>1, OtherEdefs
  <2>4. QED  BY <2>2, <2>3 DEF Accounts
<1>7. QED  BY <1>2, <1>3, <1>4, <1>5, <1>6 DEF InputStep

\* Where the patterns of an accounting step lie.
LEMMA StepNumbers ==
  ASSUME CoreInv, NEW t \in Threads, NEW c \in Channels, NEW e \in Edefs
  PROVE  /\ Flushed(t, c, e) => /\ inp[t].prev \in Window /\ inp[t].prev > slot[c][e]
                                /\ e \in Involved(inp[t].prev)
         /\ Started(t, c, e) => /\ inp[t].pat \in Window /\ inp[t].pat > slot[c][e]
                                /\ e \in Involved(inp[t].pat)
         /\ Working(t, c, e) => /\ inp[t].pat \in Window /\ inp[t].prev \in Window
                                /\ inp[t].prev <= inp[t].pat /\ slot[c][e] = inp[t].pat
                                /\ e \in Involved(inp[t].pat) /\ e \in Involved(inp[t].prev)
<1>0. ThreadTracks(t) /\ Holds(t) /\ NoDangling
  BY DEF CoreInv, RefInv, Holdings, Tracks
<1>1. inp[t].pat \in Window \cup {0} /\ inp[t].prev \in Window \cup {0}
  BY <1>0 DEF NoDangling
<1>2. ASSUME Flushed(t, c, e)
      PROVE  /\ inp[t].prev \in Window /\ inp[t].prev > slot[c][e]
             /\ e \in Involved(inp[t].prev)
  BY <1>0, <1>1, <1>2 DEF Flushed, ThreadTracks, NextTracks
<1>3. ASSUME Started(t, c, e)
      PROVE  /\ inp[t].pat \in Window /\ inp[t].pat > slot[c][e]
             /\ e \in Involved(inp[t].pat)
  BY <1>3, ItemIsLater DEF Started
<1>4. ASSUME Working(t, c, e)
      PROVE  /\ inp[t].pat \in Window /\ inp[t].prev \in Window
             /\ inp[t].prev <= inp[t].pat /\ slot[c][e] = inp[t].pat
             /\ e \in Involved(inp[t].pat) /\ e \in Involved(inp[t].prev)
  <2>1. /\ inp[t].pc = "iloop" /\ inp[t].ch = c /\ IsNext(e, inp[t].todo)
    BY <1>4 DEF Working
  <2>2. inp[t].prev <= inp[t].pat /\ slot[c][e] = inp[t].pat /\ e \in Involved(inp[t].prev)
    BY <1>0, <2>1 DEF ThreadTracks, NextTracks
  <2>3. e \in Involved(inp[t].pat)
    BY <1>0, <2>1 DEF ThreadTracks, ItemTracks, IsNext, Involved
  <2>4. QED  BY <1>0, <1>1, <2>1, <2>2, <2>3 DEF Holds
<1>5. QED  BY <1>2, <1>3, <1>4

\* What the core thread's eviction means to one edef of one channel.
Evicted(c, e) ==
  /\ ~Busy(c, e)
  /\ \/ /\ slot[c][e] = Front /\ slot'[c][e] = 0 /\ acct'[c][e] = acct[c][e]
     \/ /\ slot[c][e] = 0 /\ slot'[c][e] = 0
        /\ Logged(acct'[c][e], acct[c][e], Front)
     \/ /\ slot'[c][e] = slot[c][e] /\ acct'[c][e] = acct[c][e]
        /\ e \in Involved(Front) => slot[c][e] \notin {0, Front}

\* Evict's loop gets to every edef of the pattern.
LEMMA ScansInvolved ==
  ASSUME NEW e \in Edefs, e \in Involved(Front)
  PROVE  e \in Scanned
<1>1. e <= e
  BY EdefsFinite
<1>2. QED  BY <1>1 DEF Scanned

LEMMA EvictAccounts ==
  ASSUME TypeInv, LockDiscipline, Evict
  PROVE  /\ \A e \in Edefs : Evicted(core.ch, e)
         /\ \A c \in Channels \ {core.ch} : slot'[c] = slot[c] /\ acct'[c] = acct[c]
<1>0. /\ slot \in [Channels -> [Edefs -> Nat]] /\ core.ch \in Channels
      /\ acct \in [Channels -> [Edefs -> Seq(Entry)]]
  BY TypeFacts DEF TypeInv, TypeOK, Entry
<1>1. PICK c \in Channels :
        /\ c = core.ch /\ mtx[c] = Nobody
        /\ slot' = [slot EXCEPT ![c] =
             [f \in Edefs |-> IF f \in Expiring(c) THEN 0 ELSE slot[c][f]]]
        /\ acct' = [acct EXCEPT ![c] =
             [f \in Edefs |-> IF f \in Unattended(c)
                THEN Append(acct[c][f], [pat |-> Front, item |-> FALSE])
                ELSE acct[c][f]]]
  BY <1>0 DEF Evict
<1>2. ASSUME NEW e \in Edefs
      PROVE  Evicted(c, e)
  <2>1. ~Busy(c, e)
    BY <1>1, NobodyBusy
  <2>2. slot'[c][e] = IF e \in Expiring(c) THEN 0 ELSE slot[c][e]
    BY <1>0, <1>1
  <2>3. acct'[c][e] = IF e \in Unattended(c)
                        THEN Append(acct[c][e], [pat |-> Front, item |-> FALSE])
                        ELSE acct[c][e]
    BY <1>0, <1>1
  <2>4. Front # 0
    BY TypeFacts DEF TypeInv, Front
  <2>5. CASE e \in Unattended(c)
    BY <2>1, <2>2, <2>3, <2>4, <2>5 DEF Unattended, Expiring, Evicted, Logged
  <2>6. CASE e \in Expiring(c)
    BY <2>1, <2>2, <2>3, <2>4, <2>6 DEF Unattended, Expiring, Evicted
  <2>7. CASE e \notin Unattended(c) /\ e \notin Expiring(c)
    <3>1. e \in Involved(Front) => e \in Scanned
      BY ScansInvolved
    <3>2. QED  BY <2>1, <2>2, <2>3, <2>7, <3>1 DEF Unattended, Expiring, Evicted
  <2>8. QED  BY <2>5, <2>6, <2>7
<1>3. QED  BY <1>0, <1>1, <1>2

-----------------------------------------------------------------------------
(* In order. *)

\* Nothing beyond the slot's pattern has been accounted for, beyond the
\* front for want of one, nor, while catching up, beyond the pattern at hand.
OrderAt(c, e) ==
  /\ Ordered(acct[c][e])
  /\ ~Busy(c, e) => Below(acct[c][e], IF slot[c][e] = 0 THEN head + 1 ELSE slot[c][e])
  /\ \A t \in Threads : Working(t, c, e) => Below(acct[c][e], inp[t].prev)

LEMMA InputOrder ==
  ASSUME CoreInv, NEW t \in Threads, InputStep(t), NEW c \in Channels, NEW e \in Edefs,
         OrderAt(c, e)
  PROVE  OrderAt(c, e)'
<1> DEFINE s == acct[c][e]   k == slot[c][e]   n == inp[t].prev   p == inp[t].pat
<1>0. /\ TypeInv /\ s \in Seq(Entry) /\ k \in Nat /\ n \in Nat /\ p \in Nat /\ head \in Nat
      /\ \A m \in Window : m \in Nat /\ m >= head + 1
      /\ UNCHANGED head
  <2>1. TypeInv
    BY DEF CoreInv
  <2>2. UNCHANGED head
    BY DEF InputStep, TimeoutBegin, TimeoutLock, TimeoutFlush, TimeoutAdvance, ItemBegin,
           ItemLookup, ItemTimedOut, ItemEdef, ItemCatchUp, ItemStore, ItemDone, ItemPop,
           windowVars
  <2>3. \A m \in Window : m \in Nat /\ m >= head + 1
    BY <2>1, TypeFacts DEF TypeInv, Window
  <2>4. QED  BY <2>1, <2>2, <2>3, TypeFacts, ThreadFacts DEF TypeInv
<1>1. Accounts(t, c, e)
  BY InputAccounts
<1>2. Ordered(s) /\ (Busy(c, e) \/ Below(s, IF k = 0 THEN head + 1 ELSE k))
  BY DEF OrderAt
<1>3. CASE Same(c, e)
  BY <1>0, <1>3 DEF Same, OrderAt, Busy
<1>4. CASE Flushed(t, c, e)
  <2>1. n \in Window /\ n > k
    BY <1>4, StepNumbers
  <2>2. Below(s, n) /\ n # 0
    <3>1. ~Busy(c, e)
      BY <1>4 DEF Flushed
    <3>2. n >= (IF k = 0 THEN head + 1 ELSE k) /\ n # 0
      BY <1>0, <2>1
    <3>3. QED  BY <1>0, <1>2, <3>1, <3>2, BelowMonotone
  <2>3. Logged(acct'[c][e], s, n) /\ slot'[c][e] = n /\ ~Busy(c, e)'
    BY <1>4 DEF Flushed
  <2>4. Ordered(acct'[c][e]) /\ Below(acct'[c][e], n)
    BY <1>0, <1>2, <2>2, <2>3, LoggedOrdered, LoggedBelow
  <2>5. QED  BY <2>2, <2>3, <2>4 DEF OrderAt, Busy
<1>5. CASE Started(t, c, e)
  <2>1. p \in Window /\ p > k /\ ~Busy(c, e)
    BY <1>5, StepNumbers DEF Started
  <2>2. Below(s, p) /\ p # 0
    BY <1>0, <1>2, <2>1, BelowMonotone
  <2>3. /\ acct'[c][e] = s /\ slot'[c][e] = p /\ \A u \in Threads \ {t} : ~Working(u, c, e)'
        /\ \/ ~Working(t, c, e)'
           \/ NextPending(c, e) # 0 /\ inp'[t].prev = NextPending(c, e)
    BY <1>5 DEF Started
  <2>4. NextPending(c, e) # 0 => Below(s, NextPending(c, e))
    <3>1. SUFFICES ASSUME NextPending(c, e) # 0
                   PROVE  Below(s, NextPending(c, e))
      OBVIOUS
    <3>2. NextPending(c, e) \in Window /\ NextPending(c, e) > k
      BY <1>0, <3>1, PendingFacts DEF IsFirstAfter
    <3>3. NextPending(c, e) \in Nat /\ (IF k = 0 THEN head + 1 ELSE k) <= NextPending(c, e)
      BY <1>0, <3>2
    <3>4. Below(s, IF k = 0 THEN head + 1 ELSE k) /\ (IF k = 0 THEN head + 1 ELSE k) \in Nat
      BY <1>0, <1>2, <2>1
    <3> HIDE DEF s, k
    <3>5. QED  BY <1>0, <3>3, <3>4, BelowMonotone
  <2>5. QED  BY <1>2, <2>2, <2>3, <2>4 DEF OrderAt
<1>6. CASE Caught(t, c, e)
  <2>1. n \in Window /\ n <= p /\ k = p /\ p \in Window
    BY <1>6, StepNumbers DEF Caught
  <2>2. /\ Logged(acct'[c][e], s, n) /\ slot'[c][e] = k
        /\ \A u \in Threads \ {t} : ~Working(u, c, e)'
        /\ \/ ~Working(t, c, e)'
           \/ patternGetNext(n, e) # 0 /\ inp'[t].prev = patternGetNext(n, e)
    BY <1>6 DEF Caught
  <2>3. Below(s, n)
    BY <1>6 DEF Caught, OrderAt
  <2>4. Ordered(acct'[c][e]) /\ Below(acct'[c][e], p) /\ p # 0
    BY <1>0, <1>2, <2>1, <2>2, <2>3, LoggedOrdered, LoggedBelow
  <2>5. patternGetNext(n, e) # 0 => Below(acct'[c][e], patternGetNext(n, e))
    <3>1. SUFFICES ASSUME patternGetNext(n, e) # 0
                   PROVE  Below(acct'[c][e], patternGetNext(n, e))
      OBVIOUS
    <3>2. patternGetNext(n, e) \in Window /\ patternGetNext(n, e) > n
      BY <1>0, <3>1, NextFacts DEF IsFirstAfter
    <3>3. patternGetNext(n, e) \in Nat /\ n <= patternGetNext(n, e)
      BY <1>0, <3>2
    <3> HIDE DEF s, k
    <3>4. QED  BY <1>0, <2>2, <2>3, <3>3, LoggedBelow
  <2>6. QED  BY <2>1, <2>2, <2>4, <2>5 DEF OrderAt
<1>7. CASE Stored(t, c, e)
  <2>1. n = p /\ k = p /\ p \in Window
    BY <1>7, StepNumbers DEF Stored
  <2>2. Logged(acct'[c][e], s, p) /\ slot'[c][e] = k /\ ~Busy(c, e)'
    BY <1>7 DEF Stored
  <2>3. Below(s, p)
    BY <1>7, <2>1 DEF Stored, OrderAt
  <2>4. Ordered(acct'[c][e]) /\ Below(acct'[c][e], p) /\ p # 0
    BY <1>0, <1>2, <2>1, <2>2, <2>3, LoggedOrdered, LoggedBelow
  <2>5. QED  BY <2>1, <2>2, <2>4 DEF OrderAt, Busy
<1>8. QED  BY <1>1, <1>3, <1>4, <1>5, <1>6, <1>7 DEF Accounts

LEMMA OtherOrder ==
  ASSUME CoreInv, OtherStep, NEW c \in Channels, NEW e \in Edefs, OrderAt(c, e)
  PROVE  OrderAt(c, e)'
<1> DEFINE s == acct[c][e]   k == slot[c][e]
<1>0. /\ TypeInv /\ LockDiscipline /\ s \in Seq(Entry) /\ k \in Nat /\ head \in Nat
      /\ Front = head + 1 /\ UNCHANGED inp
  BY TypeFacts, OthersLeaveInput DEF CoreInv, TypeInv, OtherStep, Front
<1>1. head' = head \/ head' = head + 1
  BY <1>0 DEF OtherStep, vars, PushTimingData, UpdatePatternTimeStamp, RetireBegin,
         Evict, RetireCheck, RetirePop, windowVars, push_back, pop
<1>2. Ordered(s) /\ (Busy(c, e) \/ Below(s, IF k = 0 THEN head + 1 ELSE k))
  BY DEF OrderAt
<1>3. \A t \in Threads : /\ Working(t, c, e)' <=> Working(t, c, e)
                         /\ inp'[t].prev = inp[t].prev
  BY <1>0 DEF Working
<1>4. CASE slot'[c][e] = k /\ acct'[c][e] = s
  <2>1. Below(s, head + 1) => Below(s, head' + 1)
    BY <1>0, <1>1, BelowMonotone
  <2>2. QED  BY <1>2, <1>3, <1>4, <2>1 DEF OrderAt, Busy
<1>5. CASE Evict /\ Evicted(c, e)
  <2>1. ~Busy(c, e) /\ ~Busy(c, e)' /\ head' = head
    BY <1>3, <1>5 DEF Evicted, Evict, Busy
  <2>2. CASE k = Front /\ slot'[c][e] = 0 /\ acct'[c][e] = s
    <3>1. Below(s, head' + 1)
      BY <1>0, <1>2, <2>1, <2>2
    <3>2. QED  BY <1>2, <2>1, <2>2, <3>1 DEF OrderAt, Busy
  <2>3. CASE k = 0 /\ slot'[c][e] = 0 /\ Logged(acct'[c][e], s, Front)
    <3>1. Below(s, Front) /\ Front \in Nat
      BY <1>0, <1>2, <2>1, <2>3
    <3>2. Ordered(acct'[c][e]) /\ Below(acct'[c][e], Front)
      BY <1>0, <1>2, <2>3, <3>1, LoggedOrdered, LoggedBelow
    <3>3. QED  BY <1>0, <2>1, <2>3, <3>2 DEF OrderAt, Busy
  <2>4. QED  BY <1>4, <1>5, <2>2, <2>3 DEF Evicted
<1>6. (slot'[c] = slot[c] /\ acct'[c] = acct[c]) \/ (Evict /\ c = core.ch)
  <2>1. SUFFICES ASSUME ~(slot'[c] = slot[c] /\ acct'[c] = acct[c])
                 PROVE  Evict /\ c = core.ch
    OBVIOUS
  <2>2. slot'[c] # slot[c] \/ acct'[c] # acct[c]
    BY <2>1
  <2>3. QED  BY <1>0, <2>2, CoreChannel
<1>7. QED  BY <1>0, <1>4, <1>5, <1>6, EvictAccounts

OrderInv == \A c \in Channels, e \in Edefs : OrderAt(c, e)

\* A channel accounts for the patterns of an edef in the order of their
\* pulses, in whatever order its data items, its timeouts and the core
\* thread get hold of it.
THEOREM AccountInOrder == Spec => []InOrder
<1>1. Init => OrderInv
  BY DEF Init, OrderInv, OrderAt, Ordered, Below, Working, Idle
<1>2. CoreInv /\ OrderInv /\ [Next]_vars => OrderInv'
  BY NextSteps, InputOrder, OtherOrder DEF OrderInv, OtherStep
<1>3. OrderInv => InOrder
  BY DEF OrderInv, OrderAt, Ordered, InOrder
<1>4. QED  BY <1>1, <1>2, <1>3, CoreHolds, PTL DEF Spec

-----------------------------------------------------------------------------
(* At least once. *)

\* Every pattern of the edef up to k has been accounted for.
Done(c, e, k) == \A n \in 1 .. k : e \in Involved(n) => Has(acct[c][e], n)

LEMMA DoneLess ==
  ASSUME NEW c, NEW e, NEW j \in Int, NEW k \in Int, k <= j, Done(c, e, j)
  PROVE  Done(c, e, k)
  BY DEF Done

LEMMA DoneOneMore ==
  ASSUME NEW c, NEW e, NEW k \in Int, Done(c, e, k - 1), Has(acct[c][e], k)
  PROVE  Done(c, e, k)
<1>1. \A n \in 1 .. k : n \in 1 .. k - 1 \/ n = k
  OBVIOUS
<1>2. QED  BY <1>1 DEF Done

\* No pattern is missing before the one a lookup returns.
LEMMA DoneBefore ==
  ASSUME TypeInv, NEW c, NEW e, NEW k \in Int, NEW n,
         Done(c, e, head), Done(c, e, k), IsFirstAfter(n, e, k)
  PROVE  Done(c, e, n - 1)
<1>1. head \in Nat /\ Len(pats) \in Nat /\ n \in head + 1 .. Len(pats)
  BY TypeFacts DEF TypeInv, IsFirstAfter, Window
<1>2. ASSUME NEW m \in 1 .. n - 1, e \in Involved(m)
      PROVE  Has(acct[c][e], m)
  <2>1. CASE m <= head
    <3>1. m \in 1 .. head
      BY <1>1, <2>1
    <3>2. QED  BY <1>2, <3>1 DEF Done
  <2>2. CASE m > head
    <3>1. m \in Window /\ ~(n <= m)
      BY <1>1, <2>2 DEF Window
    <3>2. ~(m > k)
      BY <1>2, <3>1 DEF IsFirstAfter
    <3>3. m \in 1 .. k
      BY <1>1, <3>2
    <3>4. QED  BY <1>2, <3>3 DEF Done
  <2>3. QED  BY <1>1, <2>1, <2>2
<1>3. QED  BY <1>2 DEF Done

\* What is accounted for stays so.
LEMMA LogGrows ==
  ASSUME CoreInv, [Next]_vars, NEW c \in Channels, NEW e \in Edefs
  PROVE  \A n : Has(acct[c][e], n) => Has(acct'[c][e], n)
<1>0. /\ TypeInv /\ LockDiscipline /\ acct[c][e] \in Seq(Entry) /\ Front \in Nat
      /\ \A t \in Threads : inp[t].prev \in Nat /\ inp[t].pat \in Nat
  BY TypeFacts, ThreadFacts DEF CoreInv, TypeInv, Front
<1>1. CASE acct'[c][e] = acct[c][e]
  BY <1>1
<1>2. CASE \E n \in Nat : Logged(acct'[c][e], acct[c][e], n)
  BY <1>0, <1>2, LoggedHas
<1>3. CASE OtherStep
  <2>1. acct'[c] = acct[c] \/ (Evict /\ c = core.ch)
    BY <1>0, <1>3, CoreChannel
  <2>2. Evict /\ c = core.ch => Evicted(c, e)
    BY <1>0, EvictAccounts
  <2>3. QED  BY <1>0, <1>1, <1>2, <2>1, <2>2 DEF Evicted
<1>4. ASSUME NEW t \in Threads, InputStep(t)
      PROVE  acct'[c][e] = acct[c][e] \/ \E n \in Nat : Logged(acct'[c][e], acct[c][e], n)
  <2>1. Accounts(t, c, e)
    BY <1>4, InputAccounts
  <2>2. QED  BY <1>0, <2>1 DEF Accounts, Same, Flushed, Started, Caught, Stored
<1>5. QED  BY <1>1, <1>2, <1>3, <1>4, NextSteps DEF OtherStep

LEMMA DoneKept ==
  ASSUME CoreInv, [Next]_vars, NEW c \in Channels, NEW e \in Edefs,
         NEW k \in Int, k <= Len(pats), Done(c, e, k)
  PROVE  Done(c, e, k)'
<1>1. TypeInv /\ Len(pats) \in Nat
  BY TypeFacts DEF CoreInv, TypeInv
<1>2. ASSUME NEW n \in 1 .. k, e \in Involved(n)'
      PROVE  Has(acct'[c][e], n)
  <2>1. n \in 1 .. Len(pats)
    BY <1>1
  <2>2. Involved(n)' = Involved(n)
    BY <1>1, <2>1, PatsKept
  <2>3. Has(acct[c][e], n)
    BY <1>2, <2>2 DEF Done
  <2>4. QED  BY <2>3, LogGrows
<1>3. QED  BY <1>2 DEF Done

\* Thread t has looked the edef's next pattern up.
Reached(t, c, e) ==
  /\ inp[t].ch = c /\ IsNext(e, inp[t].todo)
  /\ inp[t].pc = "iloop" \/ (inp[t].pc = "tloop" /\ inp[t].prev # 0)

\* How a thread gets to its next pattern.
LEMMA ReachedFrom ==
  ASSUME CoreInv, NEW t \in Threads, InputStep(t),
         NEW u \in Threads, NEW c \in Channels, NEW e \in Edefs, Reached(u, c, e)'
  PROVE  \/ Reached(u, c, e) /\ inp'[u].prev = inp[u].prev
         \/ u = t /\ Working(t, c, e)'
         \/ /\ u = t /\ Reached(t, c, e) /\ slot'[c][e] = inp[t].prev
            /\ Has(acct'[c][e], inp[t].prev)
            /\ inp'[t].prev = patternGetNext(inp[t].prev, e) /\ inp'[t].prev # 0
         \/ /\ u = t /\ ~Busy(c, e)
            /\ inp'[t].prev = NextPending(c, e) /\ inp'[t].prev # 0
<1>a. PICK ch \in Channels : ch = inp[t].ch
  BY ThreadFacts DEF CoreInv
<1>0. /\ TypeInv /\ LockDiscipline /\ ch = inp[t].ch /\ inp[t].todo \subseteq Edefs
      /\ inp[t].prev \in Nat /\ acct[ch][e] \in Seq(Entry)
      /\ slot \in [Channels -> [Edefs -> Nat]]
      /\ \A v \in Threads \ {t} : inp'[v] = inp[v]
  BY <1>a, ThreadFacts, TypeFacts, InputThreads DEF CoreInv, TypeInv, TypeOK
<1>1. CASE u # t
  BY <1>0, <1>1 DEF Reached
<1>2. CASE inp'[t].pc = "iloop" /\ u = t
  BY <1>2 DEF Reached, Working
<1>3. CASE inp'[t].pc = "tloop" /\ u = t
  <2>0. c = inp'[t].ch /\ IsNext(e, inp'[t].todo) /\ inp'[t].prev # 0
    BY <1>3 DEF Reached
  <2>1. TimeoutLock(t) \/ TimeoutFlush(t) \/ TimeoutAdvance(t)
    <3>1. inp'[t].pc # "tloop" \/ (TimeoutLock(t) \/ TimeoutFlush(t) \/ TimeoutAdvance(t))
      BY <1>0, TimeoutBeginDoes, ItemBeginDoes, ItemLookupDoes, ItemTimedOutDoes, ItemEdefDoes,
         ItemCatchUpDoes, ItemStoreDoes, ItemDoneDoes, ItemPopDoes
      DEF InputStep, Becomes, BecomesIdle, BecomesPopping
    <3>2. QED  BY <1>3, <3>1
  <2>2. CASE TimeoutLock(t)
    <3>1. PICK f \in Edefs : /\ mtx[ch] = Nobody /\ IsNext(f, Edefs)
                             /\ inp'[t].ch = ch /\ inp'[t].todo = Edefs
                             /\ inp'[t].prev = NextPending(ch, f)
      BY <1>0, <2>2, TimeoutLockDoes DEF Becomes
    <3>2. e = f /\ c = ch
      BY <2>0, <3>1, NextUnique
    <3>3. ~Busy(ch, e)
      BY <1>0, <3>1, NobodyBusy
    <3>4. QED  BY <1>3, <2>0, <3>1, <3>2, <3>3
  <2>3. CASE TimeoutAdvance(t)
    <3>1. PICK f \in Edefs, S \in SUBSET Edefs :
            /\ inp[t].pc = "tloop" /\ IsNext(f, S)
            /\ inp'[t].ch = ch /\ inp'[t].todo = S
            /\ inp'[t].prev = NextPending(ch, f)
      <4>1. PICK f, g : /\ f \in Edefs /\ inp[t].pc = "tloop" /\ IsNext(f, inp[t].todo \ {g})
                        /\ Becomes(t, "tloop", ch, inp[t].ts, inp[t].todo \ {g}, inp[t].pat,
                                   NextPending(ch, f))
        BY <1>0, <1>3, <2>3, TimeoutAdvanceDoes DEF Becomes, BecomesIdle
      <4>2. inp[t].todo \ {g} \in SUBSET Edefs
        BY <1>0
      <4>3. QED  BY <4>1, <4>2 DEF Becomes
    <3>2. e = f /\ c = ch
      BY <2>0, <3>1, NextUnique
    <3>3. ~Busy(ch, e)
      BY <1>0, <3>1, OnlyOne DEF Busy, Working
    <3>4. QED  BY <1>3, <2>0, <3>1, <3>2, <3>3
  <2>4. CASE TimeoutFlush(t)
    <3>1. PICK f \in Edefs :
            /\ inp[t].pc = "tloop" /\ IsNext(f, inp[t].todo) /\ inp[t].prev # 0
            /\ inp'[t].ch = ch /\ inp'[t].todo = inp[t].todo
            /\ inp'[t].prev = patternGetNext(inp[t].prev, f)
            /\ slot' = [slot EXCEPT ![ch][f] = inp[t].prev]
            /\ process(ch, f, inp[t].prev, FALSE)
      BY <1>0, <2>4, TimeoutFlushDoes DEF Becomes, Expired
    <3>2. e = f /\ c = ch
      BY <1>0, <2>0, <3>1, NextUnique
    <3>3. slot'[ch][e] = inp[t].prev /\ Reached(t, ch, e)
      BY <1>0, <3>1, <3>2 DEF Reached
    <3>4. Has(acct'[ch][e], inp[t].prev)
      BY <1>0, <3>1, <3>2, ProcessDoes, LoggedHas
    <3>5. QED  BY <1>3, <2>0, <3>1, <3>2, <3>3, <3>4
  <2>5. QED  BY <2>1, <2>2, <2>3, <2>4
<1>4. QED  BY <1>1, <1>2, <1>3 DEF Reached

LEMMA DoneBeforeAll ==
  \A c, e, n : \A k \in Int :
    TypeInv /\ Done(c, e, head) /\ Done(c, e, k) /\ IsFirstAfter(n, e, k)
    => Done(c, e, n - 1)
  BY DoneBefore

LEMMA DoneBeforeNext ==
  (\A c, e, n : \A k \in Int :
     TypeInv /\ Done(c, e, head) /\ Done(c, e, k) /\ IsFirstAfter(n, e, k)
     => Done(c, e, n - 1))'
  BY DoneBeforeAll, PTL

\* The core thread has been to the channel about the pattern it is retiring.
Visited(c) == (core.pc = "evict" /\ c < core.ch) \/ core.pc \in {"check", "pop"}

DoneAt(c, e) ==
  /\ Done(c, e, head)
  /\ Visited(c) => Done(c, e, head + 1)
  /\ ~Busy(c, e) => Done(c, e, slot[c][e])
  /\ \A t \in Threads : Reached(t, c, e) => Done(c, e, inp[t].prev - 1)

DoneInv == head <= Len(pats) /\ \A c \in Channels, e \in Edefs : DoneAt(c, e)

LEMMA InputDone ==
  ASSUME Narrow, CoreInv, NEW t \in Threads, InputStep(t), head <= Len(pats),
         NEW c \in Channels, NEW e \in Edefs, DoneAt(c, e)
  PROVE  DoneAt(c, e)'
<1> DEFINE n == inp[t].prev   k == slot[c][e]
<1>0. /\ TypeInv /\ NoDangling /\ head \in Nat /\ Len(pats) \in Nat
      /\ k \in Nat /\ k <= Len(pats)
      /\ \A u \in Threads : inp[u].prev \in Nat /\ inp[u].prev <= Len(pats)
      /\ UNCHANGED <<pats, head, core>> /\ [Next]_vars
  <2>1. TypeInv /\ NoDangling
    BY DEF CoreInv, RefInv
  <2>2. UNCHANGED <<pats, head, core>>
    BY DEF InputStep, TimeoutBegin, TimeoutLock, TimeoutFlush, TimeoutAdvance, ItemBegin,
           ItemLookup, ItemTimedOut, ItemEdef, ItemCatchUp, ItemStore, ItemDone, ItemPop,
           windowVars
  <2>3. head \in Nat /\ Len(pats) \in Nat /\ k \in Nat
    BY <2>1, TypeFacts DEF TypeInv
  <2>4. \A m \in Window \cup {0} : m <= Len(pats)
    BY <2>3 DEF Window
  <2>5. [Next]_vars
    BY DEF InputStep, Next, Other, TimeoutStep, ItemStep
  <2>6. QED  BY <2>1, <2>2, <2>3, <2>4, <2>5, ThreadFacts DEF NoDangling
<1>1. \A j \in Int : j <= Len(pats) /\ Done(c, e, j) => Done(c, e, j)'
  BY <1>0, DoneKept
<1>2. Done(c, e, head)' /\ (Visited(c)' => Done(c, e, head + 1)')
  <2>1. Visited(c)' <=> Visited(c)
    BY <1>0 DEF Visited
  <2>2. Visited(c) => head + 1 <= Len(pats)
    BY <1>0 DEF Visited, TypeInv, Retiring
  <2>3. Done(c, e, head)' /\ (Visited(c) => Done(c, e, head + 1)')
    BY <1>0, <1>1, <2>2 DEF DoneAt
  <2>4. QED  BY <1>0, <2>1, <2>3
<1>3. Accounts(t, c, e) /\ ~Leaks(t)
  BY InputAccounts, NoLeak
<1>4. \A u \in Threads, j \in Int : Reached(u, c, e) /\ j = inp[u].prev - 1 => Done(c, e, j)'
  BY <1>0, <1>1 DEF DoneAt
<1>5. ASSUME NEW m, Done(c, e, m)', m \in Int, NEW j, IsFirstAfter(j, e, m)
      PROVE  Done(c, e, j - 1)'
  <2>1. TypeInv' /\ IsFirstAfter(j, e, m)'
    BY <1>0, <1>5, NextTypes DEF IsFirstAfter, Window, Involved
  <2>2. Done(c, e, head)'
    BY <1>2
  <2>3. QED  BY <1>5, <2>1, <2>2, DoneBeforeNext
<1>6. ASSUME NEW m \in Nat, m # 0, Done(c, e, m - 1)', Has(acct'[c][e], m)
      PROVE  Done(c, e, m)'
  BY <1>6 DEF Done
\* A thread's next pattern.
<1>7. ASSUME NEW u \in Threads, Reached(u, c, e)'
      PROVE  Done(c, e, inp[u].prev - 1)'
  <2>0. PICK j \in Nat : j = inp'[u].prev
    <3>1. TypeInv'
      BY <1>0, NextTypes
    <3>2. inp' \in [Threads -> ThreadState]
      BY <3>1 DEF TypeInv, TypeOK
    <3>3. QED  BY <3>2 DEF ThreadState
  <2>1. SUFFICES Done(c, e, j - 1)'
    BY <2>0
  <2>2. CASE Reached(u, c, e) /\ j = inp[u].prev
    BY <1>4, <2>2
  <2>3. CASE j = NextPending(c, e) /\ j # 0 /\ ~Busy(c, e)
    <3>1. IsFirstAfter(j, e, k)
      BY <1>0, <2>3, PendingFacts
    <3>2. Done(c, e, j - 1)
      BY <1>0, <2>3, <3>1, DoneBefore DEF DoneAt
    <3>3. j - 1 \in Int /\ j - 1 <= Len(pats)
      BY <1>0, <3>1 DEF IsFirstAfter, Window
    <3>4. QED  BY <1>1, <3>2, <3>3
  <2>4. CASE /\ Reached(t, c, e) /\ Has(acct'[c][e], n) /\ n # 0
             /\ j = patternGetNext(n, e) /\ j # 0
    <3>1. IsFirstAfter(j, e, n)
      BY <1>0, <2>4, NextFacts
    <3>2. PICK m \in Nat : m = n
      BY <1>0
    <3>3. Done(c, e, m - 1)'
      BY <1>4, <2>4, <3>2
    <3>4. Done(c, e, m)'
      BY <1>6, <2>4, <3>2, <3>3
    <3>5. QED  BY <1>5, <3>1, <3>2, <3>4
  <2>5. CASE u = t /\ Working(t, c, e)'
    <3>1. CASE Same(c, e)
      BY <2>0, <2>2, <2>5, <3>1 DEF Same, Working, Reached
    <3>2. CASE Started(t, c, e)
      BY <2>0, <2>3, <2>5, <3>2 DEF Started
    <3>3. CASE Caught(t, c, e)
      <4>1. /\ Working(t, c, e) /\ Logged(acct'[c][e], acct[c][e], n)
            /\ patternGetNext(n, e) # 0 /\ inp'[t].prev = patternGetNext(n, e)
        BY <2>5, <3>3 DEF Caught
      <4>2. Has(acct'[c][e], n) /\ n # 0
        BY <1>0, <4>1, TypeFacts, LoggedHas, StepNumbers DEF TypeInv, Window
      <4>3. QED  BY <2>0, <2>4, <2>5, <4>1, <4>2 DEF Working, Reached
    <3>4. CASE Flushed(t, c, e) \/ Stored(t, c, e)
      BY <2>5, <3>4 DEF Flushed, Stored, Busy
    <3>5. QED  BY <1>3, <3>1, <3>2, <3>3, <3>4 DEF Accounts
  <2>6. Reached(t, c, e) => n # 0
    <3>1. Working(t, c, e) => n \in Window
      BY StepNumbers
    <3>2. 0 \notin Window
      BY <1>0 DEF Window
    <3>3. QED  BY <3>1, <3>2 DEF Reached, Working
  <2>7. QED  BY <2>0, <2>2, <2>3, <2>4, <2>5, <2>6, <1>7, ReachedFrom
\* The slot's pattern.
<1>8. ASSUME ~Busy(c, e)'
      PROVE  Done(c, e, slot[c][e])'
  <2>0. PICK j \in Nat : j = slot'[c][e]
    <3>1. TypeInv'
      BY <1>0, NextTypes
    <3>2. slot' \in [Channels -> [Edefs -> Nat]]
      BY <3>1 DEF TypeInv, TypeOK
    <3>3. QED  BY <3>2
  <2>1. SUFFICES Done(c, e, j)'
    BY <2>0
  <2>2. CASE Same(c, e)
    <3>1. ~Busy(c, e) /\ j = k
      BY <1>8, <2>0, <2>2 DEF Same, Busy
    <3>2. QED  BY <1>0, <1>1, <3>1 DEF DoneAt
  <2>3. CASE Reached(t, c, e) /\ j = n /\ n # 0 /\ Has(acct'[c][e], n)
    <3>1. Done(c, e, j - 1)'
      BY <1>4, <2>3
    <3>2. QED  BY <1>6, <2>3, <3>1
  <2>4. CASE Flushed(t, c, e)
    <3>1. Has(acct'[c][e], n)
      BY <1>0, <2>4, TypeFacts, LoggedHas DEF Flushed, TypeInv
    <3>2. QED  BY <2>0, <2>3, <2>4, <3>1 DEF Flushed, Reached
  <2>5. CASE Stored(t, c, e)
    <3>1. /\ Working(t, c, e) /\ n = inp[t].pat /\ j = k
          /\ Logged(acct'[c][e], acct[c][e], n)
      BY <2>0, <2>5 DEF Stored
    <3>2. n \in Window /\ j = n
      BY <3>1, StepNumbers
    <3>3. n # 0 /\ Has(acct'[c][e], n)
      BY <1>0, <3>1, <3>2, TypeFacts, LoggedHas DEF TypeInv, Window
    <3>4. QED  BY <2>3, <3>1, <3>2, <3>3 DEF Working, Reached
  <2>6. CASE Started(t, c, e)
    <3>1. NextPending(c, e) # 0
      BY <1>3, <2>6 DEF Started, Leaks
    <3>2. QED  BY <1>8, <2>6, <3>1 DEF Started, Busy
  <2>7. CASE Caught(t, c, e)
    <3>1. patternGetNext(n, e) # 0
      BY <1>3, <2>7 DEF Caught, Leaks, Working
    <3>2. QED  BY <1>8, <2>7, <3>1 DEF Caught, Busy
  <2>8. QED  BY <1>3, <2>2, <2>4, <2>5, <2>6, <2>7 DEF Accounts
<1>9. QED  BY <1>2, <1>7, <1>8 DEF DoneAt

LEMMA HeadMoves ==
  ASSUME TypeInv, OtherStep, head <= Len(pats)
  PROVE  /\ head' <= Len(pats')
         /\ \/ head' = head /\ Len(pats) <= Len(pats')
            \/ head' = head + 1 /\ core.pc = "pop" /\ core'.pc = "wait" /\ UNCHANGED pats
<1>0. head \in Nat /\ Len(pats) \in Nat /\ pats \in Seq(Pattern)
  BY TypeFacts DEF TypeInv, TypeOK, Pattern
<1>1. CASE UNCHANGED <<pats, head>>
  BY <1>0, <1>1
<1>2. CASE \E p : pats' = Append(pats, p) /\ UNCHANGED head
  <2>1. Len(pats') = Len(pats) + 1
    BY <1>0, <1>2, AppendProperties
  <2>2. QED  BY <1>0, <1>2, <2>1
<1>3. CASE RetirePop
  <2>1. head' = head + 1 /\ core.pc = "pop" /\ core'.pc = "wait" /\ UNCHANGED pats
    BY <1>3 DEF RetirePop, pop
  <2>2. QED  BY <1>0, <2>1 DEF TypeInv, Retiring
<1>4. CASE UNCHANGED vars \/ UpdatePatternTimeStamp \/ RetireBegin \/ Evict \/ RetireCheck
  BY <1>1, <1>4 DEF vars, UpdatePatternTimeStamp, RetireBegin, Evict, RetireCheck, windowVars
<1>5. CASE \E shape \in Shapes : PushTimingData(shape)
  BY <1>1, <1>2, <1>5 DEF PushTimingData, push_back, windowVars
<1>6. QED  BY <1>3, <1>4, <1>5 DEF OtherStep

\* The core thread gets to a channel by evicting the pattern from it.
LEMMA CoreMoves ==
  ASSUME TypeInv, OtherStep, NEW c \in Channels, Visited(c)'
  PROVE  Visited(c) \/ (Evict /\ c = core.ch)
<1>1. CASE Evict
  <2>1. core.pc = "evict" /\ core.ch \in Channels /\ c \in Int
    BY <1>1 DEF Evict, TypeInv, TypeOK, Channels
  <2>2. CASE core.ch + 1 \in Channels
    <3>1. core'.ch = core.ch + 1 /\ core'.pc = "evict"
      BY <1>1, <2>1, <2>2 DEF Evict, TypeInv, TypeOK
    <3>2. c < core.ch \/ c = core.ch
      BY <2>1, <3>1 DEF Visited, Channels
    <3>3. QED  BY <1>1, <2>1, <3>2 DEF Visited
  <2>3. CASE core.ch + 1 \notin Channels
    <3>1. c < core.ch \/ c = core.ch
      BY <2>1, <2>3, CoreAssumption DEF Channels
    <3>2. QED  BY <1>1, <2>1, <3>1 DEF Visited
  <2>4. QED  BY <2>2, <2>3
<1>2. CASE UNCHANGED core
  BY <1>2 DEF Visited
<1>3. CASE RetireBegin
  BY <1>3 DEF RetireBegin, Visited, Channels
<1>4. CASE RetireCheck
  BY <1>4 DEF RetireCheck, Visited
<1>5. CASE RetirePop
  BY <1>5 DEF RetirePop, Visited
<1>6. CASE UNCHANGED vars \/ UpdatePatternTimeStamp \/ \E shape \in Shapes : PushTimingData(shape)
  BY <1>2, <1>6 DEF vars, UpdatePatternTimeStamp, PushTimingData
<1>7. QED  BY <1>1, <1>3, <1>4, <1>5, <1>6 DEF OtherStep

LEMMA OtherDone ==
  ASSUME CoreInv, OtherStep, head <= Len(pats),
         NEW c \in Channels, NEW e \in Edefs, DoneAt(c, e)
  PROVE  DoneAt(c, e)'
<1> DEFINE k == slot[c][e]
<1>0. /\ TypeInv /\ LockDiscipline /\ head \in Nat /\ Len(pats) \in Nat /\ Front = head + 1
      /\ core.ch \in Channels
      /\ k \in Window \cup {0} /\ (\A m \in Window : m \in Nat /\ m > head /\ m <= Len(pats))
      /\ (\A t \in Threads : inp[t].prev \in Nat /\ inp[t].prev <= Len(pats))
      /\ UNCHANGED inp /\ [Next]_vars
  <2>1. TypeInv /\ LockDiscipline /\ NoDangling
    BY DEF CoreInv, RefInv
  <2>2. UNCHANGED inp /\ [Next]_vars
    BY OthersLeaveInput DEF OtherStep, Next, Other
  <2>3. head \in Nat /\ Len(pats) \in Nat /\ core.ch \in Channels
    BY <2>1, TypeFacts DEF TypeInv, TypeOK
  <2>4. \A m \in Window : m \in Nat /\ m > head /\ m <= Len(pats)
    BY <2>3 DEF Window
  <2>5. QED  BY <2>1, <2>2, <2>3, <2>4, ThreadFacts DEF NoDangling, Front
<1>1. \A j \in Int : j <= Len(pats) /\ Done(c, e, j) => Done(c, e, j)'
  BY <1>0, DoneKept
<1>2. \/ head' = head /\ Len(pats) <= Len(pats')
      \/ head' = head + 1 /\ core.pc = "pop" /\ core'.pc = "wait" /\ UNCHANGED pats
  BY <1>0, HeadMoves
<1>3. Visited(c) => head + 1 <= Len(pats)
  BY <1>0 DEF Visited, TypeInv, Retiring
<1>4. Done(c, e, head)'
  <2>1. CASE head' = head
    BY <1>0, <1>1, <2>1 DEF DoneAt
  <2>2. CASE head' = head + 1 /\ core.pc = "pop"
    <3>1. Done(c, e, head + 1) /\ head + 1 <= Len(pats)
      BY <1>3, <2>2 DEF DoneAt, Visited
    <3>2. PICK j \in Nat : j = head + 1
      BY <1>0
    <3>3. QED  BY <1>1, <2>2, <3>1, <3>2
  <2>3. QED  BY <1>2, <2>1, <2>2
<1>5. ASSUME NEW t \in Threads, Reached(t, c, e)'
      PROVE  Done(c, e, inp[t].prev - 1)'
  <2>1. PICK j \in Int : j = inp[t].prev - 1 /\ j <= Len(pats)
    BY <1>0
  <2>2. Reached(t, c, e) /\ inp'[t].prev - 1 = j
    BY <1>0, <1>5, <2>1 DEF Reached
  <2>3. QED  BY <1>1, <2>1, <2>2 DEF DoneAt
<1>6. ASSUME ~Busy(c, e)'
      PROVE  Done(c, e, slot[c][e])'
  <2>1. slot'[c][e] = 0 \/ slot'[c][e] = k
    BY <1>0, CoreChannel, EvictAccounts DEF Evicted
  <2>2. ~Busy(c, e)
    BY <1>0, <1>6 DEF Busy, Working
  <2>3. CASE slot'[c][e] = 0
    BY <2>3 DEF Done
  <2>4. CASE slot'[c][e] = k
    <3>1. PICK j \in Int : j = k /\ j <= Len(pats)
      BY <1>0
    <3>2. QED  BY <1>1, <2>2, <2>4, <3>1 DEF DoneAt
  <2>5. QED  BY <2>1, <2>3, <2>4
<1>7. ASSUME Visited(c)'
      PROVE  Done(c, e, head + 1)'
  <2>0. PICK j \in Nat : j = head + 1
    BY <1>0
  <2>1. Visited(c) \/ (Evict /\ c = core.ch)
    BY <1>0, <1>7, CoreMoves
  <2>2. head' = head
    BY <1>2, <1>7 DEF Visited
  <2>3. CASE Visited(c)
    BY <1>0, <1>1, <1>3, <2>0, <2>2, <2>3 DEF DoneAt
  <2>4. CASE Evict /\ c = core.ch
    <3>1. Evicted(c, e) /\ j <= Len(pats) /\ UNCHANGED pats
      BY <1>0, <2>0, <2>4, EvictAccounts DEF Evict, TypeInv, Retiring
    <3>2. CASE Done(c, e, j)
      BY <1>1, <2>0, <2>2, <3>1, <3>2
    <3>3. CASE Has(acct'[c][e], j)
      <4>1. Done(c, e, head)' /\ j - 1 = head'
        BY <1>0, <1>4, <2>0, <2>2
      <4>2. Done(c, e, j)'
        <5>1. \A m \in 1 .. j : m \in 1 .. head' \/ m = j
          BY <4>1
        <5>2. QED  BY <3>3, <4>1, <5>1 DEF Done
      <4>3. QED  BY <2>0, <2>2, <4>2
    <3>4. CASE k >= j
      <4>1. Done(c, e, k) /\ k \in Int
        BY <1>0, <3>1 DEF Evicted, DoneAt
      <4>2. Done(c, e, j)
        BY <3>4, <4>1, DoneLess
      <4>3. QED  BY <3>2, <4>2
    <3>5. CASE e \notin Involved(j)
      <4>1. Done(c, e, j)
        <5>1. \A m \in 1 .. j : m \in 1 .. head \/ m = j
          BY <1>0, <2>0
        <5>2. QED  BY <3>5, <5>1 DEF Done, DoneAt
      <4>2. QED  BY <3>2, <4>1
    <3>6. k >= j \/ Has(acct'[c][e], j) \/ e \notin Involved(j)
      <4>1. acct[c][e] \in Seq(Entry) /\ j = Front
        BY <1>0, <2>0, TypeFacts DEF TypeInv
      <4>2. Logged(acct'[c][e], acct[c][e], j) => Has(acct'[c][e], j)
        BY <4>1, LoggedHas
      <4>3. k \notin {0, j} => k >= j
        BY <1>0, <2>0
      <4>4. QED  BY <3>1, <4>1, <4>2, <4>3 DEF Evicted
    <3>7. QED  BY <3>3, <3>4, <3>5, <3>6
  <2>5. QED  BY <2>1, <2>3, <2>4
<1>8. QED  BY <1>4, <1>5, <1>6, <1>7 DEF DoneAt

LEMMA InitDone == Init => DoneInv
<1>1. SUFFICES ASSUME Init PROVE DoneInv
  OBVIOUS
<1>2. head = 0 /\ Len(pats) = 0 /\ core.pc = "wait"
      /\ (\A c \in Channels, e \in Edefs : slot[c][e] = 0)
      /\ (\A t \in Threads : inp[t].pc = "idle")
  BY <1>1 DEF Init, Idle
<1>3. \A c, e : Done(c, e, 0)
  BY DEF Done
<1>4. QED  BY <1>2, <1>3 DEF DoneInv, DoneAt, Visited, Reached

LEMMA NextDone ==
  ASSUME Narrow, CoreInv, DoneInv, [Next]_vars
  PROVE  DoneInv'
<1>0. TypeInv /\ head <= Len(pats)
  BY DEF CoreInv, DoneInv
<1>1. CASE OtherStep
  BY <1>0, <1>1, OtherDone, HeadMoves DEF DoneInv
<1>2. ASSUME NEW t \in Threads, InputStep(t)
      PROVE  DoneInv'
  <2>1. UNCHANGED <<pats, head>>
    BY <1>2 DEF InputStep, TimeoutBegin, TimeoutLock, TimeoutFlush, TimeoutAdvance, ItemBegin,
           ItemLookup, ItemTimedOut, ItemEdef, ItemCatchUp, ItemStore, ItemDone, ItemPop,
           windowVars
  <2>2. QED  BY <1>0, <1>2, <2>1, InputDone DEF DoneInv
<1>3. QED  BY <1>1, <1>2, NextSteps DEF OtherStep

LEMMA DoneHolds == Narrow => (Spec => []DoneInv)
<1>1. Narrow /\ CoreInv /\ DoneInv /\ [Next]_vars => DoneInv'
  BY NextDone
<1>2. ASSUME Narrow
      PROVE  Spec => []DoneInv
  <2>1. CoreInv /\ DoneInv /\ [Next]_vars => DoneInv'
    BY <1>1, <1>2
  <2>2. QED  BY <2>1, InitDone, CoreHolds, PTL DEF Spec
<1>3. QED  BY <1>2

\* No pattern is lost: whichever of eviction, timeout and catching up gets
\* there first, every channel has accounted for a pattern, for every edef it
\* involves, before the pattern is popped.
THEOREM NoPatternLost == Narrow => (Spec => []AtLeastOnce)
<1>1. ASSUME CoreInv, DoneInv
      PROVE  AtLeastOnce
  <2>1. \A n \in 1 .. head : Involved(n) \subseteq Edefs
    <3>1. pats \in Seq(Pattern) /\ Len(pats) \in Nat /\ head \in Nat /\ head <= Len(pats)
      BY <1>1, TypeFacts DEF CoreInv, TypeInv, TypeOK, Pattern, DoneInv
    <3>2. \A n \in 1 .. head : pats[n] \in Pattern
      BY <3>1, ElementOfSeq
    <3>3. QED  BY <3>2 DEF Pattern, Involved
  <2>2. \A c \in Channels, e \in Edefs : Done(c, e, head)
    BY <1>1 DEF DoneInv, DoneAt
  <2>3. QED  BY <2>1, <2>2 DEF AtLeastOnce, Done, Has, Accounted
<1>2. CoreInv /\ DoneInv => AtLeastOnce
  BY <1>1
<1>3. QED  BY <1>2, DoneHolds, CoreHolds, PTL

\* What evict counts on when it leaves a channel with a newer slot alone:
\* in a channel that can be locked, everything up to a slot's pattern has
\* been accounted for.
THEOREM SlotsUpToDate == Narrow => (Spec => []SlotUpToDate)
<1>1. ASSUME CoreInv, DoneInv
      PROVE  SlotUpToDate
  <2>1. ASSUME NEW c \in Channels, mtx[c] = Nobody, NEW e \in Edefs
        PROVE  Done(c, e, slot[c][e])
    <3>1. ~Busy(c, e)
      BY <1>1, <2>1, NobodyBusy DEF CoreInv
    <3>2. QED  BY <1>1, <3>1 DEF DoneInv, DoneAt
  <2>2. QED  BY <2>1 DEF SlotUpToDate, Done, Has, Accounted
<1>2. CoreInv /\ DoneInv => SlotUpToDate
  BY <1>1
<1>3. QED  BY <1>2, DoneHolds, CoreHolds, PTL

-----------------------------------------------------------------------------
(* With timeouts in time. *)

\* What everybody but the input threads does.
LateStep ==
  \/ UNCHANGED vars \/ (\E shape \in Shapes : PushTimingData(shape))
  \/ UpdatePatternTimeStamp \/ (RetireBegin /\ Timely) \/ Evict \/ RetireCheck \/ RetirePop

LEMMA LateSteps ==
  ASSUME [TimelyNext]_vars
  PROVE  [Next]_vars /\ (LateStep \/ \E t \in Threads : InputStep(t))
  BY DEF TimelyNext, Next, LateStep, Other, TimeoutStep, ItemStep, InputStep

\* While a pattern is being retired, no channel is without a pattern of its
\* own, unless it is locked, and those the core thread has been to have a
\* newer one.
TimelyAt(c) ==
  core.pc # "wait" => \A e \in Involved(Front) :
    /\ slot[c][e] # 0 \/ deferred[c]
    /\ Visited(c) => slot[c][e] # Front

TimelyInv == \A c \in Channels : TimelyAt(c)

\* What a channel's lock keeps an input thread from.
LEMMA LockedOut ==
  ASSUME CoreInv, NEW t \in Threads, NEW c \in Channels, NEW e \in Edefs,
         InputStep(t)
  PROVE  /\ slot'[c][e] = slot[c][e]
            \/ (slot'[c][e] > slot[c][e] /\ slot'[c][e] \in Window /\ ~deferred[c])
         /\ Flushed(t, c, e) \/ Started(t, c, e) => ~deferred[c]
<1>0. LockDiscipline /\ t # Core
  BY ThreadFacts DEF CoreInv, Core
<1>1. Flushed(t, c, e) \/ Started(t, c, e) => ~deferred[c]
  BY <1>0 DEF Flushed, Started, LockDiscipline
<1>2. Accounts(t, c, e)
  BY InputAccounts
<1>3. CASE Same(c, e) \/ Caught(t, c, e) \/ Stored(t, c, e)
  BY <1>1, <1>3 DEF Same, Caught, Stored
<1>4. CASE Flushed(t, c, e)
  <2>1. inp[t].prev \in Window /\ inp[t].prev > slot[c][e]
    BY <1>4, StepNumbers
  <2>2. QED  BY <1>1, <1>4, <2>1 DEF Flushed
<1>5. CASE Started(t, c, e)
  <2>1. inp[t].pat \in Window /\ inp[t].pat > slot[c][e]
    BY <1>5, StepNumbers
  <2>2. QED  BY <1>1, <1>5, <2>1 DEF Started
<1>6. QED  BY <1>2, <1>3, <1>4, <1>5 DEF Accounts

LEMMA InputTimely ==
  ASSUME CoreInv, NEW t \in Threads, InputStep(t), NEW c \in Channels, TimelyAt(c)
  PROVE  TimelyAt(c)'
<1>0. TypeInv /\ NoDangling /\ UNCHANGED <<pats, head, core, deferred>>
  BY DEF CoreInv, RefInv, InputStep, TimeoutBegin, TimeoutLock, TimeoutFlush, TimeoutAdvance,
         ItemBegin, ItemLookup, ItemTimedOut, ItemEdef, ItemCatchUp, ItemStore, ItemDone,
         ItemPop, windowVars, chanVars
<1>1. ASSUME core.pc # "wait", NEW e \in Involved(Front)
      PROVE  (slot'[c][e] # 0 \/ deferred[c]) /\ (Visited(c) => slot'[c][e] # Front)
  <2>1. e \in Edefs
    <3>1. Front \in Window
      BY <1>0, <1>1, TypeFacts DEF TypeInv, Retiring, Front, Window
    <3>2. pats[Front] \in Pattern
      BY <1>0, <3>1, TypeFacts DEF TypeInv
    <3>3. QED  BY <3>2 DEF Pattern, Involved
  <2>2. /\ slot[c][e] \in Window \cup {0} /\ (slot[c][e] # 0 \/ deferred[c])
        /\ Visited(c) => slot[c][e] # Front
    BY <1>0, <1>1, <2>1 DEF NoDangling, TimelyAt
  <2>3. /\ slot'[c][e] = slot[c][e]
           \/ (slot'[c][e] > slot[c][e] /\ slot'[c][e] \in Window /\ ~deferred[c])
    BY <2>1, LockedOut
  <2>4. \A m \in Window : m \in Nat /\ m # 0 /\ m >= Front
    BY <1>0, TypeFacts DEF TypeInv, Window, Front
  <2>5. Front \in Nat
    BY <1>0, TypeFacts DEF TypeInv, Front
  <2>6. QED  BY <2>2, <2>3, <2>4, <2>5
<1>2. Involved(Front)' = Involved(Front) /\ Front' = Front /\ (Visited(c)' <=> Visited(c))
  BY <1>0 DEF Involved, Front, Visited
<1>3. QED  BY <1>0, <1>1, <1>2 DEF TimelyAt

\* When all is in time, the core thread has nothing to account for.
LEMMA NothingUnattended ==
  ASSUME TypeInv, LockDiscipline, TimelyInv, Evict
  PROVE  ~deferred[core.ch] /\ \A e \in Involved(Front) : slot[core.ch][e] # 0
<1>1. core.pc = "evict" /\ mtx[core.ch] = Nobody /\ core.ch \in Channels
  BY DEF Evict, TypeInv, TypeOK
<1>2. ~deferred[core.ch]
  BY <1>1 DEF LockDiscipline, Core, Nobody
<1>3. QED  BY <1>1, <1>2 DEF TimelyInv, TimelyAt

LEMMA OtherTimely ==
  ASSUME CoreInv, TimelyInv, LateStep, NEW c \in Channels
  PROVE  TimelyAt(c)'
<1>0. /\ TypeInv /\ LockDiscipline /\ TimelyAt(c) /\ core.ch \in Channels /\ OtherStep
      /\ slot \in [Channels -> [Edefs -> Nat]]
  BY DEF CoreInv, TypeInv, TypeOK, TimelyInv, LateStep, OtherStep
<1>1. CASE RetirePop
  BY <1>1 DEF RetirePop, TimelyAt
<1>2. CASE RetireBegin /\ Timely
  <2>1. /\ \A e \in Involved(Front) : slot[c][e] # 0
        /\ UNCHANGED <<pats, head, slot, deferred>> /\ ~Visited(c)'
    BY <1>2 DEF Timely, RetireBegin, windowVars, chanVars, Visited, Channels
  <2>2. QED  BY <2>1 DEF TimelyAt, Involved, Front
<1>3. CASE RetireCheck
  <2>1. UNCHANGED <<pats, head, slot, deferred>> /\ core.pc = "check"
    BY <1>3 DEF RetireCheck, windowVars, chanVars
  <2>2. QED  BY <1>0, <2>1 DEF TimelyAt, Involved, Front, Visited
<1>4. CASE \E shape \in Shapes : PushTimingData(shape)
  <2>1. UNCHANGED <<head, slot, deferred, core>>
    BY <1>4 DEF PushTimingData, push_back, windowVars, chanVars
  <2>2. core.pc # "wait" => Involved(Front)' = Involved(Front)
    <3>1. core.pc # "wait" => Front \in 1 .. Len(pats) /\ UNCHANGED Front
      BY <1>0, <2>1, TypeFacts DEF TypeInv, Retiring, Front
    <3>2. [Next]_vars
      BY <1>0 DEF OtherStep, Next, Other
    <3>3. core.pc # "wait" => pats'[Front] = pats[Front]
      BY <1>0, <3>1, <3>2, PatsKept
    <3>4. QED  BY <3>1, <3>3 DEF Involved
  <2>3. Front' = Front
    BY <2>1 DEF Front
  <2>4. QED  BY <1>0, <2>1, <2>2, <2>3 DEF TimelyAt, Visited
<1>5. CASE UNCHANGED vars \/ UpdatePatternTimeStamp
  <2>1. UNCHANGED <<pats, head, slot, deferred, core>>
    BY <1>5 DEF vars, UpdatePatternTimeStamp, windowVars, chanVars
  <2>2. QED  BY <1>0, <2>1 DEF TimelyAt, Involved, Front, Visited
<1>6. CASE Evict
  <2>0. /\ UNCHANGED <<pats, head>> /\ core.pc = "evict"
        /\ Involved(Front)' = Involved(Front) /\ Front' = Front
    BY <1>6 DEF Evict, Involved, Front
  <2>1. CASE c # core.ch
    <3>1. slot'[c] = slot[c] /\ (Visited(c)' => Visited(c))
      BY <1>0, <1>6, <2>1, EvictAccounts, CoreMoves
    <3>2. deferred'[c] = deferred[c]
      BY <1>0, <1>6, <2>1 DEF Evict, TypeInv, TypeOK
    <3>3. QED  BY <1>0, <2>0, <3>1, <3>2 DEF TimelyAt
  <2>2. CASE c = core.ch
    <3>1. /\ slot'[c] = [e \in Edefs |-> IF e \in Expiring(c) THEN 0 ELSE slot[c][e]]
          /\ deferred'[c] = Defers(c)
      BY <1>0, <1>6, <2>2 DEF Evict, TypeInv, TypeOK
    <3>2. ASSUME NEW e \in Involved(Front)
          PROVE  (slot'[c][e] # 0 \/ deferred'[c]) /\ slot'[c][e] # Front
      <4>1. e \in Edefs /\ Front # 0
        <5>1. Front \in Window /\ Front # 0
          BY <1>0, <2>0, TypeFacts DEF TypeInv, Retiring, Front, Window
        <5>2. pats[Front] \in Pattern
          BY <1>0, <5>1, TypeFacts DEF TypeInv
        <5>3. QED  BY <5>1, <5>2 DEF Pattern, Involved
      <4>2. slot[c][e] # 0
        BY <1>0, <1>6, <2>2, NothingUnattended
      <4>3. QED  BY <3>1, <4>1, <4>2, ScansInvolved DEF Expiring, Defers
    <3>3. QED  BY <2>0, <3>2 DEF TimelyAt
  <2>3. QED  BY <2>1, <2>2
<1>7. QED  BY <1>1, <1>2, <1>3, <1>4, <1>5, <1>6 DEF LateStep

\* All that is known when a step begins, with timeouts in time.
TimelyCore == CoreInv /\ TimelyInv

LEMMA TimelyHolds == TimelySpec => []TimelyCore
<1>1. Init => TimelyInv
  <2>1. Init => core.pc = "wait"
    BY DEF Init
  <2>2. QED  BY <2>1 DEF TimelyInv, TimelyAt
<1>2. ASSUME TimelyCore, [TimelyNext]_vars
      PROVE  TimelyCore'
  <2>1. CoreInv'
    BY <1>2, LateSteps, NextCore DEF TimelyCore
  <2>2. TimelyInv'
    BY <1>2, LateSteps, InputTimely, OtherTimely DEF TimelyCore, TimelyInv
  <2>3. QED  BY <2>1, <2>2 DEF TimelyCore
<1>3. QED  BY <1>1, <1>2, InitCore, PTL DEF TimelyCore, TimelySpec

LEMMA TimelyIsSpec == TimelySpec => Spec
<1>1. [TimelyNext]_vars => [Next]_vars
  BY DEF TimelyNext, Next
<1>2. QED  BY <1>1, PTL DEF TimelySpec, Spec

\* The core thread's wait for an unused front can come to an end: when all is
\* in time, no channel points at the front any more, and a thread that does
\* is in the middle of its work with a channel it has locked, not waiting for
\* one which the core keeps.
THEOREM WaitEnds == TimelySpec => []NoRetireDeadlock
<1>1. ASSUME TimelyCore, core.pc = "pop"
      PROVE  /\ \A c \in Channels, e \in Edefs : slot[c][e] # Front
             /\ \A t \in Threads : Front \in {inp[t].pat, inp[t].prev} => ~Blocked(t)
  <2>1. TypeInv /\ Holdings /\ Tracks /\ Front # 0
    <3>1. TypeInv /\ Holdings /\ Tracks
      BY <1>1 DEF TimelyCore, CoreInv, RefInv
    <3>2. QED  BY <3>1, TypeFacts DEF TypeInv, Front
  <2>2. ASSUME NEW c \in Channels, NEW e \in Edefs, slot[c][e] = Front
        PROVE  FALSE
    <3>1. e \in Involved(Front)
      BY <2>1, <2>2 DEF Tracks, SlotTracks
    <3>2. QED  BY <1>1, <2>2, <3>1 DEF TimelyCore, TimelyInv, TimelyAt, Visited
  <2>3. ASSUME NEW t \in Threads, Front \in {inp[t].pat, inp[t].prev}
        PROVE  ~Blocked(t)
    BY <2>1, <2>3 DEF Holdings, Holds, Blocked
  <2>4. QED  BY <2>2, <2>3
<1>2. TimelyCore => NoRetireDeadlock
  BY <1>1 DEF NoRetireDeadlock
<1>3. QED  BY <1>2, TimelyHolds, PTL

-----------------------------------------------------------------------------
(* Exactly once. *)

\* The last pattern a channel without a pattern of its own has accounted for
\* is the last one popped or, once the core thread has been there, the one
\* about to be.
Floor(c) == IF Visited(c) THEN head + 1 ELSE head
Bound(c, e) == IF slot[c][e] = 0 THEN Floor(c) ELSE slot[c][e]

OnceAt(c, e) ==
  /\ Strict(acct[c][e])
  /\ ~Busy(c, e) => Below(acct[c][e], Bound(c, e))
  /\ \A t \in Threads : Working(t, c, e) => Below(acct[c][e], inp[t].prev - 1)

OnceInv == \A c \in Channels, e \in Edefs : OnceAt(c, e)

\* What a channel has accounted for lies before any pattern an input thread
\* may come across later.
LEMMA BoundLess ==
  ASSUME TimelyCore, NEW c \in Channels, NEW e \in Edefs, NEW n \in Window,
         ~deferred[c], n > slot[c][e], e \in Involved(n)
  PROVE  Bound(c, e) \in Int /\ Bound(c, e) <= n - 1 /\ n \in Int
<1>1. /\ TimelyAt(c) /\ head \in Nat /\ slot[c][e] \in Nat /\ Front = head + 1
      /\ n \in Int /\ n >= head + 1
  BY TypeFacts DEF TimelyCore, CoreInv, TypeInv, TimelyInv, Window, Front
<1>2. Visited(c) /\ slot[c][e] = 0 => n # Front
  BY <1>1 DEF TimelyAt, Visited
<1>3. QED  BY <1>1, <1>2 DEF Bound, Floor

LEMMA InputOnce ==
  ASSUME TimelyCore, NEW t \in Threads, InputStep(t), NEW c \in Channels, NEW e \in Edefs,
         OnceAt(c, e)
  PROVE  OnceAt(c, e)'
<1> DEFINE s == acct[c][e]   k == slot[c][e]   n == inp[t].prev   p == inp[t].pat
           b == Bound(c, e)
<1>0. /\ CoreInv /\ TypeInv /\ s \in Seq(Entry) /\ k \in Nat /\ n \in Nat /\ p \in Nat /\ head \in Nat
      /\ (\A m \in Window : m \in Nat /\ m >= head + 1)
      /\ UNCHANGED <<head, core>>
  <2>1. CoreInv /\ TypeInv
    BY DEF TimelyCore, CoreInv
  <2>2. UNCHANGED <<head, core>>
    BY DEF InputStep, TimeoutBegin, TimeoutLock, TimeoutFlush, TimeoutAdvance, ItemBegin,
           ItemLookup, ItemTimedOut, ItemEdef, ItemCatchUp, ItemStore, ItemDone, ItemPop,
           windowVars
  <2>3. \A m \in Window : m \in Nat /\ m >= head + 1
    BY <2>1, TypeFacts DEF TypeInv, Window
  <2>4. QED  BY <2>1, <2>2, <2>3, TypeFacts, ThreadFacts DEF TypeInv
<1>1. Accounts(t, c, e)
  BY <1>0, InputAccounts
<1>2. /\ Strict(s) /\ (Busy(c, e) \/ Below(s, b)) /\ b \in Int
  BY <1>0 DEF OnceAt, Bound, Floor
<1>3. CASE Same(c, e)
  <2>1. Bound(c, e)' = b
    BY <1>0, <1>3 DEF Same, Bound, Floor, Visited
  <2>2. Busy(c, e)' <=> Busy(c, e)
    BY <1>3 DEF Same, Busy
  <2>3. \A u \in Threads : Working(u, c, e)' => Working(u, c, e) /\ inp'[u].prev = inp[u].prev
    BY <1>3 DEF Same
  <2>4. QED  BY <1>2, <1>3, <2>1, <2>2, <2>3 DEF Same, OnceAt
<1>4. CASE Flushed(t, c, e)
  <2>1. n \in Window /\ n > k /\ ~deferred[c] /\ ~Busy(c, e) /\ e \in Involved(n)
    BY <1>0, <1>4, StepNumbers, LockedOut DEF Flushed
  <2>2. Below(s, b) /\ b < n /\ n # 0
    BY <1>0, <1>2, <2>1, BoundLess
  <2>3. Logged(acct'[c][e], s, n) /\ slot'[c][e] = n /\ ~Busy(c, e)'
    BY <1>4 DEF Flushed
  <2> HIDE DEF b, s
  <2>4. Strict(acct'[c][e])
    BY <1>0, <1>2, <2>2, <2>3, LoggedStrict
  <2>5. Below(acct'[c][e], n)
    BY <1>0, <1>2, <2>2, <2>3, LoggedBelow
  <2>6. QED  BY <2>2, <2>3, <2>4, <2>5 DEF OnceAt, Busy, Bound
<1>5. CASE Started(t, c, e)
  <2>1. p \in Window /\ p > k /\ ~deferred[c] /\ ~Busy(c, e) /\ e \in Involved(p)
    BY <1>0, <1>5, StepNumbers, LockedOut DEF Started
  <2>2. Below(s, p) /\ p # 0
    <3>1. b <= p /\ p # 0 /\ p \in Int /\ Below(s, b)
      BY <1>0, <1>2, <2>1, BoundLess
    <3> HIDE DEF b, s
    <3>2. QED  BY <1>0, <1>2, <3>1, BelowMonotone
  <2>3. /\ acct'[c][e] = s /\ slot'[c][e] = p /\ \A u \in Threads \ {t} : ~Working(u, c, e)'
        /\ \/ ~Working(t, c, e)'
           \/ NextPending(c, e) # 0 /\ inp'[t].prev = NextPending(c, e)
    BY <1>5 DEF Started
  <2>4. NextPending(c, e) # 0 => Below(s, NextPending(c, e) - 1)
    <3>1. SUFFICES ASSUME NextPending(c, e) # 0
                   PROVE  Below(s, NextPending(c, e) - 1)
      OBVIOUS
    <3>2. PICK m \in Window : m = NextPending(c, e) /\ m > k /\ e \in Involved(m)
      BY <1>0, <3>1, PendingFacts DEF IsFirstAfter
    <3>3. Below(s, b) /\ b <= m - 1 /\ m - 1 \in Int
      BY <1>0, <1>2, <2>1, <3>2, BoundLess
    <3> HIDE DEF b, s
    <3>4. QED  BY <1>0, <1>2, <3>2, <3>3, BelowMonotone
  <2>5. QED  BY <1>2, <2>2, <2>3, <2>4 DEF OnceAt, Bound
<1>6. CASE Caught(t, c, e)
  <2>1. n \in Window /\ n <= p /\ k = p /\ p \in Window
    BY <1>0, <1>6, StepNumbers DEF Caught
  <2>2. /\ Logged(acct'[c][e], s, n) /\ slot'[c][e] = k
        /\ \A u \in Threads \ {t} : ~Working(u, c, e)'
        /\ \/ ~Working(t, c, e)'
           \/ patternGetNext(n, e) # 0 /\ inp'[t].prev = patternGetNext(n, e)
    BY <1>6 DEF Caught
  <2>3. Below(s, n - 1) /\ n - 1 \in Int /\ n - 1 < n
    BY <1>0, <1>6 DEF Caught, OnceAt
  <2>4. Strict(acct'[c][e])
    BY <1>0, <1>2, <2>2, <2>3, LoggedStrict
  <2>5. Below(acct'[c][e], p) /\ p # 0
    BY <1>0, <2>1, <2>2, <2>3, LoggedBelow
  <2>6. patternGetNext(n, e) # 0 => Below(acct'[c][e], patternGetNext(n, e) - 1)
    <3>1. SUFFICES ASSUME patternGetNext(n, e) # 0
                   PROVE  Below(acct'[c][e], patternGetNext(n, e) - 1)
      OBVIOUS
    <3>2. PICK m \in Nat : m = patternGetNext(n, e) /\ m > n
      BY <1>0, <3>1, NextFacts DEF IsFirstAfter
    <3>3. m - 1 \in Int /\ n <= m - 1 /\ n - 1 <= m - 1
      BY <1>0, <3>2
    <3> HIDE DEF s
    <3>4. QED  BY <1>0, <2>2, <2>3, <3>2, <3>3, LoggedBelow
  <2>7. QED  BY <2>1, <2>2, <2>4, <2>5, <2>6 DEF OnceAt, Bound
<1>7. CASE Stored(t, c, e)
  <2>1. n = p /\ k = p /\ p \in Window
    BY <1>0, <1>7, StepNumbers DEF Stored
  <2>2. Logged(acct'[c][e], s, p) /\ slot'[c][e] = k /\ ~Busy(c, e)'
    BY <1>7 DEF Stored
  <2>3. Below(s, p - 1) /\ p - 1 \in Int /\ p - 1 < p
    BY <1>0, <1>7, <2>1 DEF Stored, OnceAt
  <2>4. Strict(acct'[c][e]) /\ Below(acct'[c][e], p) /\ p # 0
    BY <1>0, <1>2, <2>1, <2>2, <2>3, LoggedStrict, LoggedBelow
  <2>5. QED  BY <2>1, <2>2, <2>4 DEF OnceAt, Busy, Bound
<1>8. QED  BY <1>1, <1>3, <1>4, <1>5, <1>6, <1>7 DEF Accounts

\* An eviction takes the core thread to one more channel.
LEMMA EvictVisits ==
  ASSUME TypeInv, Evict, NEW c \in Channels
  PROVE  /\ c # core.ch => (Visited(c)' <=> Visited(c))
         /\ c = core.ch => Visited(c)' /\ ~Visited(c)
<1>1. core.pc = "evict" /\ core.ch \in Int /\ c \in Int
  BY DEF Evict, TypeInv, TypeOK, Channels
<1>2. CASE core.ch + 1 \in Channels
  <2>1. core'.pc = "evict" /\ core'.ch = core.ch + 1
    BY <1>2 DEF Evict, TypeInv, TypeOK
  <2>2. QED  BY <1>1, <2>1 DEF Visited
<1>3. CASE core.ch + 1 \notin Channels
  <2>1. core'.pc = "check"
    BY <1>3 DEF Evict
  <2>2. core.ch \in Channels /\ NumChannels \in Nat
    BY CoreAssumption DEF TypeInv, TypeOK
  <2>3. c <= core.ch
    BY <1>3, <2>2 DEF Channels
  <2>4. QED  BY <1>1, <2>1, <2>3 DEF Visited
<1>4. QED  BY <1>2, <1>3

LEMMA OtherOnce ==
  ASSUME TimelyCore, LateStep, NEW c \in Channels, NEW e \in Edefs, OnceAt(c, e)
  PROVE  OnceAt(c, e)'
<1> DEFINE s == acct[c][e]   k == slot[c][e]
<1>0. /\ TypeInv /\ LockDiscipline /\ TimelyInv /\ OtherStep /\ s \in Seq(Entry) /\ k \in Nat
      /\ head \in Nat /\ Front = head + 1 /\ UNCHANGED inp
  BY TypeFacts, OthersLeaveInput
  DEF TimelyCore, CoreInv, TypeInv, LateStep, OtherStep, Front
<1>1. \A t \in Threads : /\ Working(t, c, e)' <=> Working(t, c, e)
                         /\ inp'[t].prev = inp[t].prev
  BY <1>0 DEF Working
<1>2. Busy(c, e)' <=> Busy(c, e)
  BY <1>1 DEF Busy
<1>3. CASE slot'[c][e] = k /\ acct'[c][e] = s /\ Floor(c) <= Floor(c)'
  <2>1. Floor(c) \in Int /\ Floor(c)' \in Int
    <3>1. head' \in Int
      <4>1. TypeInv'
        BY <1>0, NextTypes DEF OtherStep, Next, Other
      <4>2. QED  BY <4>1 DEF TypeInv, TypeOK
    <3>2. QED  BY <1>0, <3>1 DEF Floor
  <2>2. Below(s, Floor(c)) => Below(s, Floor(c)')
    BY <1>0, <1>3, <2>1, BelowMonotone
  <2>3. QED  BY <1>1, <1>2, <1>3, <2>2 DEF OnceAt, Bound
<1>4. CASE Evict
  <2>0. head' = head
    BY <1>4 DEF Evict
  <2>1. CASE c # core.ch
    <3>1. slot'[c] = slot[c] /\ acct'[c] = acct[c] /\ (Visited(c)' <=> Visited(c))
      BY <1>0, <1>4, <2>1, EvictAccounts, EvictVisits
    <3>2. QED  BY <1>0, <1>3, <2>0, <3>1 DEF Floor
  <2>2. CASE c = core.ch
    <3>1. Evicted(c, e) /\ Floor(c) = head /\ Floor(c)' = Front
      BY <1>0, <1>4, <2>0, <2>2, EvictAccounts, EvictVisits DEF Floor
    <3>2. CASE slot'[c][e] = k /\ acct'[c][e] = s
      BY <1>0, <1>3, <3>1, <3>2
    <3>3. CASE k = Front /\ slot'[c][e] = 0 /\ acct'[c][e] = s
      <4>1. Bound(c, e)' = Front
        BY <3>1, <3>3 DEF Bound
      <4>2. ~Busy(c, e) /\ Below(s, Front)
        BY <1>0, <3>1, <3>3 DEF Evicted, OnceAt, Bound
      <4>3. QED  BY <1>1, <1>2, <3>3, <4>1, <4>2 DEF OnceAt, Busy
    <3>4. CASE k = 0 /\ slot'[c][e] = 0 /\ Logged(acct'[c][e], s, Front)
      <4>1. Bound(c, e)' = Front
        BY <3>1, <3>4 DEF Bound
      <4>2. ~Busy(c, e) /\ Below(s, head) /\ Strict(s) /\ head < Front
            /\ head \in Int /\ Front \in Nat /\ head <= Front /\ Front <= Front
        BY <1>0, <3>1, <3>4 DEF Evicted, OnceAt, Bound
      <4> HIDE DEF s, k
      <4>3. Strict(acct'[c][e])
        BY <1>0, <3>4, <4>2, LoggedStrict
      <4>4. Below(acct'[c][e], Front)
        BY <1>0, <3>4, <4>2, LoggedBelow
      <4>5. QED  BY <1>1, <1>2, <4>1, <4>2, <4>3, <4>4 DEF OnceAt, Busy
    <3>5. QED  BY <3>1, <3>2, <3>3, <3>4 DEF Evicted
  <2>3. QED  BY <2>1, <2>2
<1>5. CASE RetirePop
  <2>1. UNCHANGED <<slot, acct>> /\ head' = head + 1 /\ core.pc = "pop" /\ core'.pc = "wait"
    BY <1>5 DEF RetirePop, pop
  <2>2. QED  BY <1>0, <1>3, <2>1 DEF Floor, Visited
<1>6. CASE UNCHANGED <<head, slot, acct>> /\ (Visited(c)' <=> Visited(c))
  BY <1>0, <1>3, <1>6 DEF Floor
<1>7. CASE RetireBegin \/ RetireCheck
  <2>1. UNCHANGED <<head, slot, acct>>
    BY <1>7 DEF RetireBegin, RetireCheck, windowVars, chanVars
  <2>2. RetireBegin => ~Visited(c) /\ ~Visited(c)'
    <3>1. RetireBegin => core.pc = "wait" /\ core'.pc = "evict" /\ core'.ch = 0
      BY DEF RetireBegin
    <3>2. ~(c < 0)
      BY DEF Channels
    <3>3. QED  BY <3>1, <3>2 DEF Visited
  <2>3. RetireCheck => Visited(c) /\ Visited(c)'
    <3>1. RetireCheck => core.pc = "check" /\ core'.pc = "pop"
      BY <1>0 DEF RetireCheck, TypeInv, TypeOK
    <3>2. QED  BY <3>1 DEF Visited
  <2>4. QED  BY <1>6, <1>7, <2>1, <2>2, <2>3
<1>8. CASE \/ UNCHANGED vars \/ (\E shape \in Shapes : PushTimingData(shape))
           \/ UpdatePatternTimeStamp
  <2>1. UNCHANGED <<head, slot, acct, core>>
    BY <1>8 DEF vars, PushTimingData, UpdatePatternTimeStamp, push_back, windowVars, chanVars
  <2>2. QED  BY <1>6, <2>1 DEF Visited
<1>9. QED  BY <1>4, <1>5, <1>7, <1>8 DEF LateStep

LEMMA OnceHolds == TimelySpec => []OnceInv
<1>1. Init => OnceInv
  BY DEF Init, OnceInv, OnceAt, Strict, Below, Working, Idle
<1>2. TimelyCore /\ OnceInv /\ [TimelyNext]_vars => OnceInv'
  BY LateSteps, InputOnce, OtherOnce DEF OnceInv, TimelyCore
<1>3. QED  BY <1>1, <1>2, TimelyHolds, PTL DEF TimelySpec

\* With timeouts in time no pattern is accounted for twice, so that a
\* result's count and missed add up to the pulses averaged.
THEOREM NeverTwice == TimelySpec => []AcctOnce
<1>1. ASSUME TimelyCore, OnceInv
      PROVE  AcctOnce
  <2>1. SUFFICES ASSUME NEW c \in Channels, NEW e \in Edefs,
                        NEW i \in 1 .. Len(acct[c][e]), NEW j \in 1 .. Len(acct[c][e]),
                        acct[c][e][i].pat = acct[c][e][j].pat
                 PROVE  i = j
    BY DEF AcctOnce
  <2> DEFINE s == acct[c][e]
  <2>2. s \in Seq(Entry) /\ Strict(s)
    BY <1>1, TypeFacts DEF TimelyCore, CoreInv, TypeInv, OnceInv, OnceAt
  <2>3. s[i] \in Entry /\ s[j] \in Entry /\ i \in Int /\ j \in Int
    BY <2>2, ElementOfSeq
  <2>4. s[i].pat \in Nat /\ s[j].pat \in Nat
    BY <2>3 DEF Entry
  <2>5. ~(i < j) /\ ~(j < i)
    BY <2>1, <2>2, <2>4 DEF Strict
  <2>6. QED  BY <2>3, <2>5
<1>2. TimelyCore /\ OnceInv => AcctOnce
  BY <1>1
<1>3. QED  BY <1>2, OnceHolds, TimelyHolds, PTL

-----------------------------------------------------------------------------
(* The channels keep their promise of an exact account. *)

\* The last entry of a log in strict order is the latest.
LEMMA LastIsLatest ==
  ASSUME NEW s \in Seq(Entry), Strict(s), NEW n, Has(s, n)
  PROVE  s # <<>> /\ n <= s[Len(s)].pat
<1>1. PICK i \in 1 .. Len(s) : s[i].pat = n
  BY DEF Has
<1>2. Len(s) \in 1 .. Len(s) /\ Len(s) \in Nat /\ i \in Nat
  BY <1>1, LenProperties
<1>3. s[i].pat \in Nat
  <2>1. s[i] \in Entry
    BY <1>1, ElementOfSeq
  <2>2. QED  BY <2>1 DEF Entry
<1>4. i < Len(s) \/ i = Len(s)
  BY <1>1, <1>2
<1>5. i < Len(s) => s[i].pat < s[Len(s)].pat
  BY <1>1, <1>2 DEF Strict
<1>6. s[Len(s)].pat \in Nat
  <2>1. s[Len(s)] \in Entry
    BY <1>2, ElementOfSeq
  <2>2. QED  BY <2>1 DEF Entry
<1>7. Len(s) # 0
  BY <1>1, <1>2
<1>8. QED  BY <1>1, <1>3, <1>4, <1>5, <1>6, <1>7

LEMMA LastDoneFacts ==
  ASSUME TypeInv, NEW c \in Channels, NEW e \in Edefs, Strict(acct[c][e])
  PROVE  /\ Abs!LastDone(c, e) \in Nat
         /\ \A n : Has(acct[c][e], n) => n <= Abs!LastDone(c, e)
         /\ \A k \in Nat : Below(acct[c][e], k) => Abs!LastDone(c, e) <= k
<1> DEFINE s == acct[c][e]
<1>1. s \in Seq(Entry)
  BY TypeFacts DEF TypeInv
<1>2. Abs!LastDone(c, e) = IF s = <<>> THEN 0 ELSE s[Len(s)].pat
  BY DEF Abs!LastDone
<1> HIDE DEF s
<1>3. s # <<>> => Len(s) \in 1 .. Len(s) /\ s[Len(s)] \in Entry
  BY <1>1, EmptySeq, LenProperties, ElementOfSeq
<1>4. s # <<>> => s[Len(s)].pat \in Nat
  BY <1>3 DEF Entry
<1>5. \A k \in Nat : Below(s, k) => Abs!LastDone(c, e) <= k
  BY <1>2, <1>3, <1>4 DEF Below
<1>6. \A n : Has(s, n) => n <= Abs!LastDone(c, e)
  <2>1. Strict(s)
    BY DEF s
  <2>2. QED  BY <1>1, <1>2, <2>1, LastIsLatest
<1>7. QED  BY <1>2, <1>4, <1>5, <1>6 DEF s

\* A pattern with nothing after it and nothing missing before it is the one
\* due next.
LEMMA DueNext ==
  ASSUME TypeInv, NEW c \in Channels, NEW e \in Edefs, NEW n \in 1 .. Len(pats),
         e \in Involved(n), Strict(acct[c][e]), Below(acct[c][e], n - 1), Done(c, e, n - 1)
  PROVE  Abs!Pending(c, e) # {} /\ Abs!Due(c, e) = n
<1> DEFINE l == Abs!LastDone(c, e)   S == Abs!Pending(c, e)
<1>1. l \in Nat /\ l <= n - 1 /\ Len(pats) \in Nat
  BY LastDoneFacts, TypeFacts DEF TypeInv
<1>2. S = {m \in l + 1 .. Len(pats) : e \in Involved(m)}
  BY DEF Abs!Pending, Abs!Involved, Involved
<1>3. n \in S
  BY <1>1, <1>2
<1>4. ASSUME NEW m \in S
      PROVE  n <= m /\ m \in Nat
  <2>1. m \in l + 1 .. Len(pats) /\ e \in Involved(m)
    BY <1>2
  <2>2. CASE m \in 1 .. n - 1
    <3>1. Has(acct[c][e], m)
      BY <2>1, <2>2 DEF Done
    <3>2. m <= l
      BY <3>1, LastDoneFacts
    <3>3. QED  BY <1>1, <2>1, <3>2
  <2>3. QED  BY <1>1, <2>1, <2>2
<1>5. Abs!Due(c, e) = CHOOSE m \in S : \A j \in S : m <= j
  BY DEF Abs!Due
<1> HIDE DEF S
<1>6. \A m \in S : (\A j \in S : m <= j) => m = n
  BY <1>3, <1>4
<1>7. \A j \in S : n <= j
  BY <1>4
<1>8. Abs!Due(c, e) \in S /\ \A j \in S : Abs!Due(c, e) <= j
  <2>1. \E m \in S : \A j \in S : m <= j
    BY <1>3, <1>7
  <2>2. QED  BY <1>5, <2>1
<1>9. Abs!Due(c, e) = n
  BY <1>6, <1>8
<1>10. Abs!Pending(c, e) # {}
  BY <1>3 DEF S
<1>11. QED  BY <1>9, <1>10

\* An accounting step takes the pattern due.
LEMMA InputDue ==
  ASSUME TimelyCore, DoneInv, OnceInv, NEW t \in Threads, InputStep(t),
         NEW c \in Channels, NEW e \in Edefs
  PROVE  \/ acct'[c][e] = acct[c][e]
         \/ /\ Abs!Pending(c, e) # {}
            /\ \E b \in BOOLEAN :
                 acct'[c][e] = Append(acct[c][e], [pat |-> Abs!Due(c, e), item |-> b])
<1> DEFINE n == inp[t].prev   s == acct[c][e]
<1>0. /\ CoreInv /\ TypeInv /\ s \in Seq(Entry) /\ Strict(s)
      /\ \A m \in Window : m \in 1 .. Len(pats) /\ m \in Nat /\ m >= head + 1
      /\ head \in Nat /\ slot[c][e] \in Nat
  <2>1. CoreInv /\ TypeInv
    BY DEF TimelyCore, CoreInv
  <2>2. \A m \in Window : m \in 1 .. Len(pats) /\ m \in Nat /\ m >= head + 1
    BY <2>1, TypeFacts DEF TypeInv, Window
  <2>3. QED  BY <2>1, <2>2, TypeFacts DEF TypeInv, OnceInv, OnceAt
<1>1. Accounts(t, c, e)
  BY <1>0, InputAccounts
<1>2. CASE Same(c, e) \/ Started(t, c, e)
  BY <1>2 DEF Same, Started
<1>3. ASSUME Reached(t, c, e), n \in Window, e \in Involved(n), Below(s, n - 1),
             Logged(acct'[c][e], s, n)
      PROVE  /\ Abs!Pending(c, e) # {}
             /\ \E b \in BOOLEAN : acct'[c][e] = Append(s, [pat |-> Abs!Due(c, e), item |-> b])
  <2>1. Done(c, e, n - 1)
    BY <1>3 DEF DoneInv, DoneAt
  <2>2. Abs!Pending(c, e) # {} /\ Abs!Due(c, e) = n
    BY <1>0, <1>3, <2>1, DueNext
  <2>3. QED  BY <1>3, <2>2 DEF Logged
<1>4. CASE Flushed(t, c, e)
  <2>1. n \in Window /\ n > slot[c][e] /\ e \in Involved(n) /\ ~deferred[c] /\ ~Busy(c, e)
    BY <1>0, <1>4, StepNumbers, LockedOut DEF Flushed
  <2>2. Below(s, n - 1)
    <3>1. Below(s, Bound(c, e)) /\ Bound(c, e) \in Int /\ Bound(c, e) <= n - 1
      BY <2>1, BoundLess DEF OnceInv, OnceAt
    <3>2. n - 1 \in Int
      BY <1>0, <2>1
    <3> HIDE DEF s, n
    <3>3. QED  BY <1>0, <3>1, <3>2, BelowMonotone
  <2>3. Reached(t, c, e) /\ Logged(acct'[c][e], s, n)
    BY <1>4 DEF Flushed, Reached
  <2>4. QED  BY <1>3, <2>1, <2>2, <2>3
<1>5. CASE Caught(t, c, e) \/ Stored(t, c, e)
  <2>1. Working(t, c, e) /\ Logged(acct'[c][e], s, n)
    BY <1>5 DEF Caught, Stored
  <2>2. n \in Window /\ e \in Involved(n) /\ Below(s, n - 1)
    BY <1>0, <2>1, StepNumbers DEF OnceInv, OnceAt
  <2>3. Reached(t, c, e)
    BY <2>1 DEF Working, Reached
  <2>4. QED  BY <1>3, <2>1, <2>2, <2>3
<1>6. QED  BY <1>1, <1>2, <1>4, <1>5 DEF Accounts

LEMMA InputImplements ==
  ASSUME TimelyCore, DoneInv, OnceInv, NEW t \in Threads, InputStep(t)
  PROVE  [Abs!Next]_(Abs!vars)
<1>1. CoreInv /\ TypeInv /\ LockDiscipline /\ UNCHANGED <<pats, head>>
      /\ acct \in [Channels -> [Edefs -> Seq(Entry)]] /\ acct' \in [Channels -> [Edefs -> Seq(Entry)]]
  <2>1. CoreInv /\ TypeInv /\ LockDiscipline /\ [Next]_vars
    BY DEF TimelyCore, CoreInv, InputStep, Next, Other, TimeoutStep, ItemStep
  <2>2. TypeInv'
    BY <2>1, NextTypes
  <2>3. UNCHANGED <<pats, head>>
    BY DEF InputStep, TimeoutBegin, TimeoutLock, TimeoutFlush, TimeoutAdvance, ItemBegin,
           ItemLookup, ItemTimedOut, ItemEdef, ItemCatchUp, ItemStore, ItemDone, ItemPop,
           windowVars
  <2>4. QED  BY <2>1, <2>2, <2>3 DEF TypeInv, TypeOK, Entry
<1>2. PICK ch \in Channels : ch = inp[t].ch
  BY <1>1, ThreadFacts
<1>3. \A c \in Channels \ {ch} : acct'[c] = acct[c]
  BY <1>1, <1>2, InputChannel
<1>4. Abs!Account(ch)
  BY <1>1, <1>3, InputDue DEF Abs!Account
<1>5. QED  BY <1>4 DEF Abs!Next

\* What the eviction looks at for want of a slot's pattern is not the
\* computation's, and comes before what is.
LEMMA UnattendedStrays ==
  ASSUME TimelyCore, DoneInv, OnceInv, Evict, NEW c \in Channels, c = core.ch,
         NEW e \in Unattended(c)
  PROVE  Front \in Abs!Strays(c, e)
<1> DEFINE l == Abs!LastDone(c, e)
<1>1. /\ TypeInv /\ LockDiscipline /\ TimelyInv /\ core.pc = "evict" /\ mtx[c] = Nobody
      /\ e \in Edefs /\ slot[c][e] = 0
  BY DEF TimelyCore, CoreInv, Evict, Unattended, Scanned
<1>2. /\ head \in Nat /\ Front = head + 1 /\ Len(pats) \in Nat /\ Front <= Len(pats)
      /\ acct[c][e] \in Seq(Entry)
  BY <1>1, TypeFacts DEF TypeInv, Retiring, Front
<1>3. e \notin Involved(Front)
  BY <1>1, NothingUnattended
<1>4. Strict(acct[c][e]) /\ Below(acct[c][e], head) /\ Done(c, e, head)
  <2>1. ~Busy(c, e) /\ ~Visited(c)
    BY <1>1, NobodyBusy, EvictVisits
  <2>2. QED  BY <1>1, <2>1 DEF OnceInv, OnceAt, Bound, Floor, DoneInv, DoneAt
<1>5. l \in Nat /\ l <= head /\ \A n : Has(acct[c][e], n) => n <= l
  BY <1>1, <1>2, <1>4, LastDoneFacts
<1>6. ASSUME NEW m \in Abs!Pending(c, e)
      PROVE  Front < m
  <2>1. m \in l + 1 .. Len(pats) /\ e \in Involved(m)
    BY DEF Abs!Pending, Abs!Involved, Involved
  <2>2. m \in 1 .. head => Has(acct[c][e], m)
    BY <1>4, <2>1 DEF Done
  <2>3. m > head
    BY <1>2, <1>5, <2>1, <2>2
  <2>4. m # Front
    BY <1>3, <2>1
  <2>5. QED  BY <1>2, <1>5, <2>1, <2>3, <2>4
<1>7. Front \in l + 1 .. Len(pats)
  BY <1>2, <1>5
<1>8. QED  BY <1>6, <1>7 DEF Abs!Strays

LEMMA OtherImplements ==
  ASSUME TimelyCore, DoneInv, OnceInv, LateStep
  PROVE  [Abs!Next]_(Abs!vars)
<1>0. /\ TypeInv /\ LockDiscipline /\ TimelyInv /\ head \in Nat /\ Len(pats) \in Nat
      /\ pats \in Seq(Pattern) /\ acct \in [Channels -> [Edefs -> Seq(Entry)]]
  BY TypeFacts DEF TimelyCore, CoreInv, TypeInv, TypeOK, Pattern, Entry
<1>1. CASE UNCHANGED <<pats, head, acct>>
  BY <1>1 DEF Abs!vars
<1>2. CASE UNCHANGED vars \/ UpdatePatternTimeStamp \/ RetireBegin \/ RetireCheck
  BY <1>1, <1>2 DEF vars, UpdatePatternTimeStamp, RetireBegin, RetireCheck, windowVars, chanVars
<1>3. CASE \E shape \in Shapes : PushTimingData(shape)
  <2>1. UNCHANGED <<head, acct>> /\ (UNCHANGED pats \/ \E p : pats' = Append(pats, p))
    BY <1>3 DEF PushTimingData, push_back, windowVars, chanVars
  <2>2. CASE UNCHANGED pats
    BY <1>1, <2>1, <2>2
  <2>3. ASSUME NEW p, pats' = Append(pats, p)
        PROVE  Len(pats') = Len(pats) + 1 /\ SubSeq(pats', 1, Len(pats)) = pats
    <3>1. Len(pats') = Len(pats) + 1 /\ \A i \in 1 .. Len(pats) : pats'[i] = pats[i]
      BY <1>0, <2>3, AppendProperties
    <3>2. \A i \in 1 .. Len(pats) : pats'[i] \in Pattern
      BY <1>0, <3>1, ElementOfSeq
    <3>3. SubSeq(pats', 1, Len(pats)) \in Seq(Pattern)
          /\ Len(SubSeq(pats', 1, Len(pats))) = Len(pats)
          /\ \A i \in 1 .. Len(pats) : SubSeq(pats', 1, Len(pats))[i] = pats'[i]
      BY <1>0, <3>2, SubSeqProperties
    <3>4. QED  BY <1>0, <3>1, <3>3, SeqEqual
  <2>4. QED  BY <2>1, <2>2, <2>3 DEF Abs!Next, Abs!Arrive
<1>4. CASE Evict
  <2>1. UNCHANGED <<pats, head>>
    BY <1>4 DEF Evict
  <2>2. PICK c \in Channels :
          /\ c = core.ch
          /\ acct' = [acct EXCEPT ![c] =
               [e \in Edefs |-> IF e \in Unattended(c)
                  THEN Append(acct[c][e], [pat |-> Front, item |-> FALSE])
                  ELSE acct[c][e]]]
    BY <1>0, <1>4 DEF Evict, TypeInv, TypeOK
  <2>3. \A d \in Channels \ {c} : acct'[d] = acct[d]
    BY <1>0, <2>2
  <2>4. ASSUME NEW e \in Edefs
        PROVE  \/ acct'[c][e] = acct[c][e]
               \/ \E n \in Abs!Strays(c, e) :
                    acct'[c][e] = Append(acct[c][e], [pat |-> n, item |-> FALSE])
    <3>1. acct'[c][e] = IF e \in Unattended(c)
                          THEN Append(acct[c][e], [pat |-> Front, item |-> FALSE])
                          ELSE acct[c][e]
      BY <1>0, <2>2
    <3>2. e \in Unattended(c) => Front \in Abs!Strays(c, e)
      BY <1>4, <2>2, UnattendedStrays
    <3>3. QED  BY <3>1, <3>2
  <2>5. Abs!Account(c)
    BY <2>1, <2>3, <2>4 DEF Abs!Account
  <2>6. QED  BY <2>5 DEF Abs!Next
<1>5. CASE RetirePop
  <2>1. head' = head + 1 /\ UNCHANGED <<pats, acct>> /\ core.pc = "pop"
    BY <1>5 DEF RetirePop, pop
  <2>2. head + 1 \in 1 .. Len(pats)
    BY <1>0, <2>1 DEF TypeInv, Retiring
  <2>3. ASSUME NEW c \in Channels, NEW e \in Abs!Involved(head + 1)
        PROVE  Abs!LastDone(c, e) > head
    <3>1. e \in Edefs /\ e \in Involved(head + 1)
      <4>1. pats[head + 1] \in Pattern
        BY <1>0, <2>2, ElementOfSeq
      <4>2. QED  BY <4>1 DEF Pattern, Involved, Abs!Involved
    <3>2. Has(acct[c][e], head + 1)
      <4>1. Done(c, e, head + 1)
        BY <2>1, <3>1 DEF DoneInv, DoneAt, Visited
      <4>2. head + 1 \in 1 .. head + 1
        BY <1>0
      <4>3. QED  BY <3>1, <4>1, <4>2 DEF Done
    <3>3. Strict(acct[c][e])
      BY <3>1 DEF OnceInv, OnceAt
    <3>4. Abs!LastDone(c, e) \in Nat /\ head + 1 <= Abs!LastDone(c, e)
      BY <1>0, <3>1, <3>2, <3>3, LastDoneFacts
    <3>5. QED  BY <1>0, <3>4
  <2>4. Abs!Forget
    BY <1>0, <2>1, <2>2, <2>3 DEF Abs!Forget
  <2>5. QED  BY <2>4 DEF Abs!Next
<1>6. QED  BY <1>2, <1>3, <1>4, <1>5 DEF LateStep

\* The threads that meet at the channels implement the channels' promise:
\* for each edef every pattern that involves it, in order, exactly once, with
\* the others evict looks at in their turn, before the pattern is forgotten.
THEOREM AccountIsExact == Narrow => (TimelySpec => ExactAccount)
<1>1. Init => Abs!Init
  BY DEF Init, Abs!Init
<1>2. ASSUME TimelyCore, DoneInv, OnceInv, [TimelyNext]_vars
      PROVE  [Abs!Next]_(Abs!vars)
  BY <1>2, LateSteps, InputImplements, OtherImplements
<1>3. QED
  BY <1>1, <1>2, TimelyHolds, TimelyIsSpec, DoneHolds, OnceHolds, PTL
  DEF TimelySpec, ExactAccount, Abs!Spec
=============================================================================
