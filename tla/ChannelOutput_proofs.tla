------------------------ MODULE ChannelOutput_proofs ------------------------
(***************************************************************************)
(* Proofs about ChannelOutput and its pool (FreeList), for any number of   *)
(* edefs, sinks and buffers: a result buffer is freed exactly once, by     *)
(* whoever lets go of it last, users' pointers are good until they are     *)
(* released, and sinks get no more results than they asked for.            *)
(***************************************************************************)
EXTENDS ChannelOutput, FunctionTheorems, FiniteSetTheorems, SequenceTheorems, TLAPS

-----------------------------------------------------------------------------
(* The pool. *)

\* Sizes of sets that are given by a function without repetitions.
LEMMA ImageSize ==
  ASSUME NEW S, NEW f, IsFiniteSet(S), DOMAIN f = S, f \in [S -> {f[x] : x \in S}],
         \A x, y \in S : f[x] = f[y] => x = y
  PROVE  /\ IsFiniteSet({f[x] : x \in S})
         /\ Cardinality({f[x] : x \in S}) = Cardinality(S)
<1>1. f \in Bijection(S, {f[x] : x \in S})
  BY Fun_IsBij
<1>2. ExistsBijection(S, {f[x] : x \in S})
  BY <1>1 DEF ExistsBijection
<1>3. QED  BY <1>2, FS_Bijection

\* So many different members that nothing else is left.
LEMMA ImageIsAll ==
  ASSUME NEW S, NEW n \in Nat, NEW f \in [S -> 1 .. n], IsFiniteSet(S), Cardinality(S) = n,
         \A x, y \in S : f[x] = f[y] => x = y
  PROVE  {f[x] : x \in S} = 1 .. n
<1> DEFINE T == {f[x] : x \in S}
<1>1. f \in [S -> T] /\ T \subseteq 1 .. n
  OBVIOUS
<1>2. Cardinality(T) = n
  BY <1>1, ImageSize
<1>3. IsFiniteSet(1 .. n) /\ Cardinality(1 .. n) = n
  BY FS_Interval
<1>4. QED  BY <1>1, <1>2, <1>3, FS_Subset

\* Blocks on the list are blocks obtained before, and each is there once.
ListOK ==
  /\ numBlks \in 0 .. MaxBlks
  /\ lst \in Seq(Blocks)
  /\ defDest \in BOOLEAN /\ gone \in BOOLEAN
  /\ \A i \in DOMAIN lst : lst[i] \in 1 .. numBlks
  /\ IsInjective(lst)

PoolInv == ListOK /\ (gone => Allocated = {})

\* All blocks are on the list when it is as long as blocks are many: the
\* test that destroy() and free() make.
LEMMA AllFree ==
  ASSUME ListOK, Len(lst) = numBlks
  PROVE  Allocated = {}
<1>1. numBlks \in Nat /\ DOMAIN lst = 1 .. numBlks /\ lst \in [1 .. numBlks -> 1 .. numBlks]
  BY PoolAssumption DEF ListOK
<1>2. \A i, j \in 1 .. numBlks : lst[i] = lst[j] => i = j
  BY <1>1 DEF ListOK, IsInjective
<1>3. IsFiniteSet(1 .. numBlks) /\ Cardinality(1 .. numBlks) = numBlks
  BY <1>1, FS_Interval
<1>4. {lst[i] : i \in 1 .. numBlks} = 1 .. numBlks
  BY <1>1, <1>2, <1>3, ImageIsAll
<1>5. QED  BY <1>1, <1>4 DEF Allocated

LEMMA AllocPool ==
  ASSUME PoolInv, ~gone, NEW b, Alloc(b)
  PROVE  /\ PoolInv' /\ b \in Blocks /\ b \notin Allocated
         /\ Allocated' = Allocated \cup {b}
<1>1. /\ numBlks \in 0 .. MaxBlks /\ MaxBlks \in Nat /\ lst \in Seq(Blocks)
      /\ \A i \in DOMAIN lst : lst[i] \in 1 .. numBlks
      /\ \A i, j \in DOMAIN lst : lst[i] = lst[j] => i = j
  BY PoolAssumption DEF PoolInv, ListOK, IsInjective
<1>2. gone' = FALSE /\ defDest' = defDest
  BY DEF Alloc, PoolInv, ListOK
<1>3. CASE lst # <<>>
  <2>1. b = Head(lst) /\ lst' = Tail(lst) /\ numBlks' = numBlks
    BY <1>3 DEF Alloc
  <2>2. /\ lst' \in Seq(Blocks) /\ Len(lst') = Len(lst) - 1 /\ Len(lst) \in Nat
        /\ \A i \in 1 .. Len(lst') : lst'[i] = lst[i + 1]
        /\ b = lst[1]
    BY <1>1, <1>3, <2>1, HeadTailProperties
  <2>3. /\ DOMAIN lst = 1 .. Len(lst) /\ DOMAIN lst' = 1 .. Len(lst) - 1
        /\ Len(lst) >= 1
    BY <1>1, <1>3, <2>2
  <2>4. \A i \in DOMAIN lst' : i + 1 \in DOMAIN lst /\ lst'[i] = lst[i + 1] /\ i + 1 # 1
    BY <2>2, <2>3
  <2>5. ListOK'
    <3>1. \A i \in DOMAIN lst' : lst'[i] \in 1 .. numBlks
      BY <1>1, <2>4
    <3>2. \A i, j \in DOMAIN lst' : lst'[i] = lst'[j] => i = j
      <4>1. \A i, j \in DOMAIN lst' : lst'[i] = lst'[j] => i + 1 = j + 1
        BY <1>1, <2>4
      <4>2. \A i \in DOMAIN lst' : i \in Nat
        BY <2>2, <2>3
      <4>3. QED  BY <4>1, <4>2
    <3>3. QED  BY <1>2, <2>1, <2>2, <3>1, <3>2 DEF PoolInv, ListOK, IsInjective
  <2>6. b \in 1 .. numBlks /\ b \in {lst[i] : i \in DOMAIN lst}
    BY <1>1, <2>2, <2>3
  <2>7. {lst[i] : i \in DOMAIN lst} = {lst'[i] : i \in DOMAIN lst'} \cup {b}
    <3>1. \A i \in DOMAIN lst : i = 1 \/ (i - 1 \in DOMAIN lst' /\ lst'[i - 1] = lst[i])
      BY <2>2, <2>3
    <3>2. QED  BY <2>2, <2>4, <2>6, <3>1
  <2>8. b \notin {lst'[i] : i \in DOMAIN lst'}
    BY <1>1, <2>2, <2>3, <2>4
  <2>9. b \in Blocks /\ b \notin Allocated /\ Allocated' = Allocated \cup {b}
    <3> DEFINE R == {lst[i] : i \in DOMAIN lst}
               Rest == {lst'[i] : i \in DOMAIN lst'}
    <3>1. Allocated = (1 .. numBlks) \ R /\ Allocated' = (1 .. numBlks) \ Rest
      BY <2>1 DEF Allocated
    <3>2. b \in R /\ R = Rest \cup {b} /\ b \notin Rest /\ b \in 1 .. numBlks
      BY <2>6, <2>7, <2>8
    <3>3. b \in Blocks
      BY <1>1, <3>2 DEF Blocks
    <3> HIDE DEF R, Rest
    <3>4. QED  BY <3>1, <3>2, <3>3
  <2>10. QED  BY <1>2, <2>5, <2>9 DEF PoolInv
<1>4. CASE lst = <<>>
  <2>1. b = numBlks + 1 /\ numBlks' = b /\ lst' = lst /\ numBlks < MaxBlks
    BY <1>4 DEF Alloc
  <2>2. DOMAIN lst = {}
    BY <1>4
  <2>3. ListOK'
    <3>1. numBlks' \in 0 .. MaxBlks
      BY <1>1, <2>1
    <3>2. DOMAIN lst' = {}
      BY <2>1, <2>2
    <3>3. IsInjective(lst') /\ \A i \in DOMAIN lst' : lst'[i] \in 1 .. numBlks'
      BY <3>2 DEF IsInjective
    <3>4. QED  BY <1>1, <1>2, <2>1, <3>1, <3>3 DEF PoolInv, ListOK
  <2>4. Allocated = 1 .. numBlks /\ Allocated' = 1 .. numBlks + 1
    BY <2>1, <2>2 DEF Allocated
  <2>5. QED  BY <1>1, <1>2, <2>1, <2>3, <2>4 DEF PoolInv, Blocks
<1>5. QED  BY <1>3, <1>4

LEMMA FreePool ==
  ASSUME PoolInv, NEW b \in Allocated, Free(b)
  PROVE  PoolInv' /\ Allocated' = Allocated \ {b}
<1>1. /\ numBlks \in 0 .. MaxBlks /\ MaxBlks \in Nat /\ lst \in Seq(Blocks)
      /\ \A i \in DOMAIN lst : lst[i] \in 1 .. numBlks
      /\ \A i, j \in DOMAIN lst : lst[i] = lst[j] => i = j
  BY PoolAssumption DEF PoolInv, ListOK, IsInjective
<1>2. /\ lst' = <<b>> \o lst /\ numBlks' = numBlks /\ defDest' = defDest
      /\ gone' = (gone \/ (defDest /\ Len(lst') = numBlks)) /\ ~gone
  BY DEF Free, PoolInv
<1>3. b \in 1 .. numBlks /\ b \in Blocks /\ \A i \in DOMAIN lst : lst[i] # b
  BY <1>1 DEF Allocated, Blocks
<1>4. /\ lst' \in Seq(Blocks) /\ Len(lst) \in Nat /\ Len(lst') = Len(lst) + 1
      /\ \A i \in 1 .. Len(lst') : lst'[i] = IF i = 1 THEN b ELSE lst[i - 1]
  <2>1. <<b>> \in Seq(Blocks) /\ Len(<<b>>) = 1 /\ <<b>>[1] = b
    BY <1>3
  <2>2. QED  BY <1>1, <1>2, <2>1, ConcatProperties
<1>5. DOMAIN lst = 1 .. Len(lst) /\ DOMAIN lst' = 1 .. Len(lst) + 1
  BY <1>1, <1>4
<1>6. \A i \in DOMAIN lst' : \/ i = 1 /\ lst'[i] = b
                             \/ i - 1 \in DOMAIN lst /\ lst'[i] = lst[i - 1] /\ i # 1
  BY <1>4, <1>5
<1>7. ListOK'
  <2>1. \A i \in DOMAIN lst' : lst'[i] \in 1 .. numBlks
    BY <1>1, <1>3, <1>6
  <2>2. \A i, j \in DOMAIN lst' : lst'[i] = lst'[j] => i = j
    <3>1. \A i \in DOMAIN lst' : i \in Nat
      BY <1>4, <1>5
    <3>2. \A i, j \in DOMAIN lst' : lst'[i] = lst'[j] => i = j \/ i - 1 = j - 1
      BY <1>1, <1>3, <1>6
    <3>3. QED  BY <3>1, <3>2
  <2>3. gone' \in BOOLEAN /\ defDest' \in BOOLEAN
    BY <1>2 DEF PoolInv, ListOK
  <2>4. QED  BY <1>1, <1>2, <1>4, <2>1, <2>2, <2>3 DEF ListOK, IsInjective
<1>8. Allocated' = Allocated \ {b}
  <2>1. {lst'[i] : i \in DOMAIN lst'} = {lst[i] : i \in DOMAIN lst} \cup {b}
    <3>1. \A i \in DOMAIN lst : i + 1 \in DOMAIN lst' /\ lst'[i + 1] = lst[i]
      BY <1>4, <1>5
    <3>2. 1 \in DOMAIN lst' /\ lst'[1] = b
      BY <1>4, <1>5
    <3>3. QED  BY <1>6, <3>1, <3>2
  <2>2. QED  BY <1>2, <2>1 DEF Allocated
<1>9. gone' => Allocated' = {}
  <2>1. (ListOK /\ Len(lst) = numBlks => Allocated = {})'
    <3>1. ListOK /\ Len(lst) = numBlks => Allocated = {}
      BY AllFree
    <3>2. QED  BY AllFree, PTL
  <2>2. QED  BY <1>2, <1>7, <2>1
<1>10. QED  BY <1>7, <1>8, <1>9 DEF PoolInv

LEMMA DestroyPoolInv ==
  ASSUME PoolInv, Destroy
  PROVE  PoolInv' /\ Allocated' = Allocated
<1>1. Allocated' = Allocated
  BY DEF Destroy, Allocated
<1>2. ListOK'
  BY DEF Destroy, PoolInv, ListOK
<1>3. gone' => Allocated = {}
  <2>1. CASE Len(lst) = numBlks
    BY <2>1, AllFree DEF PoolInv
  <2>2. CASE Len(lst) # numBlks
    BY <2>2 DEF PoolInv, Destroy
  <2>3. QED  BY <2>1, <2>2
<1>4. QED  BY <1>1, <1>2, <1>3 DEF PoolInv

-----------------------------------------------------------------------------
(* The sinks, which only addSink and delSink change. *)

\* The limit of an edef is no larger than what any of its sinks asked for, and
\* the edef is marked as in use while it has sinks.
SinkInv ==
  /\ callbacks \in [Edefs -> Seq([sink : Sinks, asked : 0 .. ResultsMax])]
  /\ maxResults \in [Edefs -> 1 .. ResultsMax]
  /\ inUse \subseteq Edefs
  /\ \A e \in Edefs :
       /\ e \in inUse <=> callbacks[e] # <<>>
       /\ \A i \in DOMAIN callbacks[e] :
            callbacks[e][i].asked = 0 \/ maxResults[e] <= callbacks[e][i].asked

Entry == [sink : Sinks, asked : 0 .. ResultsMax]

LEMMA AddSinkInv ==
  ASSUME SinkInv, NEW s \in Sinks, NEW e \in Edefs, NEW m \in 0 .. ResultsMax, addSink(s, e, m)
  PROVE  SinkInv'
<1> DEFINE new == [sink |-> s, asked |-> m]
           q == callbacks[e]
<1>1. /\ callbacks \in [Edefs -> Seq(Entry)] /\ q \in Seq(Entry) /\ new \in Entry
      /\ maxResults \in [Edefs -> 1 .. ResultsMax] /\ ResultsMax \in Nat \ {0}
  BY OutputAssumption DEF SinkInv, Entry
<1>2. /\ callbacks' = [callbacks EXCEPT ![e] = Append(q, new)]
      /\ maxResults' = [maxResults EXCEPT ![e] = Asked(m, e)]
      /\ inUse' = inUse \cup {e}
  BY DEF addSink
<1>3. /\ Limit(e) \in 1 .. ResultsMax
      /\ e \in inUse => Limit(e) = maxResults[e]
  BY <1>1 DEF Limit
<1>4. /\ Asked(m, e) \in 1 .. ResultsMax /\ Asked(m, e) <= Limit(e)
      /\ m = 0 \/ Asked(m, e) <= m
  BY <1>1, <1>3 DEF Asked
<1>5. /\ Append(q, new) \in Seq(Entry) /\ Append(q, new) # <<>>
      /\ DOMAIN Append(q, new) = DOMAIN q \cup {Len(q) + 1}
      /\ Append(q, new)[Len(q) + 1] = new
      /\ \A i \in DOMAIN q : Append(q, new)[i] = q[i] /\ q[i] \in Entry
  <2>1. /\ Append(q, new) \in Seq(Entry) /\ Append(q, new) # <<>>
        /\ Len(Append(q, new)) = Len(q) + 1 /\ Len(q) \in Nat
        /\ \A i \in 1 .. Len(q) : Append(q, new)[i] = q[i]
        /\ Append(q, new)[Len(q) + 1] = new
    BY <1>1, AppendProperties
  <2>2. DOMAIN q = 1 .. Len(q) /\ DOMAIN Append(q, new) = 1 .. Len(q) + 1
    BY <1>1, <2>1
  <2>3. \A i \in DOMAIN q : q[i] \in Entry
    BY <1>1
  <2>4. QED  BY <2>1, <2>2, <2>3
<1>6. \A i \in DOMAIN Append(q, new) :
        Append(q, new)[i].asked = 0 \/ Asked(m, e) <= Append(q, new)[i].asked
  <2>1. ASSUME NEW i \in DOMAIN q
        PROVE  q[i].asked = 0 \/ Asked(m, e) <= q[i].asked
    <3>1. e \in inUse
      <4>1. q # <<>>
        BY <1>1, <2>1
      <4>2. QED  BY <4>1 DEF SinkInv
    <3>2. q[i].asked = 0 \/ maxResults[e] <= q[i].asked
      BY <2>1 DEF SinkInv
    <3>3. q[i].asked \in Nat /\ maxResults[e] \in Nat
      BY <1>1, <1>5, <2>1 DEF Entry
    <3>4. QED  BY <1>3, <1>4, <3>1, <3>2, <3>3
  <2>2. new.asked = 0 \/ Asked(m, e) <= new.asked
    BY <1>4
  <2>3. QED  BY <1>5, <2>1, <2>2
<1>7. /\ callbacks' \in [Edefs -> Seq(Entry)] /\ maxResults' \in [Edefs -> 1 .. ResultsMax]
      /\ inUse' \subseteq Edefs
  BY <1>1, <1>2, <1>4, <1>5 DEF SinkInv
<1>8. ASSUME NEW f \in Edefs
      PROVE  /\ f \in inUse' <=> callbacks'[f] # <<>>
             /\ \A i \in DOMAIN callbacks'[f] :
                  callbacks'[f][i].asked = 0 \/ maxResults'[f] <= callbacks'[f][i].asked
  <2>1. CASE f = e
    <3>1. callbacks'[f] = Append(q, new) /\ maxResults'[f] = Asked(m, e)
      BY <1>1, <1>2, <2>1
    <3>2. QED  BY <1>2, <1>5, <1>6, <2>1, <3>1
  <2>2. CASE f # e
    <3>1. callbacks'[f] = callbacks[f] /\ maxResults'[f] = maxResults[f]
      BY <1>1, <1>2, <2>2
    <3>2. QED  BY <1>2, <2>2, <3>1 DEF SinkInv
  <2>3. QED  BY <2>1, <2>2
<1>9. QED  BY <1>7, <1>8 DEF SinkInv, Entry

\* Erasing an entry leaves some of the others.
LEMMA Removed ==
  ASSUME NEW S, NEW q \in Seq(S), NEW i \in DOMAIN q
  PROVE  /\ RemoveAt(q, i) \in Seq(S)
         /\ \A k \in DOMAIN RemoveAt(q, i) : \E j \in DOMAIN q : RemoveAt(q, i)[k] = q[j]
<1> DEFINE a == SubSeq(q, 1, i - 1)
           z == SubSeq(q, i + 1, Len(q))
<1>1. i \in Nat /\ i >= 1 /\ Len(q) \in Nat /\ i <= Len(q)
  OBVIOUS
<1>2. a \in Seq(S) /\ Len(a) = i - 1 /\ \A k \in 1 .. Len(a) : a[k] = q[k]
  BY <1>1
<1>3. /\ z \in Seq(S) /\ Len(z) = Len(q) - i
      /\ \A k \in 1 .. Len(z) : z[k] = q[k + i]
  BY <1>1
<1> HIDE DEF a, z
<1>4. /\ a \o z \in Seq(S) /\ Len(a \o z) = Len(a) + Len(z)
      /\ \A k \in 1 .. Len(a) + Len(z) : (a \o z)[k] = IF k <= Len(a) THEN a[k] ELSE z[k - Len(a)]
  BY <1>2, <1>3, ConcatProperties
<1>5. ASSUME NEW k \in DOMAIN (a \o z)
      PROVE  \E j \in DOMAIN q : (a \o z)[k] = q[j]
  <2>1. k \in 1 .. Len(a) + Len(z)
    BY <1>4
  <2>2. CASE k <= Len(a)
    <3>1. k \in DOMAIN q /\ (a \o z)[k] = q[k]
      BY <1>1, <1>2, <1>4, <2>1, <2>2
    <3>2. QED  BY <3>1
  <2>3. CASE ~(k <= Len(a))
    <3>1. k - Len(a) \in 1 .. Len(z)
      BY <1>1, <1>2, <1>3, <2>1, <2>3
    <3>2. (a \o z)[k] = z[k - Len(a)]
      BY <1>4, <2>1, <2>3
    <3>3. z[k - Len(a)] = q[(k - Len(a)) + i]
      BY <1>3, <3>1
    <3>4. (k - Len(a)) + i \in 1 .. Len(q)
      BY <1>1, <1>2, <1>3, <3>1
    <3>5. QED  BY <3>2, <3>3, <3>4
  <2>4. QED  BY <2>2, <2>3
<1>6. RemoveAt(q, i) = a \o z
  BY DEF RemoveAt, a, z
<1>7. QED  BY <1>4, <1>5, <1>6

LEMMA DelSinkInv ==
  ASSUME SinkInv, NEW s \in Sinks, NEW e \in Edefs, delSink(s, e)
  PROVE  SinkInv'
<1>1. /\ callbacks \in [Edefs -> Seq(Entry)] /\ callbacks[e] \in Seq(Entry)
      /\ maxResults \in [Edefs -> 1 .. ResultsMax] /\ ResultsMax \in Nat \ {0}
      /\ e \in inUse
  BY OutputAssumption DEF SinkInv, Entry, delSink
<1>2. PICK i \in DOMAIN callbacks[e] : callbacks' = [callbacks EXCEPT ![e] = RemoveAt(callbacks[e], i)]
  BY DEF delSink
<1>3. PICK q : q = RemoveAt(callbacks[e], i)
  OBVIOUS
<1>4. /\ q \in Seq(Entry)
      /\ \A k \in DOMAIN q : \E j \in DOMAIN callbacks[e] : q[k] = callbacks[e][j]
  BY <1>1, <1>3, Removed
<1>5. callbacks'[e] = q /\ \A f \in Edefs : f # e => callbacks'[f] = callbacks[f]
  BY <1>1, <1>2, <1>3
<1>6. IF q = <<>>
        THEN maxResults' = [maxResults EXCEPT ![e] = ResultsMax] /\ inUse' = inUse \ {e}
        ELSE maxResults' = maxResults /\ inUse' = inUse
  BY <1>5 DEF delSink
<1>7. /\ callbacks' \in [Edefs -> Seq(Entry)] /\ maxResults' \in [Edefs -> 1 .. ResultsMax]
      /\ inUse' \subseteq Edefs
  <2>1. callbacks' \in [Edefs -> Seq(Entry)]
    BY <1>1, <1>2, <1>3, <1>4
  <2>2. maxResults' \in [Edefs -> 1 .. ResultsMax]
    <3>1. ResultsMax \in 1 .. ResultsMax
      BY <1>1
    <3>2. QED  BY <1>1, <1>6, <3>1
  <2>3. inUse' \subseteq Edefs
    BY <1>6 DEF SinkInv
  <2>4. QED  BY <2>1, <2>2, <2>3
<1>8. ASSUME NEW f \in Edefs
      PROVE  /\ f \in inUse' <=> callbacks'[f] # <<>>
             /\ \A k \in DOMAIN callbacks'[f] :
                  callbacks'[f][k].asked = 0 \/ maxResults'[f] <= callbacks'[f][k].asked
  <2>1. CASE f # e
    <3>1. maxResults'[f] = maxResults[f] /\ (f \in inUse' <=> f \in inUse)
      BY <1>1, <1>6, <2>1
    <3>2. QED  BY <1>5, <2>1, <3>1 DEF SinkInv
  <2>2. CASE f = e /\ q = <<>>
    BY <1>5, <1>6, <2>2
  <2>3. CASE f = e /\ q # <<>>
    <3>1. maxResults'[e] = maxResults[e] /\ e \in inUse'
      BY <1>1, <1>6, <2>3
    <3>2. \A k \in DOMAIN q : q[k].asked = 0 \/ maxResults[e] <= q[k].asked
      BY <1>4 DEF SinkInv
    <3>3. QED  BY <1>5, <2>3, <3>1, <3>2
  <2>4. QED  BY <2>1, <2>2, <2>3
<1>9. QED  BY <1>7, <1>8 DEF SinkInv, Entry

\* Nobody else touches the sinks.
LEMMA OtherSteps ==
  ASSUME [Next]_vars
  PROVE  \/ UNCHANGED sinkVars
         \/ \E s \in Sinks, e \in Edefs :
              \/ delSink(s, e)
              \/ \E m \in 0 .. ResultsMax : addSink(s, e, m)
BY DEF Next, InputStep, OutputStep, UserStep, ExitStep, Push, Swap, Take, Deliver, Delivered,
       DropBuf, Pop, Release, ResetSelf, DestroyPool, StopOutput, DestroyOutput, StopInput,
       DestroySlot, vars

LEMMA SinkSteps ==
  ASSUME SinkInv, [Next]_vars
  PROVE  SinkInv'
<1>1. CASE UNCHANGED sinkVars
  BY <1>1 DEF SinkInv, sinkVars
<1>2. QED  BY <1>1, OtherSteps, AddSinkInv, DelSinkInv

LEMMA InitSinks == Init => SinkInv
BY OutputAssumption DEF Init, SinkInv

-----------------------------------------------------------------------------
(* The buffers. *)

Places == Blocks \cup {0}

FlowTypes ==
  /\ work \in [Edefs -> Places]
  /\ pushing \in Places
  /\ queue \in Seq(Places) /\ Len(queue) <= Capacity
  /\ out \in [pc : {"wait", "deliver", "release", "drop", "pop", "stopped"},
              buf : Places, num : 0 .. ResultsMax, it : Nat]
  /\ item \in [Blocks -> [edef : Edefs, num : 0 .. ResultsMax]]
  /\ self \subseteq Blocks
  /\ refc \in [Blocks -> Nat]
  /\ held \in [Blocks -> Nat]
  /\ resetting \subseteq Blocks

\* The output thread has taken a buffer out of the ring; it still has to pop
\* the ring's element.
Serving == out.pc \in {"deliver", "release", "drop"}
Popping == Serving \/ out.pc = "pop"

\* Where there is a buffer: in every slot until the slots are destroyed, in
\* the ring but for an element that is being served, and with the thread
\* that serves it.
Shape ==
  /\ exit # "inStopped" => \A e \in Edefs : work[e] # 0
  /\ exit \notin {"run", "pool"} => out.pc = "stopped"
  /\ Popping => queue # <<>>
  /\ \A i \in DOMAIN queue : queue[i] = 0 <=> i = 1 /\ Popping
  /\ out.buf # 0 <=> Serving

\* A buffer that no sink has seen yet is in one place only.
Distinct ==
  /\ \A e \in Edefs : work[e] # 0 =>
       /\ work[e] # pushing /\ work[e] \notin self
       /\ \A f \in Edefs : work[f] = work[e] => f = e
       /\ \A i \in DOMAIN queue : queue[i] # work[e]
  /\ pushing # 0 => pushing \notin self /\ \A i \in DOMAIN queue : queue[i] # pushing
  /\ \A i \in DOMAIN queue : queue[i] # 0 =>
       /\ queue[i] \notin self
       /\ \A j \in DOMAIN queue : queue[j] = queue[i] => j = i

\* Whoever is to reset self_ found the count at its end.
Counts == CountExact /\ \A b \in resetting : refc[b] = 0

Memory == PoolInv /\ Allocated = Owners \ {0}

OutInv == FlowTypes /\ Shape /\ Distinct /\ Counts /\ Memory

LEMMA NoNull == 0 \notin Blocks
BY DEF Blocks

\* Owners, place by place.
LEMMA OwnerIs ==
  ASSUME NEW b
  PROVE  b \in Owners <=> \/ \E e \in Edefs : work[e] = b
                          \/ pushing = b
                          \/ \E i \in DOMAIN queue : queue[i] = b
                          \/ out.buf = b
                          \/ b \in self
BY DEF Owners, ToSet

LEMMA OwnerNext ==
  ASSUME NEW b
  PROVE  b \in Owners' <=> \/ \E e \in Edefs : work'[e] = b
                           \/ pushing' = b
                           \/ \E i \in DOMAIN queue' : queue'[i] = b
                           \/ out'.buf = b
                           \/ b \in self'
BY DEF Owners, ToSet

\* The pool stays exact when pointers only move, when one is dropped, and
\* when one to a new block appears.
LEMMA MemoryKept ==
  ASSUME Memory, UNCHANGED poolVars, \A b \in Blocks : b \in Owners' <=> b \in Owners,
         Owners' \subseteq Places
  PROVE  Memory'
<1>1. PoolInv' /\ Allocated' = Allocated
  BY DEF Memory, PoolInv, ListOK, Allocated, poolVars
<1>2. Allocated \subseteq Blocks
  BY PoolAssumption DEF Memory, PoolInv, ListOK, Allocated, Blocks
<1>3. Allocated = Owners \ {0}
  BY DEF Memory
<1>4. \A b : b \in Allocated <=> b \in Owners' /\ b # 0
  BY <1>2, <1>3, NoNull DEF Places
<1>5. QED  BY <1>1, <1>4 DEF Memory

LEMMA MemoryDropped ==
  ASSUME Memory, NEW b \in Blocks, b \in Owners, Dropped(b),
         \A a \in Blocks : a # b => (a \in Owners' <=> a \in Owners),
         Owners' \subseteq Places
  PROVE  Memory'
<1>1. CASE b \in Owners'
  BY <1>1, MemoryKept DEF Dropped
<1>2. CASE b \notin Owners'
  <2>1. Free(b) /\ b \in Allocated
    BY <1>2, NoNull DEF Dropped, Memory
  <2>2. PoolInv' /\ Allocated' = Allocated \ {b}
    BY <2>1, FreePool DEF Memory
  <2>3. Allocated \subseteq Blocks
    BY PoolAssumption DEF Memory, PoolInv, ListOK, Allocated, Blocks
  <2>4. Allocated = Owners \ {0}
    BY DEF Memory
  <2>5. \A a : a \in Allocated' <=> a \in Owners' /\ a # 0
    BY <1>2, <2>2, <2>3, <2>4, NoNull DEF Places
  <2>6. QED  BY <2>2, <2>5 DEF Memory
<1>3. QED  BY <1>1, <1>2

LEMMA MemoryNew ==
  ASSUME Memory, ~gone, NEW b, Alloc(b),
         \A a \in Blocks : a # b => (a \in Owners' <=> a \in Owners), b \in Owners',
         Owners' \subseteq Places
  PROVE  Memory'
<1>1. PoolInv' /\ b \in Blocks /\ Allocated' = Allocated \cup {b}
  BY AllocPool DEF Memory
<1>2. Allocated \subseteq Blocks
  BY PoolAssumption DEF Memory, PoolInv, ListOK, Allocated, Blocks
<1>3. Allocated = Owners \ {0}
  BY DEF Memory
<1>4. \A a : a \in Allocated' <=> a \in Owners' /\ a # 0
  BY <1>1, <1>2, <1>3, NoNull DEF Places
<1>5. QED  BY <1>1, <1>4 DEF Memory

\* No pointer leads out of the pool.
LEMMA OwnersPlaces ==
  ASSUME FlowTypes
  PROVE  Owners \subseteq Places
<1>1. \A i \in DOMAIN queue : queue[i] \in Places
  BY DEF FlowTypes
<1>2. QED  BY <1>1, OwnerIs DEF FlowTypes, Places

LEMMA OwnersPlacesAll == FlowTypes => Owners \subseteq Places
BY OwnersPlaces

LEMMA OwnersPlacesNext == FlowTypes' => Owners' \subseteq Places
<1>1. (FlowTypes => Owners \subseteq Places)'
  BY OwnersPlacesAll, PTL
<1>2. QED  BY <1>1 DEF Places, Blocks

\* The elements of a ring that moves on by one.
LEMMA TailIs ==
  ASSUME NEW S, NEW q \in Seq(S), q # <<>>
  PROVE  /\ Tail(q) \in Seq(S) /\ Len(Tail(q)) = Len(q) - 1 /\ Head(q) = q[1]
         /\ Len(q) \in Nat /\ 1 \in DOMAIN q
         /\ \A i : i \in DOMAIN Tail(q) => i \in Nat \ {0} /\ i + 1 \in DOMAIN q /\ Tail(q)[i] = q[i + 1]
         /\ \A i : i \in DOMAIN q /\ i # 1 => i - 1 \in DOMAIN Tail(q) /\ Tail(q)[i - 1] = q[i]
<1>1. /\ Tail(q) \in Seq(S) /\ Len(Tail(q)) = Len(q) - 1 /\ Len(q) \in Nat /\ Len(q) >= 1
      /\ \A i \in 1 .. Len(Tail(q)) : Tail(q)[i] = q[i + 1]
  BY HeadTailProperties
<1>2. DOMAIN q = 1 .. Len(q) /\ DOMAIN Tail(q) = 1 .. Len(q) - 1
  BY <1>1
<1>3. QED  BY <1>1, <1>2

\* The front of the ring is taken, its place is not.
LEMMA TakenIs ==
  ASSUME NEW q \in Seq(Places), q # <<>>
  PROVE  /\ <<0>> \o Tail(q) \in Seq(Places) /\ Len(<<0>> \o Tail(q)) = Len(q)
         /\ <<0>> \o Tail(q) # <<>>
         /\ DOMAIN (<<0>> \o Tail(q)) = DOMAIN q /\ 1 \in DOMAIN q /\ Head(q) = q[1]
         /\ \A i \in DOMAIN q : (<<0>> \o Tail(q))[i] = IF i = 1 THEN 0 ELSE q[i]
<1>1. /\ Tail(q) \in Seq(Places) /\ Len(Tail(q)) = Len(q) - 1 /\ Head(q) = q[1]
      /\ Len(q) \in Nat /\ 1 \in DOMAIN q
      /\ \A i : i \in DOMAIN q /\ i # 1 => i - 1 \in DOMAIN Tail(q) /\ Tail(q)[i - 1] = q[i]
  BY TailIs
<1>2. <<0>> \in Seq(Places) /\ Len(<<0>>) = 1 /\ <<0>>[1] = 0
  BY DEF Places
<1>3. PICK z : z = <<0>> \o Tail(q)
  OBVIOUS
<1>4. /\ z \in Seq(Places) /\ Len(z) = Len(q)
      /\ \A i \in 1 .. Len(q) : z[i] = IF i <= 1 THEN <<0>>[i] ELSE Tail(q)[i - 1]
  <2>1. /\ z \in Seq(Places) /\ Len(z) = Len(<<0>>) + Len(Tail(q))
        /\ \A i \in 1 .. Len(<<0>>) + Len(Tail(q)) :
             z[i] = IF i <= Len(<<0>>) THEN <<0>>[i] ELSE Tail(q)[i - Len(<<0>>)]
    BY <1>1, <1>2, <1>3, ConcatProperties
  <2>2. Len(<<0>>) + Len(Tail(q)) = Len(q)
    BY <1>1, <1>2
  <2>3. QED  BY <1>2, <2>1, <2>2
<1>5. DOMAIN q = 1 .. Len(q) /\ DOMAIN z = 1 .. Len(q) /\ Len(q) >= 1
  BY <1>1, <1>4
<1>6. \A i \in DOMAIN q : z[i] = IF i = 1 THEN 0 ELSE q[i]
  BY <1>1, <1>2, <1>4, <1>5
<1>7. z # <<>>
  BY <1>4, <1>5
<1>8. QED  BY <1>1, <1>3, <1>4, <1>5, <1>6, <1>7

\* One count less, whoever gives it up: at the end self_ is to be reset.
LEMMA CountingDown ==
  ASSUME FlowTypes, Counts, NEW b \in Blocks, refc[b] > 0, CountDown(b)
  PROVE  /\ refc' \in [Blocks -> Nat] /\ resetting' \subseteq Blocks
         /\ refc'[b] = refc[b] - 1 /\ \A a \in Blocks : a # b => refc'[a] = refc[a]
         /\ \A a \in Blocks : a \in self <=> refc'[a] > 0 \/ a \in resetting'
         /\ \A a \in resetting' : refc'[a] = 0
<1>1. /\ refc \in [Blocks -> Nat] /\ resetting \subseteq Blocks
      /\ refc' = [refc EXCEPT ![b] = @ - 1]
      /\ resetting' = IF refc[b] = 1 THEN resetting \cup {b} ELSE resetting
  BY DEF FlowTypes, CountDown
<1>2. /\ \A a \in Blocks : refc[a] \in Nat
      /\ refc'[b] = refc[b] - 1 /\ \A a \in Blocks : a # b => refc'[a] = refc[a]
      /\ refc' \in [Blocks -> Nat]
  BY <1>1
<1>3. /\ \A a \in Blocks : a \in self <=> refc[a] > 0 \/ a \in resetting
      /\ \A a \in resetting : refc[a] = 0
  BY DEF Counts, CountExact
<1>4. b \notin resetting
  BY <1>3
<1>5. CASE refc[b] = 1
  BY <1>1, <1>2, <1>3, <1>4, <1>5
<1>6. CASE refc[b] # 1
  <2>1. refc'[b] > 0 /\ resetting' = resetting
    BY <1>1, <1>2, <1>6
  <2>2. QED  BY <1>1, <1>2, <1>3, <1>4, <2>1
<1>7. QED  BY <1>5, <1>6

\* Steps that leave all pointers where they are.
LEMMA PointersStay ==
  ASSUME OutInv, UNCHANGED <<poolVars, work, pushing, queue, item, self>>, out'.buf = out.buf,
         FlowTypes'
  PROVE  Memory'
<1>1. \A a : a \in Owners' <=> a \in Owners
  BY OwnerIs, OwnerNext
<1>2. Owners' \subseteq Places
  BY OwnersPlacesNext
<1>3. QED  BY <1>1, <1>2, MemoryKept DEF OutInv

LEMMA ReleaseInv ==
  ASSUME OutInv, NEW b \in Blocks, Release(b)
  PROVE  OutInv'
<1>1. /\ held' = [held EXCEPT ![b] = @ - 1] /\ held[b] > 0 /\ CountDown(b)
      /\ UNCHANGED <<poolVars, work, pushing, queue, out, item, self, exit>>
      /\ FlowTypes /\ Shape /\ Distinct /\ Counts
  BY DEF Release, OutInv
<1>2. /\ held \in [Blocks -> Nat] /\ refc \in [Blocks -> Nat]
      /\ \A a \in Blocks : refc[a] = held[a] + (IF out.pc = "deliver" /\ out.buf = a THEN 1 ELSE 0)
  BY <1>1 DEF FlowTypes, Counts, CountExact
<1>3. refc[b] > 0
  BY <1>1, <1>2
<1>4. /\ refc' \in [Blocks -> Nat] /\ resetting' \subseteq Blocks
      /\ refc'[b] = refc[b] - 1 /\ \A a \in Blocks : a # b => refc'[a] = refc[a]
      /\ \A a \in Blocks : a \in self <=> refc'[a] > 0 \/ a \in resetting'
      /\ \A a \in resetting' : refc'[a] = 0
  BY <1>1, <1>3, CountingDown
<1>5. /\ held' \in [Blocks -> Nat]
      /\ \A a \in Blocks : refc'[a] = held'[a] + (IF out.pc = "deliver" /\ out.buf = a THEN 1 ELSE 0)
  BY <1>1, <1>2, <1>4
<1>6. FlowTypes'
  BY <1>1, <1>4, <1>5 DEF FlowTypes
<1>7. Shape' /\ Distinct'
  BY <1>1 DEF Shape, Distinct, Serving, Popping
<1>8. Counts'
  BY <1>1, <1>4, <1>5 DEF Counts, CountExact
<1>9. Memory'
  BY <1>1, <1>6, PointersStay
<1>10. QED  BY <1>6, <1>7, <1>8, <1>9 DEF OutInv

LEMMA DeliverInv ==
  ASSUME OutInv, Deliver
  PROVE  OutInv'
<1> DEFINE b == out.buf
<1>1. /\ out.pc = "deliver" /\ out' = [out EXCEPT !.it = @ + 1]
      /\ refc' = [refc EXCEPT ![b] = @ + 1] /\ held' = [held EXCEPT ![b] = @ + 1]
      /\ UNCHANGED <<poolVars, work, pushing, queue, item, self, resetting, exit>>
      /\ FlowTypes /\ Shape /\ Distinct /\ Counts
  BY DEF Deliver, OutInv
<1>2. b \in Blocks
  BY <1>1 DEF FlowTypes, Shape, Serving, Places
<1>3. /\ held \in [Blocks -> Nat] /\ refc \in [Blocks -> Nat]
      /\ \A a \in Blocks : refc[a] = held[a] + (IF out.pc = "deliver" /\ b = a THEN 1 ELSE 0)
      /\ \A a \in Blocks : a \in self <=> refc[a] > 0 \/ a \in resetting
      /\ \A a \in resetting : refc[a] = 0
      /\ out \in [pc : {"wait", "deliver", "release", "drop", "pop", "stopped"},
                  buf : Places, num : 0 .. ResultsMax, it : Nat]
  BY <1>1 DEF FlowTypes, Counts, CountExact
<1>4. /\ out'.pc = out.pc /\ out'.buf = b
      /\ out' \in [pc : {"wait", "deliver", "release", "drop", "pop", "stopped"},
                   buf : Places, num : 0 .. ResultsMax, it : Nat]
  BY <1>1, <1>3
<1>5. /\ refc' \in [Blocks -> Nat] /\ held' \in [Blocks -> Nat]
      /\ refc'[b] = refc[b] + 1 /\ held'[b] = held[b] + 1
      /\ \A a \in Blocks : a # b => refc'[a] = refc[a] /\ held'[a] = held[a]
  BY <1>1, <1>2, <1>3
<1>6. refc[b] > 0 /\ b \in self /\ b \notin resetting
  BY <1>1, <1>2, <1>3
<1>7. FlowTypes'
  BY <1>1, <1>4, <1>5 DEF FlowTypes
<1>8. Shape' /\ Distinct'
  BY <1>1, <1>4 DEF Shape, Distinct, Serving, Popping
<1>9. Counts'
  <2>1. \A a \in Blocks : /\ refc'[a] = held'[a] + (IF out'.pc = "deliver" /\ out'.buf = a THEN 1 ELSE 0)
                          /\ a \in self <=> refc'[a] > 0 \/ a \in resetting
    BY <1>1, <1>2, <1>3, <1>4, <1>5, <1>6
  <2>2. \A a \in resetting : refc'[a] = 0
    BY <1>1, <1>3, <1>5, <1>6 DEF FlowTypes
  <2>3. QED  BY <1>1, <2>1, <2>2 DEF Counts, CountExact
<1>10. Memory'
  BY <1>1, <1>4, <1>7, PointersStay
<1>11. QED  BY <1>7, <1>8, <1>9, <1>10 DEF OutInv

LEMMA DeliveredInv ==
  ASSUME OutInv, Delivered
  PROVE  OutInv'
<1> DEFINE b == out.buf
<1>1. /\ out.pc = "deliver"
      /\ out' = [out EXCEPT !.pc = IF refc[b] = 1 THEN "release" ELSE "drop"]
      /\ CountDown(b)
      /\ UNCHANGED <<poolVars, work, pushing, queue, item, self, held, exit>>
      /\ FlowTypes /\ Shape /\ Distinct /\ Counts
  BY DEF Delivered, OutInv
<1>2. b \in Blocks
  BY <1>1 DEF FlowTypes, Shape, Serving, Places
<1>3. /\ held \in [Blocks -> Nat] /\ refc \in [Blocks -> Nat]
      /\ \A a \in Blocks : refc[a] = held[a] + (IF out.pc = "deliver" /\ b = a THEN 1 ELSE 0)
      /\ out \in [pc : {"wait", "deliver", "release", "drop", "pop", "stopped"},
                  buf : Places, num : 0 .. ResultsMax, it : Nat]
  BY <1>1 DEF FlowTypes, Counts, CountExact
<1>4. /\ out'.pc \in {"release", "drop"} /\ out'.buf = b
      /\ out' \in [pc : {"wait", "deliver", "release", "drop", "pop", "stopped"},
                   buf : Places, num : 0 .. ResultsMax, it : Nat]
  BY <1>1, <1>3
<1>5. refc[b] > 0
  BY <1>1, <1>2, <1>3
<1>6. /\ refc' \in [Blocks -> Nat] /\ resetting' \subseteq Blocks
      /\ refc'[b] = refc[b] - 1 /\ \A a \in Blocks : a # b => refc'[a] = refc[a]
      /\ \A a \in Blocks : a \in self <=> refc'[a] > 0 \/ a \in resetting'
      /\ \A a \in resetting' : refc'[a] = 0
  BY <1>1, <1>2, <1>5, CountingDown
<1>7. FlowTypes'
  BY <1>1, <1>4, <1>6 DEF FlowTypes
<1>8. Shape' /\ Distinct'
  <2>1. (Serving' <=> Serving) /\ (Popping' <=> Popping) /\ out.pc # "stopped"
    BY <1>1, <1>4 DEF Serving, Popping
  <2>2. QED  BY <1>1, <1>4, <2>1 DEF Shape, Distinct
<1>9. Counts'
  <2>1. \A a \in Blocks : refc'[a] = held'[a] + (IF out'.pc = "deliver" /\ out'.buf = a THEN 1 ELSE 0)
    BY <1>1, <1>2, <1>3, <1>4, <1>6
  <2>2. QED  BY <1>1, <1>6, <2>1 DEF Counts, CountExact
<1>10. Memory'
  BY <1>1, <1>4, <1>7, PointersStay
<1>11. QED  BY <1>7, <1>8, <1>9, <1>10 DEF OutInv

LEMMA DropBufInv ==
  ASSUME OutInv, DropBuf
  PROVE  OutInv'
<1> DEFINE b == out.buf
<1>1. /\ out.pc = "drop" /\ out' = [Asleep EXCEPT !.pc = "pop"]
      /\ UNCHANGED <<work, pushing, queue, item, self, refc, held, resetting, exit>>
      /\ Dropped(b)
      /\ FlowTypes /\ Shape /\ Distinct /\ Counts /\ Memory
  BY DEF DropBuf, OutInv, resultVars
<1>2. b \in Blocks /\ b \in Owners
  BY <1>1, OwnerIs DEF FlowTypes, Shape, Serving, Places
<1>3. out' = [pc |-> "pop", buf |-> 0, num |-> 0, it |-> 0]
  BY <1>1 DEF Asleep
<1>4. FlowTypes'
  <2>1. out' \in [pc : {"wait", "deliver", "release", "drop", "pop", "stopped"},
                 buf : Places, num : 0 .. ResultsMax, it : Nat]
    <3>1. 0 \in Places /\ 0 \in 0 .. ResultsMax /\ 0 \in Nat
      BY OutputAssumption DEF Places
    <3>2. QED  BY <1>3, <3>1
  <2>2. QED  BY <1>1, <2>1 DEF FlowTypes
<1>5. Shape' /\ Distinct'
  <2>1. ~Serving' /\ Popping' /\ Popping /\ out.pc # "stopped"
    BY <1>1, <1>3 DEF Serving, Popping
  <2>2. QED  BY <1>1, <1>3, <2>1 DEF Shape, Distinct
<1>6. Counts'
  <2>1. \A a : ~(out.pc = "deliver" /\ out.buf = a) /\ ~(out'.pc = "deliver" /\ out'.buf = a)
    BY <1>1, <1>3
  <2>2. QED  BY <1>1, <2>1 DEF Counts, CountExact
<1>7. Memory'
  <2>1. \A a \in Blocks : a # b => (a \in Owners' <=> a \in Owners)
    BY <1>1, <1>3, OwnerIs, OwnerNext, NoNull
  <2>2. QED  BY <1>1, <1>2, <1>4, <2>1, MemoryDropped, OwnersPlacesNext
<1>8. QED  BY <1>4, <1>5, <1>6, <1>7 DEF OutInv

\* A ring that has lost its first element, with the thread asleep or gone.
LEMMA RingMovesOn ==
  ASSUME FlowTypes, Shape, Distinct, queue # <<>>, queue' = Tail(queue),
         out'.pc \in {"wait", "stopped"}, out'.buf = 0, ~Serving,
         UNCHANGED <<work, pushing, self, exit>>, exit \notin {"run", "pool"} => out'.pc = "stopped"
  PROVE  /\ queue' \in Seq(Places) /\ Len(queue') <= Capacity
         /\ Shape' /\ Distinct'
         /\ \A a : (\E i \in DOMAIN queue : queue[i] = a)
                     <=> a = queue[1] \/ \E i \in DOMAIN queue' : queue'[i] = a
<1>1. /\ queue' \in Seq(Places) /\ Len(queue') = Len(queue) - 1
      /\ Len(queue) \in Nat /\ 1 \in DOMAIN queue /\ Len(queue) <= Capacity
      /\ \A i : i \in DOMAIN queue' =>
           i \in Nat \ {0} /\ i + 1 \in DOMAIN queue /\ queue'[i] = queue[i + 1]
      /\ \A i : i \in DOMAIN queue /\ i # 1 => i - 1 \in DOMAIN queue' /\ queue'[i - 1] = queue[i]
  BY TailIs DEF FlowTypes
<1>2. Len(queue') <= Capacity
  BY <1>1, OutputAssumption
<1>3. ~Popping' /\ ~Serving'
  BY DEF Popping, Serving
<1>4. \A i \in DOMAIN queue : queue[i] = 0 => i = 1
  BY DEF Shape
<1>5. \A i \in DOMAIN queue' : i + 1 # 1 /\ queue'[i] # 0
  BY <1>1, <1>4
<1>6. Shape'
  BY <1>3, <1>5 DEF Shape
<1>7. /\ \A i \in DOMAIN queue' : \E k \in DOMAIN queue : queue'[i] = queue[k]
      /\ \A i, j \in DOMAIN queue' : queue'[i] = queue'[j] => i = j
  <2>1. \A i, j \in DOMAIN queue' : queue'[i] = queue'[j] => i + 1 = j + 1
    BY <1>1, <1>5 DEF Distinct
  <2>2. \A i \in DOMAIN queue' : i \in Nat
    BY <1>1
  <2>3. \A i, j \in DOMAIN queue' : queue'[i] = queue'[j] => i = j
    BY <2>1, <2>2
  <2>4. QED  BY <1>1, <2>3
<1>8. Distinct'
  BY <1>5, <1>7 DEF Distinct
<1>9. \A a : (\E i \in DOMAIN queue : queue[i] = a)
               <=> a = queue[1] \/ \E i \in DOMAIN queue' : queue'[i] = a
  <2>1. \A i \in DOMAIN queue : i = 1 \/ (i - 1 \in DOMAIN queue' /\ queue[i] = queue'[i - 1])
    BY <1>1
  <2>2. \A i \in DOMAIN queue' : i + 1 \in DOMAIN queue /\ queue'[i] = queue[i + 1]
    BY <1>1
  <2>3. ASSUME NEW i \in DOMAIN queue
        PROVE  queue[i] = queue[1] \/ \E k \in DOMAIN queue' : queue'[k] = queue[i]
    BY <2>1
  <2>4. ASSUME NEW k \in DOMAIN queue'
        PROVE  \E i \in DOMAIN queue : queue[i] = queue'[k]
    BY <2>2
  <2>5. 1 \in DOMAIN queue
    BY <1>1
  <2>6. QED  BY <2>3, <2>4, <2>5
<1>10. QED  BY <1>1, <1>2, <1>6, <1>8, <1>9

LEMMA PopInv ==
  ASSUME OutInv, Pop
  PROVE  OutInv'
<1>1. /\ out.pc = "pop" /\ out' = Asleep /\ queue' = Tail(queue)
      /\ UNCHANGED <<poolVars, work, pushing, item, self, refc, held, resetting, exit>>
      /\ FlowTypes /\ Shape /\ Distinct /\ Counts /\ Memory
  BY DEF Pop, OutInv, resultVars
<1>2. out' = [pc |-> "wait", buf |-> 0, num |-> 0, it |-> 0]
  BY <1>1 DEF Asleep
<1>3. ~Serving /\ Popping /\ queue # <<>> /\ out.buf = 0 /\ exit \in {"run", "pool"}
  BY <1>1 DEF Serving, Popping, Shape
<1>4. 1 \in DOMAIN queue
  BY <1>1, <1>3, TailIs DEF FlowTypes
<1>5. queue[1] = 0
  BY <1>1, <1>3, <1>4 DEF Shape
<1>6. /\ queue' \in Seq(Places) /\ Len(queue') <= Capacity
      /\ Shape' /\ Distinct'
      /\ \A a : (\E i \in DOMAIN queue : queue[i] = a)
                  <=> a = queue[1] \/ \E i \in DOMAIN queue' : queue'[i] = a
  BY <1>1, <1>2, <1>3, RingMovesOn
<1>7. FlowTypes'
  <2>1. out' \in [pc : {"wait", "deliver", "release", "drop", "pop", "stopped"},
                 buf : Places, num : 0 .. ResultsMax, it : Nat]
    <3>1. 0 \in Places /\ 0 \in 0 .. ResultsMax /\ 0 \in Nat
      BY OutputAssumption DEF Places
    <3>2. QED  BY <1>2, <3>1
  <2>2. QED  BY <1>1, <1>6, <2>1 DEF FlowTypes
<1>8. Counts'
  <2>1. \A a : ~(out.pc = "deliver" /\ out.buf = a) /\ ~(out'.pc = "deliver" /\ out'.buf = a)
    BY <1>1, <1>2
  <2>2. QED  BY <1>1, <2>1 DEF Counts, CountExact
<1>9. Memory'
  <2>1. ASSUME NEW a \in Blocks
        PROVE  a \in Owners' <=> a \in Owners
    <3>1. (\E i \in DOMAIN queue : queue[i] = a) <=> \E i \in DOMAIN queue' : queue'[i] = a
      BY <1>5, <1>6, NoNull
    <3>2. out.buf # a /\ out'.buf # a
      BY <1>2, <1>3, NoNull
    <3>3. QED  BY <1>1, <3>1, <3>2, OwnerIs, OwnerNext
  <2>2. QED  BY <1>1, <1>7, <2>1, MemoryKept, OwnersPlacesNext
<1>10. QED  BY <1>6, <1>7, <1>8, <1>9 DEF OutInv

LEMMA DestroyOutputInv ==
  ASSUME OutInv, DestroyOutput
  PROVE  OutInv'
<1>1. /\ exit = "outStopped"
      /\ UNCHANGED <<work, pushing, out, item, self, refc, held, resetting>>
      /\ FlowTypes /\ Shape /\ Distinct /\ Counts /\ Memory
  BY DEF DestroyOutput, OutInv, resultVars
<1>2. out.pc = "stopped" /\ ~Serving /\ ~Popping /\ out.buf = 0
  BY <1>1 DEF Shape, Serving, Popping
<1>3. Counts'
  BY <1>1 DEF Counts, CountExact
<1>4. CASE queue = <<>>
  <2>1. exit' = "outGone" /\ UNCHANGED <<queue, poolVars>>
    BY <1>4 DEF DestroyOutput
  <2>2. FlowTypes'
    BY <1>1, <2>1 DEF FlowTypes
  <2>3. Shape' /\ Distinct'
    BY <1>1, <1>2, <2>1 DEF Shape, Distinct, Serving, Popping
  <2>4. Memory'
    BY <1>1, <2>1, <2>2, PointersStay
  <2>5. QED  BY <1>3, <2>2, <2>3, <2>4 DEF OutInv
<1>5. CASE queue # <<>>
  <2>1. queue' = Tail(queue) /\ exit' = exit /\ Dropped(Head(queue))
    BY <1>5 DEF DestroyOutput
  <2>2. 1 \in DOMAIN queue /\ Head(queue) = queue[1] /\ queue \in Seq(Places)
    BY <1>1, <1>5, TailIs DEF FlowTypes
  <2>3. queue[1] \in Blocks /\ queue[1] \in Owners
    <3>1. queue[1] # 0 /\ queue[1] \in Places
      BY <1>1, <1>2, <2>2 DEF Shape
    <3>2. QED  BY <2>2, <3>1, OwnerIs DEF Places
  <2>4. /\ queue' \in Seq(Places) /\ Len(queue') <= Capacity
        /\ Shape' /\ Distinct'
        /\ \A a : (\E i \in DOMAIN queue : queue[i] = a)
                    <=> a = queue[1] \/ \E i \in DOMAIN queue' : queue'[i] = a
    BY <1>1, <1>2, <1>5, <2>1, RingMovesOn
  <2>5. FlowTypes'
    BY <1>1, <2>4 DEF FlowTypes
  <2>6. Memory'
    <3>1. \A a \in Blocks : a # queue[1] => (a \in Owners' <=> a \in Owners)
      BY <1>1, <2>4, OwnerIs, OwnerNext
    <3>2. QED  BY <1>1, <2>1, <2>2, <2>3, <2>5, <3>1, MemoryDropped, OwnersPlacesNext
  <2>7. QED  BY <1>3, <2>4, <2>5, <2>6 DEF OutInv
<1>6. QED  BY <1>4, <1>5

LEMMA ResetSelfInv ==
  ASSUME OutInv, NEW b \in Blocks, ResetSelf(b)
  PROVE  OutInv'
<1>1. /\ b \in resetting /\ resetting' = resetting \ {b} /\ self' = self \ {b}
      /\ out' = IF out.pc = "release" /\ out.buf = b THEN [out EXCEPT !.pc = "drop"] ELSE out
      /\ UNCHANGED <<work, pushing, queue, item, refc, held, exit>>
      /\ Dropped(b)
      /\ FlowTypes /\ Shape /\ Distinct /\ Counts /\ Memory
  BY DEF ResetSelf, OutInv
<1>2. /\ out' \in [pc : {"wait", "deliver", "release", "drop", "pop", "stopped"},
                   buf : Places, num : 0 .. ResultsMax, it : Nat]
      /\ out'.buf = out.buf
      /\ out'.pc = out.pc \/ (out.pc = "release" /\ out'.pc = "drop")
  <2>1. out \in [pc : {"wait", "deliver", "release", "drop", "pop", "stopped"},
                buf : Places, num : 0 .. ResultsMax, it : Nat]
    BY <1>1 DEF FlowTypes
  <2>2. CASE out.pc = "release" /\ out.buf = b
    BY <1>1, <2>1, <2>2
  <2>3. CASE ~(out.pc = "release" /\ out.buf = b)
    BY <1>1, <2>1, <2>3
  <2>4. QED  BY <2>2, <2>3
<1>3. refc[b] = 0 /\ b \in self /\ b \in Owners
  <2>1. refc[b] = 0 /\ b \in self
    BY <1>1 DEF Counts, CountExact
  <2>2. QED  BY <2>1, OwnerIs
<1>4. FlowTypes'
  BY <1>1, <1>2 DEF FlowTypes
<1>5. Shape' /\ Distinct'
  <2>1. /\ Serving' <=> Serving
        /\ Popping' <=> Popping
        /\ out.pc = "stopped" => out'.pc = "stopped"
    BY <1>2 DEF Serving, Popping
  <2>2. QED  BY <1>1, <1>2, <2>1 DEF Shape, Distinct
<1>6. Counts'
  <2>1. \A a : out'.pc = "deliver" /\ out'.buf = a <=> out.pc = "deliver" /\ out.buf = a
    BY <1>2
  <2>2. QED  BY <1>1, <1>3, <2>1 DEF Counts, CountExact
<1>7. Memory'
  <2>1. \A a \in Blocks : a # b => (a \in Owners' <=> a \in Owners)
    BY <1>1, <1>2, OwnerIs, OwnerNext
  <2>2. QED  BY <1>1, <1>3, <1>4, <2>1, MemoryDropped, OwnersPlacesNext
<1>8. QED  BY <1>4, <1>5, <1>6, <1>7 DEF OutInv

LEMMA DestroyPoolStepInv ==
  ASSUME OutInv, DestroyPool
  PROVE  OutInv'
<1>1. /\ exit = "run" /\ exit' = "pool" /\ Destroy
      /\ UNCHANGED <<work, pushing, queue, out, item, self, refc, held, resetting>>
      /\ FlowTypes /\ Shape /\ Distinct /\ Counts /\ Memory
  BY DEF DestroyPool, OutInv, resultVars
<1>2. FlowTypes' /\ Shape' /\ Distinct' /\ Counts'
  BY <1>1 DEF FlowTypes, Shape, Distinct, Counts, CountExact, Serving, Popping
<1>3. PoolInv' /\ Allocated' = Allocated
  BY <1>1, DestroyPoolInv DEF Memory
<1>4. Owners' = Owners
  BY <1>1 DEF Owners
<1>5. QED  BY <1>1, <1>2, <1>3, <1>4 DEF OutInv, Memory

LEMMA StopOutputInv ==
  ASSUME OutInv, StopOutput
  PROVE  OutInv'
<1>1. /\ exit = "pool" /\ out.pc = "wait" /\ queue = <<>> /\ exit' = "outStopped"
      /\ out' = [Asleep EXCEPT !.pc = "stopped"]
      /\ UNCHANGED <<poolVars, work, pushing, queue, item, self, refc, held, resetting>>
      /\ FlowTypes /\ Shape /\ Distinct /\ Counts
  BY DEF StopOutput, OutInv, resultVars
<1>2. out' = [pc |-> "stopped", buf |-> 0, num |-> 0, it |-> 0]
  BY <1>1 DEF Asleep
<1>3. out.buf = 0
  BY <1>1 DEF Shape, Serving
<1>4. FlowTypes'
  <2>1. out' \in [pc : {"wait", "deliver", "release", "drop", "pop", "stopped"},
                 buf : Places, num : 0 .. ResultsMax, it : Nat]
    <3>1. 0 \in Places /\ 0 \in 0 .. ResultsMax /\ 0 \in Nat
      BY OutputAssumption DEF Places
    <3>2. QED  BY <1>2, <3>1
  <2>2. QED  BY <1>1, <2>1 DEF FlowTypes
<1>5. Shape' /\ Distinct'
  <2>1. ~Serving' /\ ~Popping'
    BY <1>2 DEF Serving, Popping
  <2>2. DOMAIN queue = {}
    BY <1>1
  <2>3. QED  BY <1>1, <1>2, <2>1, <2>2 DEF Shape, Distinct
<1>6. Counts'
  <2>1. \A a : ~(out.pc = "deliver" /\ out.buf = a) /\ ~(out'.pc = "deliver" /\ out'.buf = a)
    BY <1>1, <1>2
  <2>2. QED  BY <1>1, <2>1 DEF Counts, CountExact
<1>7. Memory'
  BY <1>1, <1>2, <1>3, <1>4, PointersStay
<1>8. QED  BY <1>4, <1>5, <1>6, <1>7 DEF OutInv

LEMMA StopInputInv ==
  ASSUME OutInv, StopInput
  PROVE  OutInv'
<1>1. /\ exit = "outGone" /\ exit' = "inStopped"
      /\ UNCHANGED <<poolVars, work, pushing, queue, out, item, self, refc, held, resetting>>
      /\ FlowTypes /\ Shape /\ Distinct /\ Counts
  BY DEF StopInput, OutInv, resultVars
<1>2. FlowTypes' /\ Shape' /\ Distinct' /\ Counts'
  BY <1>1 DEF FlowTypes, Shape, Distinct, Counts, CountExact, Serving, Popping
<1>3. Memory'
  BY <1>1, <1>2, PointersStay
<1>4. QED  BY <1>2, <1>3 DEF OutInv

LEMMA DestroySlotInv ==
  ASSUME OutInv, NEW e \in Edefs, DestroySlot(e)
  PROVE  OutInv'
<1>1. /\ exit = "inStopped" /\ work[e] # 0 /\ work' = [work EXCEPT ![e] = 0]
      /\ UNCHANGED <<pushing, queue, out, item, self, refc, held, resetting, exit>>
      /\ Dropped(work[e])
      /\ FlowTypes /\ Shape /\ Distinct /\ Counts /\ Memory
  BY DEF DestroySlot, OutInv, resultVars
<1>2. /\ work'[e] = 0 /\ work[e] \in Blocks
      /\ \A f \in Edefs : f # e => work'[f] = work[f]
  BY <1>1 DEF FlowTypes, Places
<1>3. FlowTypes'
  BY <1>1 DEF FlowTypes, Places
<1>4. Shape'
  BY <1>1 DEF Shape, Serving, Popping
<1>5. Distinct'
  BY <1>1, <1>2 DEF Distinct
<1>6. Counts'
  BY <1>1 DEF Counts, CountExact
<1>7. Memory'
  <2>1. work[e] \in Owners
    BY OwnerIs
  <2>2. ASSUME NEW a \in Blocks, a # work[e]
        PROVE  a \in Owners' <=> a \in Owners
    <3>1. (\E f \in Edefs : work'[f] = a) <=> (\E f \in Edefs : work[f] = a)
      BY <1>2, <2>2, NoNull
    <3>2. QED  BY <1>1, <3>1, OwnerIs, OwnerNext
  <2>3. QED  BY <1>1, <1>2, <1>3, <2>1, <2>2, MemoryDropped, OwnersPlacesNext
<1>8. QED  BY <1>3, <1>4, <1>5, <1>6, <1>7 DEF OutInv

LEMMA PushInv ==
  ASSUME OutInv, Push
  PROVE  OutInv'
<1>1. /\ pushing # 0 /\ Len(queue) < Capacity
      /\ queue' = Append(queue, pushing) /\ pushing' = 0
      /\ UNCHANGED <<poolVars, work, out, item, self, refc, held, resetting, exit>>
      /\ FlowTypes /\ Shape /\ Distinct /\ Counts /\ Memory
  BY DEF Push, HasRoom, OutInv, resultVars
<1> DEFINE n == Len(queue) + 1
<1>2. /\ queue' \in Seq(Places) /\ Len(queue') = n /\ Len(queue) \in Nat
      /\ n \notin DOMAIN queue /\ DOMAIN queue' = DOMAIN queue \cup {n}
      /\ queue'[n] = pushing /\ \A i \in DOMAIN queue : queue'[i] = queue[i]
      /\ queue # <<>> => n # 1
  <2>1. queue \in Seq(Places) /\ pushing \in Places
    BY <1>1 DEF FlowTypes
  <2>2. /\ queue' \in Seq(Places) /\ Len(queue') = n /\ Len(queue) \in Nat
        /\ queue'[n] = pushing /\ \A i \in 1 .. Len(queue) : queue'[i] = queue[i]
    BY <1>1, <2>1, AppendProperties
  <2>3. DOMAIN queue = 1 .. Len(queue) /\ DOMAIN queue' = 1 .. n
    BY <2>1, <2>2
  <2>4. queue # <<>> => Len(queue) # 0
    BY <2>1
  <2>5. QED  BY <2>2, <2>3, <2>4
<1> HIDE DEF n
<1>3. FlowTypes'
  <2>1. Len(queue') <= Capacity
    BY <1>1, <1>2, OutputAssumption DEF n
  <2>2. QED  BY <1>1, <1>2, <2>1 DEF FlowTypes, Places
<1>4. Shape'
  <2>1. (Serving' <=> Serving) /\ (Popping' <=> Popping)
    BY <1>1 DEF Serving, Popping
  <2>2. \A i \in DOMAIN queue' : queue'[i] = 0 <=> i = 1 /\ Popping
    BY <1>1, <1>2 DEF Shape
  <2>3. queue' # <<>>
    BY <1>2
  <2>4. QED  BY <1>1, <2>1, <2>2, <2>3 DEF Shape
<1>5. Distinct'
  <2>1. ASSUME NEW e \in Edefs, work[e] # 0
        PROVE  \A i \in DOMAIN queue' : queue'[i] # work[e]
    BY <1>1, <1>2, <2>1 DEF Distinct
  <2>2. ASSUME NEW i \in DOMAIN queue', queue'[i] # 0
        PROVE  queue'[i] \notin self /\ \A j \in DOMAIN queue' : queue'[j] = queue'[i] => j = i
    BY <1>1, <1>2, <2>2 DEF Distinct
  <2>3. QED  BY <1>1, <2>1, <2>2 DEF Distinct
<1>6. Counts'
  BY <1>1 DEF Counts, CountExact
<1>7. Memory'
  <2>1. ASSUME NEW a \in Blocks
        PROVE  a \in Owners' <=> a \in Owners
    <3>1. (\E i \in DOMAIN queue' : queue'[i] = a) <=> pushing = a \/ \E i \in DOMAIN queue : queue[i] = a
      BY <1>2
    <3>2. QED  BY <1>1, <3>1, OwnerIs, OwnerNext, NoNull
  <2>2. QED  BY <1>1, <1>3, <2>1, MemoryKept, OwnersPlacesNext
<1>8. QED  BY <1>3, <1>4, <1>5, <1>6, <1>7 DEF OutInv

LEMMA SwapInv ==
  ASSUME OutInv, NEW e \in Edefs, NEW n \in 1 .. ResultsMax, Swap(e, n)
  PROVE  OutInv'
<1>1. /\ pushing = 0 /\ exit # "inStopped" /\ pushing' = work[e]
      /\ UNCHANGED <<queue, out, self, held, resetting, exit>>
      /\ FlowTypes /\ Shape /\ Distinct /\ Counts /\ Memory
  BY DEF Swap, OutInv
<1>2. PICK b \in Blocks : /\ Alloc(b)
                          /\ work' = [work EXCEPT ![e] = b]
                          /\ refc' = [refc EXCEPT ![b] = 0]
                          /\ item' = [item EXCEPT ![work[e]] = [edef |-> e, num |-> n]]
  BY DEF Swap
<1>3. PICK w \in Blocks : w = work[e]
  BY <1>1 DEF Shape, FlowTypes, Places
<1>4. w \in Owners /\ ~gone
  BY <1>1, <1>3, OwnerIs, NoNull DEF Memory, PoolInv
<1>5. b \notin Owners /\ b # w
  <2>1. b \notin Allocated
    BY <1>1, <1>2, <1>4, AllocPool DEF Memory
  <2>2. QED  BY <1>1, <1>4, <2>1, NoNull DEF Memory
<1>6. /\ b \notin self
      /\ \A f \in Edefs : work[f] # b
      /\ \A i \in DOMAIN queue : queue[i] # b
  BY <1>5, OwnerIs
<1>7. refc' = refc
  <2>1. refc[b] = 0
    BY <1>1, <1>6 DEF Counts, CountExact, FlowTypes
  <2>2. QED  BY <1>1, <1>2, <2>1 DEF FlowTypes
<1>8. work'[e] = b /\ \A f \in Edefs : f # e => work'[f] = work[f]
  BY <1>1, <1>2 DEF FlowTypes
<1>9. FlowTypes'
  <2>1. item' \in [Blocks -> [edef : Edefs, num : 0 .. ResultsMax]]
    <3>1. [edef |-> e, num |-> n] \in [edef : Edefs, num : 0 .. ResultsMax]
      BY OutputAssumption
    <3>2. QED  BY <1>1, <1>2, <3>1 DEF FlowTypes
  <2>2. work' \in [Edefs -> Places] /\ pushing' \in Places
    BY <1>1, <1>2 DEF FlowTypes, Places
  <2>3. QED  BY <1>1, <1>7, <2>1, <2>2 DEF FlowTypes
<1>10. Shape'
  BY <1>1, <1>8, NoNull DEF Shape, Serving, Popping
<1>11. Distinct'
  <2>1. /\ work[e] # 0 /\ w \notin self
        /\ \A f \in Edefs : work[f] = w => f = e
        /\ \A i \in DOMAIN queue : queue[i] # w
    BY <1>1, <1>3, NoNull DEF Distinct
  <2>2. ASSUME NEW f \in Edefs, work'[f] # 0
        PROVE  /\ work'[f] # pushing' /\ work'[f] \notin self
               /\ \A g \in Edefs : work'[g] = work'[f] => g = f
               /\ \A i \in DOMAIN queue : queue[i] # work'[f]
    <3>1. CASE f = e
      BY <1>1, <1>3, <1>5, <1>6, <1>8, <3>1
    <3>2. CASE f # e
      BY <1>1, <1>3, <1>6, <1>8, <2>1, <2>2, <3>2 DEF Distinct
    <3>3. QED  BY <3>1, <3>2
  <2>3. QED  BY <1>1, <1>3, <2>1, <2>2 DEF Distinct
<1>12. Counts'
  BY <1>1, <1>7 DEF Counts, CountExact
<1>13. Memory'
  <2>1. b \in Owners'
    BY <1>8, OwnerNext
  <2>2. ASSUME NEW a \in Blocks, a # b
        PROVE  a \in Owners' <=> a \in Owners
    <3>1. (\E f \in Edefs : work'[f] = a) \/ w = a <=> \E f \in Edefs : work[f] = a
      BY <1>3, <1>8, <2>2
    <3>2. QED  BY <1>1, <1>3, <3>1, OwnerIs, OwnerNext, NoNull
  <2>3. QED  BY <1>1, <1>2, <1>4, <1>9, <2>1, <2>2, MemoryNew, OwnersPlacesNext
<1>14. QED  BY <1>9, <1>10, <1>11, <1>12, <1>13 DEF OutInv

LEMMA TakeInv ==
  ASSUME OutInv, SinkInv, Take
  PROVE  OutInv'
<1>1. /\ out.pc = "wait" /\ queue # <<>> /\ queue' = <<0>> \o Tail(queue)
      /\ UNCHANGED <<poolVars, work, pushing, item, held, resetting, exit>>
      /\ FlowTypes /\ Shape /\ Distinct /\ Counts /\ Memory
  BY DEF Take, OutInv
<1>2. PICK b : b = queue[1]
  OBVIOUS
<1>3. /\ queue' \in Seq(Places) /\ Len(queue') = Len(queue) /\ queue' # <<>>
      /\ DOMAIN queue' = DOMAIN queue /\ 1 \in DOMAIN queue /\ Head(queue) = b
      /\ \A i \in DOMAIN queue : queue'[i] = IF i = 1 THEN 0 ELSE queue[i]
  BY <1>1, <1>2, TakenIs DEF FlowTypes
<1>4. /\ ~Popping /\ ~Serving /\ out.buf = 0 /\ exit \in {"run", "pool"}
      /\ \A i \in DOMAIN queue : queue[i] # 0
  BY <1>1 DEF Popping, Serving, Shape
<1>5. /\ b \in Blocks /\ b \notin self
      /\ \A i \in DOMAIN queue : queue[i] = b => i = 1
      /\ \A e \in Edefs : work[e] # b
      /\ pushing # b
  <2>1. b # 0 /\ b \in Places
    <3>1. queue \in Seq(Places)
      BY <1>1 DEF FlowTypes
    <3>2. queue[1] \in Places
      BY <1>3, <3>1
    <3>3. QED  BY <1>2, <1>3, <1>4, <3>2
  <2>2. QED  BY <1>1, <1>2, <1>3, <2>1 DEF Distinct, Places
<1>6. \/ /\ self' = self \cup {b} /\ refc' = [refc EXCEPT ![b] = @ + 1]
         /\ out' = [pc |-> "deliver", buf |-> b, num |-> Clip(item[b].num, item[b].edef), it |-> 1]
      \/ /\ self' = self /\ refc' = refc
         /\ out' = [pc |-> "drop", buf |-> b, num |-> 0, it |-> 0]
  BY <1>3 DEF Take
<1>7. out'.buf = b /\ Serving' /\ Popping' /\ out'.pc \in {"deliver", "drop"}
  BY <1>6 DEF Serving, Popping
<1>8. refc[b] = 0 /\ held[b] = 0 /\ b \notin resetting
  <2>1. /\ refc[b] \in Nat /\ held[b] \in Nat
        /\ refc[b] = held[b] /\ ~(refc[b] > 0) /\ b \notin resetting
    BY <1>1, <1>5 DEF FlowTypes, Counts, CountExact
  <2>2. QED  BY <2>1
<1>9. FlowTypes'
  <2>1. self' \subseteq Blocks /\ refc' \in [Blocks -> Nat]
    <3>1. refc \in [Blocks -> Nat] /\ self \subseteq Blocks
      BY <1>1 DEF FlowTypes
    <3>2. QED  BY <1>5, <1>6, <3>1
  <2>2. Clip(item[b].num, item[b].edef) \in 0 .. ResultsMax
    <3>1. item[b].num \in 0 .. ResultsMax /\ item[b].edef \in Edefs
      BY <1>1, <1>5 DEF FlowTypes
    <3>2. maxResults[item[b].edef] \in 1 .. ResultsMax
      BY <3>1 DEF SinkInv
    <3>3. QED  BY <3>1, <3>2, OutputAssumption DEF Clip
  <2>3. out' \in [pc : {"wait", "deliver", "release", "drop", "pop", "stopped"},
                  buf : Places, num : 0 .. ResultsMax, it : Nat]
    <3>1. 0 \in 0 .. ResultsMax /\ b \in Places
      BY <1>5, OutputAssumption DEF Places
    <3>2. QED  BY <1>6, <2>2, <3>1
  <2>4. QED  BY <1>1, <1>3, <2>1, <2>3 DEF FlowTypes
<1>10. Shape'
  <2>1. \A i \in DOMAIN queue' : queue'[i] = 0 <=> i = 1
    BY <1>3, <1>4
  <2>2. QED  BY <1>1, <1>3, <1>4, <1>5, <1>7, <2>1, NoNull DEF Shape
<1>11. Distinct'
  <2>1. self' \subseteq self \cup {b}
    BY <1>6
  <2>2. ASSUME NEW e \in Edefs, work[e] # 0
        PROVE  /\ work[e] # pushing /\ work[e] \notin self'
               /\ \A f \in Edefs : work[f] = work[e] => f = e
               /\ \A i \in DOMAIN queue' : queue'[i] # work[e]
    BY <1>1, <1>3, <1>5, <2>1, <2>2 DEF Distinct
  <2>3. ASSUME pushing # 0
        PROVE  pushing \notin self' /\ \A i \in DOMAIN queue' : queue'[i] # pushing
    BY <1>1, <1>3, <1>5, <2>1, <2>3 DEF Distinct
  <2>4. ASSUME NEW i \in DOMAIN queue', queue'[i] # 0
        PROVE  queue'[i] \notin self' /\ \A j \in DOMAIN queue' : queue'[j] = queue'[i] => j = i
    <3>1. i \in DOMAIN queue /\ i # 1 /\ queue'[i] = queue[i] /\ queue[i] # 0 /\ queue[i] # b
      BY <1>3, <1>5, <2>4
    <3>2. queue[i] \notin self /\ \A j \in DOMAIN queue : queue[j] = queue[i] => j = i
      BY <1>1, <3>1 DEF Distinct
    <3>3. QED  BY <1>3, <2>1, <3>1, <3>2
  <2>5. QED  BY <1>1, <2>2, <2>3, <2>4 DEF Distinct
<1>12. Counts'
  <2>1. /\ refc \in [Blocks -> Nat] /\ held \in [Blocks -> Nat]
        /\ \A a \in Blocks : refc[a] = held[a] /\ (a \in self <=> refc[a] > 0 \/ a \in resetting)
        /\ \A a \in resetting : refc[a] = 0
    BY <1>1 DEF FlowTypes, Counts, CountExact
  <2>2. ASSUME NEW a \in Blocks
        PROVE  /\ refc'[a] = held[a] + (IF out'.pc = "deliver" /\ out'.buf = a THEN 1 ELSE 0)
               /\ a \in self' <=> refc'[a] > 0 \/ a \in resetting
    <3>1. CASE a = b
      BY <1>5, <1>6, <1>8, <2>1, <3>1
    <3>2. CASE a # b
      BY <1>5, <1>6, <2>1, <3>2
    <3>3. QED  BY <3>1, <3>2
  <2>3. \A a \in resetting : refc'[a] = 0
    <3>1. \A a \in resetting : a # b /\ a \in Blocks
      BY <1>1, <1>8 DEF FlowTypes
    <3>2. QED  BY <1>6, <2>1, <3>1
  <2>4. QED  BY <1>1, <2>2, <2>3 DEF Counts, CountExact
<1>13. Memory'
  <2>1. ASSUME NEW a \in Blocks
        PROVE  a \in Owners' <=> a \in Owners
    <3>1. CASE a = b
      BY <1>2, <1>3, <1>7, <3>1, OwnerIs, OwnerNext
    <3>2. CASE a # b
      <4>1. (\E i \in DOMAIN queue' : queue'[i] = a) <=> \E i \in DOMAIN queue : queue[i] = a
        BY <1>2, <1>3, <3>2, NoNull
      <4>2. a \in self' <=> a \in self
        BY <1>6, <3>2
      <4>3. QED  BY <1>1, <1>4, <1>7, <3>2, <4>1, <4>2, OwnerIs, OwnerNext, NoNull
    <3>3. QED  BY <3>1, <3>2
  <2>2. QED  BY <1>1, <1>9, <2>1, MemoryKept, OwnersPlacesNext
<1>14. QED  BY <1>9, <1>10, <1>11, <1>12, <1>13 DEF OutInv

\* Every slot has its buffer, and no other has been obtained.
LEMMA InitOutInv ==
  ASSUME Init
  PROVE  OutInv
<1> DEFINE N == Cardinality(Edefs)
<1>1. N \in Nat /\ N <= MaxBlks /\ MaxBlks \in Nat /\ IsFiniteSet(Edefs)
  BY OutputAssumption, PoolAssumption, FS_CardinalityType
<1>2. /\ numBlks = N /\ lst = <<>> /\ defDest = FALSE /\ gone = FALSE
      /\ pushing = 0 /\ queue = <<>> /\ out = [pc |-> "wait", buf |-> 0, num |-> 0, it |-> 0]
      /\ item = [b \in Blocks |-> [edef |-> CHOOSE e \in Edefs : TRUE, num |-> 0]]
      /\ self = {} /\ refc = [b \in Blocks |-> 0] /\ held = [b \in Blocks |-> 0]
      /\ resetting = {} /\ exit = "run"
  BY DEF Init, Asleep
<1>3. work \in [Edefs -> 1 .. N] /\ \A e, f \in Edefs : work[e] = work[f] => e = f
  BY DEF Init, Injection, IsInjective
<1>4. {work[e] : e \in Edefs} = 1 .. N
  BY <1>1, <1>3, ImageIsAll
<1>5. 1 .. N \subseteq Blocks
  BY <1>1 DEF Blocks
<1>6. FlowTypes
  <2>1. work \in [Edefs -> Places]
    BY <1>3, <1>5 DEF Places
  <2>2. queue \in Seq(Places) /\ Len(queue) <= Capacity
    BY <1>2, OutputAssumption
  <2>3. out \in [pc : {"wait", "deliver", "release", "drop", "pop", "stopped"},
                 buf : Places, num : 0 .. ResultsMax, it : Nat]
    <3>1. 0 \in Places /\ 0 \in 0 .. ResultsMax
      BY OutputAssumption DEF Places
    <3>2. QED  BY <1>2, <3>1
  <2>4. item \in [Blocks -> [edef : Edefs, num : 0 .. ResultsMax]]
    <3>1. (CHOOSE e \in Edefs : TRUE) \in Edefs /\ 0 \in 0 .. ResultsMax
      BY OutputAssumption
    <3>2. QED  BY <1>2, <3>1
  <2>5. QED  BY <1>2, <2>1, <2>2, <2>3, <2>4 DEF FlowTypes, Places
<1>7. Shape
  <2>1. \A e \in Edefs : work[e] # 0
    BY <1>3, <1>5, NoNull
  <2>2. DOMAIN queue = {}
    BY <1>2
  <2>3. QED  BY <1>2, <2>1, <2>2 DEF Shape, Serving, Popping
<1>8. Distinct
  <2>1. DOMAIN queue = {}
    BY <1>2
  <2>2. QED  BY <1>2, <1>3, <2>1 DEF Distinct
<1>9. Counts
  BY <1>2 DEF Counts, CountExact
<1>10. Memory
  <2>1. DOMAIN lst = {} /\ DOMAIN queue = {}
    BY <1>2
  <2>2. ListOK
    <3>1. lst \in Seq(Blocks) /\ numBlks \in 0 .. MaxBlks
      BY <1>1, <1>2
    <3>2. IsInjective(lst) /\ \A i \in DOMAIN lst : lst[i] \in 1 .. numBlks
      BY <2>1 DEF IsInjective
    <3>3. QED  BY <1>2, <3>1, <3>2 DEF ListOK
  <2>3. Allocated = 1 .. N
    BY <1>2, <2>1 DEF Allocated
  <2>4. \A b : b \in Owners <=> b = 0 \/ b \in 1 .. N
    BY <1>2, <1>4, <2>1, OwnerIs
  <2>5. 0 \notin 1 .. N
    OBVIOUS
  <2>6. QED  BY <1>2, <2>2, <2>3, <2>4, <2>5 DEF Memory, PoolInv
<1>11. QED  BY <1>6, <1>7, <1>8, <1>9, <1>10 DEF OutInv

\* Sinks are no concern of the buffers.
LEMMA SinksOnly ==
  ASSUME OutInv, UNCHANGED <<poolVars, work, pushing, queue, out, resultVars, exit>>
  PROVE  OutInv'
<1>1. UNCHANGED <<item, self, refc, held, resetting>>
  BY DEF resultVars
<1>2. FlowTypes' /\ Shape' /\ Distinct' /\ Counts'
  BY <1>1 DEF OutInv, FlowTypes, Shape, Distinct, Counts, CountExact, Serving, Popping
<1>3. Memory'
  BY <1>1, <1>2, PointersStay
<1>4. QED  BY <1>2, <1>3 DEF OutInv

LEMMA OutSteps ==
  ASSUME OutInv, SinkInv, [Next]_vars
  PROVE  OutInv'
<1>1. ASSUME InputStep
      PROVE  OutInv'
  BY <1>1, PushInv, SwapInv DEF InputStep
<1>2. ASSUME OutputStep
      PROVE  OutInv'
  BY <1>2, TakeInv, DeliverInv, DeliveredInv, DropBufInv, PopInv DEF OutputStep
<1>3. ASSUME UserStep
      PROVE  OutInv'
  <2>1. ASSUME NEW s \in Sinks, NEW e \in Edefs, delSink(s, e)
        PROVE  OutInv'
    BY <2>1, SinksOnly DEF delSink
  <2>2. ASSUME NEW s \in Sinks, NEW e \in Edefs, NEW m \in 0 .. ResultsMax, addSink(s, e, m)
        PROVE  OutInv'
    BY <2>2, SinksOnly DEF addSink
  <2>3. QED  BY <1>3, <2>1, <2>2, ReleaseInv, ResetSelfInv DEF UserStep
<1>4. ASSUME ExitStep
      PROVE  OutInv'
  BY <1>4, DestroyPoolStepInv, StopOutputInv, DestroyOutputInv, StopInputInv, DestroySlotInv
  DEF ExitStep
<1>5. ASSUME UNCHANGED vars
      PROVE  OutInv'
  BY <1>5, SinksOnly DEF vars
<1>6. QED  BY <1>1, <1>2, <1>3, <1>4, <1>5 DEF Next

LEMMA OutputInvariant == Spec => [](OutInv /\ SinkInv)
<1>1. Init => OutInv /\ SinkInv
  BY InitOutInv, InitSinks
<1>2. OutInv /\ SinkInv /\ [Next]_vars => (OutInv /\ SinkInv)'
  BY OutSteps, SinkSteps
<1>3. QED  BY <1>1, <1>2, PTL DEF Spec

-----------------------------------------------------------------------------

\* Every variable keeps its type; the output buffer never exceeds its capacity.
THEOREM TypeCorrect == Spec => []TypeOK
<1>1. OutInv /\ SinkInv => TypeOK
  BY DEF OutInv, SinkInv, FlowTypes, Memory, PoolInv, ListOK, TypeOK, Places
<1>2. QED  BY <1>1, OutputInvariant, PTL

\* A result buffer is freed by the last of its owners, once, and none leaks:
\* also while the program exits, where the pool outlives all of them.
THEOREM NoLeakNoDangling == Spec => []BlocksExact
<1>1. OutInv => BlocksExact
  BY DEF OutInv, Memory, PoolInv, ListOK, BlocksExact
<1>2. QED  BY <1>1, OutputInvariant, PTL

\* A user's plain pointer is good until he releases it: refc_ counts the
\* releases to come, and self_ is set as long as there are any.
THEOREM UsersPointers == Spec => []CountExact
<1>1. OutInv => CountExact
  BY DEF OutInv, Counts
<1>2. QED  BY <1>1, OutputInvariant, PTL

\* Results are clipped to the smallest wish of all sinks of the edef when they
\* are taken from the ring, and the wishes stay until the last call.
THEOREM NoMoreThanAsked == Spec => []WithinLimit
<1>1. Init => WithinLimit
  BY DEF Init, Asleep, WithinLimit
<1>2. OutInv /\ SinkInv /\ WithinLimit /\ [Next]_vars => WithinLimit'
  <2> SUFFICES ASSUME OutInv, SinkInv, WithinLimit, [Next]_vars, out'.pc = "deliver"
               PROVE  \A i \in DOMAIN Calls' : Calls'[i].asked = 0 \/ out'.num <= Calls'[i].asked
    BY DEF WithinLimit, Calls
  <2> DEFINE Good(c, n) == \A i \in DOMAIN c : c[i].asked = 0 \/ n <= c[i].asked
  <2>1. CASE Take
    <3>1. PICK b \in Blocks, e \in Edefs : b = Head(queue) /\ e = item[b].edef
      <4>1. queue # <<>> /\ queue \in Seq(Places) /\ ~Popping
        BY <2>1 DEF Take, OutInv, FlowTypes, Popping, Serving
      <4>2. Head(queue) = queue[1] /\ 1 \in DOMAIN queue
        BY <4>1, TailIs
      <4>3. Head(queue) \in Blocks
        BY <4>1, <4>2 DEF OutInv, Shape, Places
      <4>4. QED  BY <4>3 DEF OutInv, FlowTypes
    <3>2. /\ out' = [pc |-> "deliver", buf |-> b, num |-> Clip(item[b].num, e), it |-> 1]
          /\ item' = item /\ callbacks' = callbacks
      BY <2>1, <3>1 DEF Take, sinkVars
    <3>3. item[b].num \in Nat /\ maxResults[e] \in Nat
      <4>1. item[b].num \in 0 .. ResultsMax /\ maxResults[e] \in 1 .. ResultsMax
        BY <3>1 DEF OutInv, FlowTypes, SinkInv
      <4>2. QED  BY <4>1
    <3>4. Clip(item[b].num, e) \in Nat /\ Clip(item[b].num, e) <= maxResults[e]
      BY <3>3 DEF Clip
    <3>5. ASSUME NEW i \in DOMAIN callbacks[e]
          PROVE  callbacks[e][i].asked = 0 \/ Clip(item[b].num, e) <= callbacks[e][i].asked
      <4>1. callbacks[e][i].asked \in Nat
        <5>1. callbacks[e] \in Seq(Entry)
          BY DEF SinkInv, Entry
        <5>2. callbacks[e][i] \in Entry
          BY <5>1
        <5>3. QED  BY <5>2 DEF Entry
      <4>2. callbacks[e][i].asked = 0 \/ maxResults[e] <= callbacks[e][i].asked
        BY DEF SinkInv
      <4>3. QED  BY <3>3, <3>4, <4>1, <4>2
    <3>6. Calls' = callbacks[e] /\ out'.num = Clip(item[b].num, e)
      BY <3>1, <3>2 DEF Calls
    <3>7. QED  BY <3>5, <3>6
  <2>2. CASE out.pc = "deliver" /\ out'.buf = out.buf /\ out'.num = out.num
             /\ callbacks' = callbacks /\ item'[out.buf] = item[out.buf]
    BY <2>2 DEF WithinLimit, Calls
  <2>3. ASSUME ~Take
        PROVE  /\ out.pc = "deliver" /\ out'.buf = out.buf /\ out'.num = out.num
               /\ UNCHANGED item \/ \E e \in Edefs, n \in 1 .. ResultsMax : Swap(e, n)
    <3>1. out \in [pc : {"wait", "deliver", "release", "drop", "pop", "stopped"},
                   buf : Places, num : 0 .. ResultsMax, it : Nat]
      BY DEF OutInv, FlowTypes
    <3>2. CASE InputStep
      BY <3>1, <3>2 DEF InputStep, Push, Swap, resultVars
    <3>3. CASE OutputStep
      BY <2>3, <3>1, <3>3 DEF OutputStep, Deliver, Delivered, DropBuf, Pop, Asleep
    <3>4. CASE UserStep
      BY <3>1, <3>4 DEF UserStep, Release, ResetSelf, addSink, delSink, resultVars
    <3>5. CASE ExitStep
      BY <3>1, <3>5 DEF ExitStep, DestroyPool, StopOutput, DestroyOutput, StopInput, DestroySlot,
                        Asleep, resultVars
    <3>6. CASE UNCHANGED vars
      BY <3>6 DEF vars, resultVars
    <3>7. QED  BY <3>2, <3>3, <3>4, <3>5, <3>6 DEF Next
  <2>4. CASE ~Take
    <3>1. callbacks' = callbacks
      <4>1. ~OmtxFree
        BY <2>3, <2>4 DEF OmtxFree
      <4>2. QED  BY <4>1, OtherSteps DEF addSink, delSink, sinkVars
    <3>2. item'[out.buf] = item[out.buf]
      <4>1. ASSUME NEW e \in Edefs, NEW n \in 1 .. ResultsMax, Swap(e, n)
            PROVE  item'[out.buf] = item[out.buf]
        <5>1. out.buf \in Blocks /\ out.buf \in self
          BY <2>3, <2>4 DEF OutInv, FlowTypes, Shape, Serving, Places, Counts, CountExact
        <5>2. work[e] # out.buf
          BY <4>1, <5>1 DEF OutInv, Distinct, Shape, Swap
        <5>3. item' = [item EXCEPT ![work[e]] = [edef |-> e, num |-> n]]
          BY <4>1 DEF Swap
        <5>4. QED  BY <5>1, <5>2, <5>3 DEF OutInv, FlowTypes
      <4>2. QED  BY <2>3, <2>4, <4>1
    <3>3. QED  BY <2>2, <2>3, <2>4, <3>1, <3>2
  <2>5. QED  BY <2>1, <2>4
<1>3. QED  BY <1>1, <1>2, OutputInvariant, PTL DEF Spec
=============================================================================
