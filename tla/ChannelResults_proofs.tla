----------------------- MODULE ChannelResults_proofs -----------------------
(***************************************************************************)
(* Proofs about ChannelResults, for any size of the result buffers, any    *)
(* severities, any patterns and any number of pulses: averages are made    *)
(* in place, the results handed out are exactly the averages done, and the *)
(* dirty bit tells of those that time-outs have to send.                   *)
(***************************************************************************)
EXTENDS ChannelResults, WellFoundedInduction, FiniteSetTheorems, SequenceTheorems, TLAPS

-----------------------------------------------------------------------------
(* Buffers. *)

Places == 0 .. ResultsMax - 1

Result == [count : Int, missed : Int, pid : Int, sevr : Int,
           rms : {"unset", "junk", "sum", "root", "nan", "wrong"}]

Buffer == [num : 0 .. ResultsMax, isInit : BOOLEAN, initTs : Int,
           results : [Places -> Result]]

Channel == [work : Buffer, cur : Places, dirty : BOOLEAN, sent : Seq(Buffer)]

Record == [shape : Shapes, datum : {Missing} \cup Severities]

LEMMA NewBufferType ==
  /\ NewBuffer \in Buffer /\ NewBuffer.num = 0 /\ NewBuffer.isInit = FALSE
  /\ NewBuffer.initTs = 0 /\ NewBuffer.results \in [Places -> Result] /\ 0 \in Places
<1>1. Unset \in Result
  BY DEF Unset, Result
<1>2. 0 \in Places /\ 0 \in 0 .. ResultsMax
  BY ResultsAssumption DEF Places
<1>3. [k \in 0 .. ResultsMax - 1 |-> Unset] \in [Places -> Result]
  BY <1>1 DEF Places
<1>4. QED  BY <1>2, <1>3 DEF NewBuffer, Buffer

LEMMA SetResult ==
  ASSUME NEW w \in Buffer, NEW k \in Places, NEW e \in Result
  PROVE  LET u == [w EXCEPT !.results[k] = e] IN
         /\ u \in Buffer
         /\ u.num = w.num /\ u.isInit = w.isInit /\ u.initTs = w.initTs
         /\ u.results \in [Places -> Result]
         /\ \A j \in Places : u.results[j] = IF j = k THEN e ELSE w.results[j]
<1>1. w.results \in [Places -> Result]
  BY DEF Buffer
<1>2. [w.results EXCEPT ![k] = e] \in [Places -> Result]
  BY <1>1
<1>3. QED  BY <1>1, <1>2 DEF Buffer

\* One field of a result at a time: the provers need the whole record.
LEMMA PutCount ==
  ASSUME NEW r \in Result, NEW x
  PROVE  [r EXCEPT !.count = x] =
           [count |-> x, missed |-> r.missed, pid |-> r.pid, sevr |-> r.sevr, rms |-> r.rms]
BY DEF Result

LEMMA PutMissed ==
  ASSUME NEW r \in Result, NEW x
  PROVE  [r EXCEPT !.missed = x] =
           [count |-> r.count, missed |-> x, pid |-> r.pid, sevr |-> r.sevr, rms |-> r.rms]
BY DEF Result

LEMMA PutPid ==
  ASSUME NEW r \in Result, NEW x
  PROVE  [r EXCEPT !.pid = x] =
           [count |-> r.count, missed |-> r.missed, pid |-> x, sevr |-> r.sevr, rms |-> r.rms]
BY DEF Result

LEMMA PutSevr ==
  ASSUME NEW r \in Result, NEW x
  PROVE  [r EXCEPT !.sevr = x] =
           [count |-> r.count, missed |-> r.missed, pid |-> r.pid, sevr |-> x, rms |-> r.rms]
BY DEF Result

LEMMA PutRms ==
  ASSUME NEW r \in Result, NEW x
  PROVE  [r EXCEPT !.rms = x] =
           [count |-> r.count, missed |-> r.missed, pid |-> r.pid, sevr |-> r.sevr, rms |-> x]
BY DEF Result

\* What resetAvg makes of the sum of squares.
Rooted(x) == CASE x = "sum" -> "root" [] x = "junk" -> "junk" [] OTHER -> "wrong"

\* What the parts of BsaComp do to a result.
LEMMA CompResults ==
  ASSUME NEW r \in Result
  PROVE  /\ WrapUp(r) = [count |-> r.count, missed |-> r.missed, pid |-> r.pid,
                         sevr |-> IF r.count >= 1 THEN r.sevr ELSE Invalid,
                         rms |-> IF r.count < 1 THEN "nan" ELSE Rooted(r.rms)]
         /\ Restart(r) = [count |-> 0, missed |-> 0, pid |-> r.pid, sevr |-> 0, rms |-> "sum"]
         /\ \A pid \in Int :
              miss(r, pid) = [count |-> r.count, missed |-> r.missed + 1,
                              pid |-> IF r.count = 0 THEN pid ELSE r.pid,
                              sevr |-> r.sevr, rms |-> r.rms]
         /\ \A pid, sevr, limit \in Int :
              addData(r, pid, sevr, limit) =
                IF sevr >= limit
                  THEN [count |-> r.count, missed |-> r.missed,
                        pid |-> IF r.count = 0 THEN pid ELSE r.pid,
                        sevr |-> r.sevr, rms |-> r.rms]
                  ELSE [count |-> r.count + 1, missed |-> r.missed, pid |-> pid,
                        sevr |-> IF sevr > r.sevr THEN sevr ELSE r.sevr, rms |-> r.rms]
<1>1. r.count \in Int /\ r.missed \in Int /\ r.pid \in Int /\ r.sevr \in Int
      /\ r.rms \in {"unset", "junk", "sum", "root", "nan", "wrong"} /\ Invalid \in Int
  BY ResultsAssumption DEF Result
<1>2. WrapUp(r) = [count |-> r.count, missed |-> r.missed, pid |-> r.pid,
                   sevr |-> IF r.count >= 1 THEN r.sevr ELSE Invalid,
                   rms |-> IF r.count < 1 THEN "nan" ELSE Rooted(r.rms)]
  <2>1. CASE r.count >= 1
    <3>1. WrapUp(r) = [r EXCEPT !.rms = Rooted(r.rms)]
      BY <2>1 DEF WrapUp, Rooted
    <3>2. QED  BY <1>1, <2>1, <3>1, PutRms
  <2>2. CASE ~(r.count >= 1)
    <3> DEFINE s == [r EXCEPT !.rms = "nan"]
    <3>1. WrapUp(r) = [s EXCEPT !.sevr = Invalid]
      BY <2>2 DEF WrapUp
    <3>2. s = [count |-> r.count, missed |-> r.missed, pid |-> r.pid, sevr |-> r.sevr,
               rms |-> "nan"]
      BY PutRms
    <3>3. s \in Result
      BY <1>1, <3>2 DEF Result
    <3> HIDE DEF s
    <3>4. QED  BY <1>1, <2>2, <3>1, <3>2, <3>3, PutSevr
  <2>3. QED  BY <2>1, <2>2
<1>3. Restart(r) = [count |-> 0, missed |-> 0, pid |-> r.pid, sevr |-> 0, rms |-> "sum"]
  <2> DEFINE s == [r EXCEPT !.rms = "sum"]
             t == [s EXCEPT !.count = 0]
             u == [t EXCEPT !.sevr = 0]
  <2>1. Restart(r) = [u EXCEPT !.missed = 0]
    BY DEF Restart
  <2>2. s = [count |-> r.count, missed |-> r.missed, pid |-> r.pid, sevr |-> r.sevr,
             rms |-> "sum"]
    BY PutRms
  <2>3. s \in Result
    BY <1>1, <2>2 DEF Result
  <2> HIDE DEF s
  <2>4. t = [count |-> 0, missed |-> r.missed, pid |-> r.pid, sevr |-> r.sevr, rms |-> "sum"]
    BY <2>2, <2>3, PutCount
  <2>5. t \in Result
    BY <1>1, <2>4 DEF Result
  <2> HIDE DEF t
  <2>6. u = [count |-> 0, missed |-> r.missed, pid |-> r.pid, sevr |-> 0, rms |-> "sum"]
    BY <2>4, <2>5, PutSevr
  <2>7. u \in Result
    BY <1>1, <2>6 DEF Result
  <2> HIDE DEF u
  <2>8. QED  BY <2>1, <2>6, <2>7, PutMissed
<1>4. ASSUME NEW pid \in Int
      PROVE  miss(r, pid) = [count |-> r.count, missed |-> r.missed + 1,
                             pid |-> IF r.count = 0 THEN pid ELSE r.pid,
                             sevr |-> r.sevr, rms |-> r.rms]
  <2> DEFINE p == IF r.count = 0 THEN pid ELSE r.pid
             q == r.missed + 1
             s == [r EXCEPT !.pid = p]
  <2>1. miss(r, pid) = [s EXCEPT !.missed = q]
    BY DEF miss
  <2>2. p \in Int
    BY <1>1, <1>4
  <2>3. s = [count |-> r.count, missed |-> r.missed, pid |-> p, sevr |-> r.sevr, rms |-> r.rms]
    <3> HIDE DEF p
    <3>1. QED  BY PutPid
  <2>4. s \in Result
    BY <1>1, <2>2, <2>3 DEF Result
  <2> HIDE DEF p, q, s
  <2>5. [s EXCEPT !.missed = q] = [count |-> r.count, missed |-> q, pid |-> p,
                                   sevr |-> r.sevr, rms |-> r.rms]
    BY <2>3, <2>4, PutMissed
  <2>6. QED  BY <2>1, <2>5 DEF p, q
<1>5. ASSUME NEW pid \in Int, NEW sevr \in Int, NEW limit \in Int
      PROVE  addData(r, pid, sevr, limit) =
               IF sevr >= limit
                 THEN [count |-> r.count, missed |-> r.missed,
                       pid |-> IF r.count = 0 THEN pid ELSE r.pid,
                       sevr |-> r.sevr, rms |-> r.rms]
                 ELSE [count |-> r.count + 1, missed |-> r.missed, pid |-> pid,
                       sevr |-> IF sevr > r.sevr THEN sevr ELSE r.sevr, rms |-> r.rms]
  <2>1. CASE sevr >= limit
    <3> DEFINE p == IF r.count = 0 THEN pid ELSE r.pid
    <3>1. addData(r, pid, sevr, limit) = [r EXCEPT !.pid = p]
      BY <2>1 DEF addData
    <3> HIDE DEF p
    <3>2. [r EXCEPT !.pid = p] = [count |-> r.count, missed |-> r.missed, pid |-> p,
                                  sevr |-> r.sevr, rms |-> r.rms]
      BY PutPid
    <3>3. QED  BY <2>1, <3>1, <3>2 DEF p
  <2>2. CASE ~(sevr >= limit)
    <3> DEFINE n == r.count + 1
               v == IF sevr > r.sevr THEN sevr ELSE r.sevr
               s == [r EXCEPT !.pid = pid]
               t == [s EXCEPT !.count = n]
    <3>1. addData(r, pid, sevr, limit) = [t EXCEPT !.sevr = v]
      BY <2>2 DEF addData
    <3>2. n \in Int
      BY <1>1
    <3>3. s = [count |-> r.count, missed |-> r.missed, pid |-> pid, sevr |-> r.sevr,
               rms |-> r.rms]
      BY PutPid
    <3>4. s \in Result
      BY <1>1, <1>5, <3>3 DEF Result
    <3> HIDE DEF n, v, s
    <3>5. t = [count |-> n, missed |-> r.missed, pid |-> pid, sevr |-> r.sevr, rms |-> r.rms]
      BY <3>3, <3>4, PutCount
    <3>6. t \in Result
      BY <1>1, <1>5, <3>2, <3>5 DEF Result
    <3> HIDE DEF t
    <3>7. [t EXCEPT !.sevr = v] = [count |-> n, missed |-> r.missed, pid |-> pid,
                                   sevr |-> v, rms |-> r.rms]
      BY <3>5, <3>6, PutSevr
    <3>8. QED  BY <2>2, <3>1, <3>7 DEF n, v
  <2>3. QED  BY <2>1, <2>2
<1>6. QED  BY <1>2, <1>3, <1>4, <1>5

LEMMA CompTypes ==
  ASSUME NEW r \in Result
  PROVE  /\ WrapUp(r) \in Result
         /\ Restart(r) \in Result
         /\ \A pid \in Int : miss(r, pid) \in Result /\ miss(r, pid).rms = r.rms
         /\ \A pid, sevr, limit \in Int :
              addData(r, pid, sevr, limit) \in Result /\ addData(r, pid, sevr, limit).rms = r.rms
<1>1. Invalid \in Int
  BY ResultsAssumption
<1>2. r.count \in Int /\ r.missed \in Int /\ r.pid \in Int /\ r.sevr \in Int
      /\ r.rms \in {"unset", "junk", "sum", "root", "nan", "wrong"}
  BY DEF Result
<1>3. WrapUp(r) \in Result
  <2>1. Rooted(r.rms) \in {"root", "junk", "wrong"}
    BY DEF Rooted
  <2>2. QED  BY <1>1, <1>2, <2>1, CompResults DEF Result
<1>4. Restart(r) \in Result
  BY <1>2, CompResults DEF Result
<1>5. ASSUME NEW pid \in Int
      PROVE  miss(r, pid) \in Result /\ miss(r, pid).rms = r.rms
  BY <1>2, CompResults DEF Result
<1>6. ASSUME NEW pid \in Int, NEW sevr \in Int, NEW limit \in Int
      PROVE  addData(r, pid, sevr, limit) \in Result /\ addData(r, pid, sevr, limit).rms = r.rms
  <2>1. CASE sevr >= limit
    BY <1>2, <2>1, CompResults DEF Result
  <2>2. CASE ~(sevr >= limit)
    BY <1>2, <2>2, CompResults DEF Result
  <2>3. QED  BY <2>1, <2>2
<1>7. QED  BY <1>3, <1>4, <1>5, <1>6

LEMMA WrappedType ==
  ASSUME NEW w \in Buffer, NEW k \in Places
  PROVE  /\ Wrapped(w, k) \in Buffer
         /\ Wrapped(w, k).num = w.num
         /\ Wrapped(w, k).isInit = w.isInit /\ Wrapped(w, k).initTs = w.initTs
         /\ \A j \in Places :
              Wrapped(w, k).results[j] = IF j = k THEN WrapUp(w.results[k]) ELSE w.results[j]
<1>1. w.results[k] \in Result
  BY DEF Buffer
<1>2. WrapUp(w.results[k]) \in Result
  BY <1>1, CompTypes
<1>3. Wrapped(w, k) = [w EXCEPT !.results[k] = WrapUp(w.results[k])]
  BY DEF Wrapped
<1>4. QED  BY <1>2, <1>3, SetResult
LEMMA BufferFields ==
  ASSUME NEW w \in Buffer
  PROVE  /\ w.num \in 0 .. ResultsMax /\ w.isInit \in BOOLEAN /\ w.initTs \in Int
         /\ w.results \in [Places -> Result]
         /\ \A j \in Places : w.results[j] \in Result
BY DEF Buffer

LEMMA SetNum ==
  ASSUME NEW w \in Buffer, NEW n \in 0 .. ResultsMax
  PROVE  LET u == [w EXCEPT !.num = n] IN
         /\ u \in Buffer
         /\ u.num = n /\ u.isInit = w.isInit /\ u.initTs = w.initTs /\ u.results = w.results
BY DEF Buffer

LEMMA SetInit ==
  ASSUME NEW w \in Buffer, NEW pid \in Int
  PROVE  LET u == [w EXCEPT !.isInit = TRUE, !.initTs = pid] IN
         /\ u \in Buffer
         /\ u.num = w.num /\ u.isInit = TRUE /\ u.initTs = pid /\ u.results = w.results
<1> DEFINE v == [w EXCEPT !.isInit = TRUE]
<1>1. /\ v \in Buffer
      /\ v.num = w.num /\ v.isInit = TRUE /\ v.initTs = w.initTs /\ v.results = w.results
  BY DEF Buffer
<1>2. [w EXCEPT !.isInit = TRUE, !.initTs = pid] = [v EXCEPT !.initTs = pid]
  OBVIOUS
<1> HIDE DEF v
<1>3. LET u == [v EXCEPT !.initTs = pid] IN
        /\ u \in Buffer
        /\ u.num = v.num /\ u.isInit = v.isInit /\ u.initTs = pid /\ u.results = v.results
  BY <1>1 DEF Buffer
<1>4. QED  BY <1>1, <1>2, <1>3

LEMMA ChannelFields ==
  ASSUME NEW c \in Channel
  PROVE  /\ c.work \in Buffer /\ c.cur \in Places /\ c.dirty \in BOOLEAN
         /\ c.sent \in Seq(Buffer)
         /\ c = [work |-> c.work, cur |-> c.cur, dirty |-> c.dirty, sent |-> c.sent]
BY DEF Channel

\* A new average: no data yet.
Blank(r) == r.count = 0 /\ r.missed = 0 /\ r.sevr = 0 /\ r.rms = "sum"

\* comp_ averages after the finished results.
Open == {"sum", "junk"}

InWork(c) == c.cur = c.work.num /\ c.work.results[c.cur].rms \in Open

BeginPost(c, pid, w) ==
  /\ Begin(c, pid) =
       [work |-> w, cur |-> 0, dirty |-> c.dirty,
        sent |-> IF c.work.num > 0 THEN Append(c.sent, Wrapped(c.work, c.cur)) ELSE c.sent]
  /\ w.num = 0 /\ w.isInit = TRUE /\ w.initTs = pid
  /\ Blank(w.results[0])

LEMMA BeginIs ==
  ASSUME NEW c \in Channel, NEW pid \in Int, InWork(c)
  PROVE  \E w \in Buffer : BeginPost(c, pid, w)
<1> DEFINE old  == Wrapped(c.work, c.cur)
           swap == old.num > 0
           base == IF swap THEN NewBuffer ELSE old
           e    == Restart(base.results[0])
           v    == [base EXCEPT !.results[0] = e]
           w    == [v EXCEPT !.isInit = TRUE, !.initTs = pid]
           sent == IF swap THEN Append(c.sent, old) ELSE c.sent
<1>1. /\ c.work \in Buffer /\ c.cur \in Places
      /\ c = [work |-> c.work, cur |-> c.cur, dirty |-> c.dirty, sent |-> c.sent]
  BY ChannelFields
<1>2. old \in Buffer /\ old.num = c.work.num /\ c.work.num \in 0 .. ResultsMax
  BY <1>1, WrappedType, BufferFields
<1>3. base \in Buffer /\ base.num = 0 /\ 0 \in Places
  <2> HIDE DEF old
  <2>1. QED  BY <1>2, NewBufferType, ResultsAssumption
<1>4. e \in Result /\ Blank(e)
  <2> HIDE DEF base
  <2>1. base.results[0] \in Result
    BY <1>3, BufferFields
  <2>2. e = [count |-> 0, missed |-> 0, pid |-> base.results[0].pid, sevr |-> 0, rms |-> "sum"]
    BY <2>1, CompResults
  <2>3. e \in Result
    BY <2>1, CompTypes
  <2> HIDE DEF e
  <2>4. QED  BY <2>2, <2>3 DEF Blank
<1>5. v \in Buffer /\ v.num = 0 /\ v.results[0] = e
  <2> HIDE DEF base, e
  <2>1. QED  BY <1>3, <1>4, SetResult
<1>6. w \in Buffer /\ w.num = 0 /\ w.isInit = TRUE /\ w.initTs = pid /\ w.results[0] = e
  <2> HIDE DEF v
  <2>1. QED  BY <1>5, SetInit
<1>7. Begin(c, pid) = [[[c EXCEPT !.work = w] EXCEPT !.cur = 0] EXCEPT !.sent = sent]
  BY DEF Begin
<1> HIDE DEF w, sent
<1>8. [[[c EXCEPT !.work = w] EXCEPT !.cur = 0] EXCEPT !.sent = sent] =
        [work |-> w, cur |-> 0, dirty |-> c.dirty, sent |-> sent]
  <2> DEFINE c1 == [c EXCEPT !.work = w]
             c2 == [c1 EXCEPT !.cur = 0]
  <2>1. c1 = [work |-> w, cur |-> c.cur, dirty |-> c.dirty, sent |-> c.sent]
    BY <1>1
  <2> HIDE DEF c1
  <2>2. c2 = [work |-> w, cur |-> 0, dirty |-> c.dirty, sent |-> c.sent]
    BY <2>1
  <2> HIDE DEF c2
  <2>3. [c2 EXCEPT !.sent = sent] = [work |-> w, cur |-> 0, dirty |-> c.dirty, sent |-> sent]
    BY <2>2
  <2>4. QED  BY <2>3 DEF c2, c1
<1>9. sent = IF c.work.num > 0 THEN Append(c.sent, Wrapped(c.work, c.cur)) ELSE c.sent
  BY <1>2 DEF sent
<1>10. Blank(w.results[0])
  BY <1>4, <1>6
<1> HIDE DEF old, swap, base, e, v
<1>11. BeginPost(c, pid, w)
  BY <1>6, <1>7, <1>8, <1>9, <1>10 DEF BeginPost
<1>12. QED  BY <1>6, <1>11

\* The result in progress after a pulse.
Averaged(r, pid, datum, limit) ==
  IF datum = Missing THEN miss(r, pid) ELSE addData(r, pid, datum, limit)

LEMMA AveragedType ==
  ASSUME NEW r \in Result, NEW pid \in Int, NEW datum \in {Missing} \cup Severities,
         NEW limit \in Int
  PROVE  /\ Averaged(r, pid, datum, limit) \in Result
         /\ Averaged(r, pid, datum, limit).rms = r.rms
<1>1. datum \in Int
  BY ResultsAssumption DEF Missing
<1>2. QED  BY <1>1, CompTypes DEF Averaged

AveragePost(c, pid, datum, limit, w) ==
  /\ Average(c, pid, datum, limit) =
       [work |-> w, cur |-> c.cur, dirty |-> TRUE, sent |-> c.sent]
  /\ w.num = c.work.num /\ w.isInit = c.work.isInit /\ w.initTs = c.work.initTs
  /\ \A j \in Places :
       w.results[j] = IF j = c.cur
                        THEN Averaged(c.work.results[c.cur], pid, datum, limit)
                        ELSE c.work.results[j]

LEMMA AverageIs ==
  ASSUME NEW c \in Channel, NEW pid \in Int, NEW datum \in {Missing} \cup Severities,
         NEW limit \in Int
  PROVE  \E w \in Buffer : AveragePost(c, pid, datum, limit, w)
<1> DEFINE e == Averaged(c.work.results[c.cur], pid, datum, limit)
           w == [c.work EXCEPT !.results[c.cur] = e]
<1>1. /\ c.work \in Buffer /\ c.cur \in Places
      /\ c = [work |-> c.work, cur |-> c.cur, dirty |-> c.dirty, sent |-> c.sent]
  BY ChannelFields
<1>2. e \in Result
  BY <1>1, AveragedType, BufferFields
<1>3. /\ w \in Buffer /\ w.num = c.work.num /\ w.isInit = c.work.isInit
      /\ w.initTs = c.work.initTs
      /\ \A j \in Places : w.results[j] = IF j = c.cur THEN e ELSE c.work.results[j]
  <2> HIDE DEF e
  <2>1. QED  BY <1>1, <1>2, SetResult
<1>4. Average(c, pid, datum, limit) = [[c EXCEPT !.work = w] EXCEPT !.dirty = TRUE]
  BY DEF Average, Averaged
<1> HIDE DEF w
<1>5. [[c EXCEPT !.work = w] EXCEPT !.dirty = TRUE] =
        [work |-> w, cur |-> c.cur, dirty |-> TRUE, sent |-> c.sent]
  <2> DEFINE c1 == [c EXCEPT !.work = w]
  <2>1. c1 = [work |-> w, cur |-> c.cur, dirty |-> c.dirty, sent |-> c.sent]
    BY <1>1
  <2> HIDE DEF c1
  <2> DEFINE t == TRUE
  <2> HIDE DEF t
  <2>2. [c1 EXCEPT !.dirty = t] = [work |-> w, cur |-> c.cur, dirty |-> t, sent |-> c.sent]
    BY <2>1
  <2>3. QED  BY <2>2 DEF c1, t
<1> HIDE DEF e
<1>6. AveragePost(c, pid, datum, limit, w)
  BY <1>3, <1>4, <1>5 DEF AveragePost, e
<1>7. QED  BY <1>3, <1>6
\* w is the buffer after it, o what becomes of the buffer before it.
FinishPost(c, shape, num, w, o) ==
  /\ Finish(c, shape) =
       IF Swaps(num, shape)
         THEN [work |-> w, cur |-> 0, dirty |-> FALSE, sent |-> Append(c.sent, o)]
         ELSE [work |-> w, cur |-> num, dirty |-> c.dirty, sent |-> c.sent]
  /\ o.num = num /\ o.isInit = c.work.isInit /\ o.initTs = c.work.initTs
  /\ \A j \in Places :
       o.results[j] = IF j = c.cur THEN WrapUp(c.work.results[c.cur]) ELSE c.work.results[j]
  /\ Swaps(num, shape) =>
       w.num = 0 /\ w.isInit = FALSE /\ w.initTs = 0 /\ Blank(w.results[0])
  /\ ~Swaps(num, shape) =>
       /\ num \in Places
       /\ w.num = num /\ w.isInit = c.work.isInit /\ w.initTs = c.work.initTs
       /\ Blank(w.results[num])
       /\ \A j \in 0 .. num - 1 : w.results[j] = o.results[j]

LEMMA FinishIs ==
  ASSUME NEW c \in Channel, NEW shape \in Shapes, NEW num \in 0 .. ResultsMax,
         maxResults \in 1 .. ResultsMax, InWork(c),
         num = c.work.num + (IF shape.avgDone THEN 1 ELSE 0)
  PROVE  \E w \in Buffer, o \in Buffer : FinishPost(c, shape, num, w, o)
<1> DEFINE old  == [Wrapped(c.work, c.cur) EXCEPT !.num = num]
           swap == Swaps(num, shape)
           base == IF swap THEN NewBuffer ELSE old
           e    == Restart(base.results[base.num])
           w    == [base EXCEPT !.results[base.num] = e]
           dirty == IF swap THEN FALSE ELSE c.dirty
           sent == IF swap THEN Append(c.sent, old) ELSE c.sent
<1>1. /\ c.work \in Buffer /\ c.cur \in Places /\ c.cur = c.work.num
      /\ c = [work |-> c.work, cur |-> c.cur, dirty |-> c.dirty, sent |-> c.sent]
  BY ChannelFields DEF InWork
<1>2. /\ old \in Buffer /\ old.num = num
      /\ old.isInit = c.work.isInit /\ old.initTs = c.work.initTs
      /\ \A j \in Places :
           old.results[j] = IF j = c.cur THEN WrapUp(c.work.results[c.cur])
                                         ELSE c.work.results[j]
  <2> DEFINE u == Wrapped(c.work, c.cur)
  <2>1. /\ u \in Buffer /\ u.isInit = c.work.isInit /\ u.initTs = c.work.initTs
        /\ \A j \in Places :
             u.results[j] = IF j = c.cur THEN WrapUp(c.work.results[c.cur])
                                         ELSE c.work.results[j]
    BY <1>1, WrappedType
  <2> HIDE DEF u
  <2>2. LET v == [u EXCEPT !.num = num] IN
        /\ v \in Buffer /\ v.num = num /\ v.isInit = u.isInit /\ v.initTs = u.initTs
        /\ v.results = u.results
    BY <2>1, SetNum
  <2>3. QED  BY <2>1, <2>2 DEF u
<1>3. ~swap => num \in Places
  <2>1. CASE shape.avgDone
    BY <2>1, ResultsAssumption DEF Swaps, Places
  <2>2. CASE ~shape.avgDone
    <3>1. c.cur \in Int
      BY <1>1, ResultsAssumption DEF Places
    <3>2. num = c.cur
      BY <1>1, <2>2, <3>1
    <3>3. QED  BY <1>1, <3>2
  <2>3. QED  BY <2>1, <2>2
<1>4. base \in Buffer /\ base.num \in Places /\ base.num = IF swap THEN 0 ELSE num
  <2> HIDE DEF old, swap
  <2>1. QED  BY <1>2, <1>3, NewBufferType
<1>5. e \in Result /\ Blank(e)
  <2> HIDE DEF base
  <2>1. base.results[base.num] \in Result
    BY <1>4, BufferFields
  <2>2. e = [count |-> 0, missed |-> 0, pid |-> base.results[base.num].pid, sevr |-> 0,
             rms |-> "sum"]
    BY <2>1, CompResults
  <2>3. e \in Result
    BY <2>1, CompTypes
  <2> HIDE DEF e
  <2>4. QED  BY <2>2, <2>3 DEF Blank
<1>6. /\ w \in Buffer /\ w.num = base.num /\ w.isInit = base.isInit /\ w.initTs = base.initTs
      /\ \A j \in Places : w.results[j] = IF j = base.num THEN e ELSE base.results[j]
  <2> HIDE DEF base, e
  <2>1. QED  BY <1>4, <1>5, SetResult
<1>7. Finish(c, shape) = [[[[c EXCEPT !.work = w] EXCEPT !.cur = base.num] EXCEPT
                             !.dirty = dirty] EXCEPT !.sent = sent]
  BY DEF Finish
<1>8. [[[[c EXCEPT !.work = w] EXCEPT !.cur = base.num] EXCEPT
           !.dirty = dirty] EXCEPT !.sent = sent] =
        [work |-> w, cur |-> base.num, dirty |-> dirty, sent |-> sent]
  <2> DEFINE k  == base.num
             c1 == [c EXCEPT !.work = w]
             c2 == [c1 EXCEPT !.cur = k]
             c3 == [c2 EXCEPT !.dirty = dirty]
  <2> HIDE DEF w, dirty, sent, k
  <2>1. c1 = [work |-> w, cur |-> c.cur, dirty |-> c.dirty, sent |-> c.sent]
    BY <1>1
  <2> HIDE DEF c1
  <2>2. c2 = [work |-> w, cur |-> k, dirty |-> c.dirty, sent |-> c.sent]
    BY <2>1
  <2> HIDE DEF c2
  <2>3. c3 = [work |-> w, cur |-> k, dirty |-> dirty, sent |-> c.sent]
    BY <2>2
  <2> HIDE DEF c3
  <2>4. [c3 EXCEPT !.sent = sent] = [work |-> w, cur |-> k, dirty |-> dirty, sent |-> sent]
    BY <2>3
  <2>5. QED  BY <2>4 DEF c3, c2, c1, k
<1>9. Finish(c, shape) =
        IF swap THEN [work |-> w, cur |-> 0, dirty |-> FALSE, sent |-> Append(c.sent, old)]
                ELSE [work |-> w, cur |-> num, dirty |-> c.dirty, sent |-> c.sent]
  <2>1. CASE swap
    <3>1. base.num = 0 /\ dirty = FALSE /\ sent = Append(c.sent, old)
      BY <1>4, <2>1
    <3> HIDE DEF base, w, dirty, sent
    <3>2. QED  BY <1>7, <1>8, <2>1, <3>1
  <2>2. CASE ~swap
    <3>1. base.num = num /\ dirty = c.dirty /\ sent = c.sent
      BY <1>4, <2>2
    <3> HIDE DEF base, w, dirty, sent
    <3>2. QED  BY <1>7, <1>8, <2>2, <3>1
  <2>3. QED  BY <2>1, <2>2
<1>10. swap => w.num = 0 /\ w.isInit = FALSE /\ w.initTs = 0 /\ Blank(w.results[0])
  <2> SUFFICES ASSUME swap
               PROVE  w.num = 0 /\ w.isInit = FALSE /\ w.initTs = 0 /\ Blank(w.results[0])
    OBVIOUS
  <2>1. base = NewBuffer
    OBVIOUS
  <2> HIDE DEF base, e, w
  <2>2. QED  BY <1>5, <1>6, <2>1, NewBufferType
<1>11. ~swap =>
         /\ w.num = num /\ w.isInit = c.work.isInit /\ w.initTs = c.work.initTs
         /\ Blank(w.results[num])
         /\ \A j \in 0 .. num - 1 : w.results[j] = old.results[j]
  <2> SUFFICES ASSUME ~swap
               PROVE  /\ w.num = num /\ w.isInit = c.work.isInit /\ w.initTs = c.work.initTs
                      /\ Blank(w.results[num])
                      /\ \A j \in 0 .. num - 1 : w.results[j] = old.results[j]
    OBVIOUS
  <2>1. base = old /\ base.num = num /\ num \in Places
    BY <1>3, <1>4
  <2>2. \A j \in 0 .. num - 1 : j \in Places /\ j # num
    BY ResultsAssumption DEF Places
  <2> HIDE DEF base, e, w, old
  <2>3. QED  BY <1>2, <1>5, <1>6, <2>1, <2>2
<1> HIDE DEF old, base, e, w, dirty, sent
<1>12. FinishPost(c, shape, num, w, old)
  BY <1>2, <1>3, <1>9, <1>10, <1>11 DEF FinishPost
<1>13. QED  BY <1>2, <1>6, <1>12

\* The average in progress moves on unchanged.
LEMMA MovedIs ==
  ASSUME NEW c \in Channel
  PROVE  /\ Moved(c) \in Buffer
         /\ Moved(c).num = 0 /\ Moved(c).isInit = FALSE /\ Moved(c).initTs = 0
         /\ Moved(c).results[0] = c.work.results[c.cur]
<1> DEFINE e == c.work.results[c.cur]
<1>1. e \in Result
  BY ChannelFields, BufferFields
<1>2. Moved(c) = [NewBuffer EXCEPT !.results[0] = e]
  BY DEF Moved
<1> HIDE DEF e
<1>3. QED  BY <1>1, <1>2, NewBufferType, SetResult DEF e
-----------------------------------------------------------------------------
(* Types, and where comp_ works. *)

ChannelOK(c, n) ==
  /\ c \in Channel
  /\ InWork(c)
  /\ c.work.initTs \in 0 .. n

TypeInv ==
  /\ ChannelOK(chan, MaxPulse)
  /\ maxResults \in 1 .. ResultsMax
  /\ log \in Seq(Record)
  /\ Len(log) <= MaxPulse

LEMMA BeginTypes ==
  ASSUME NEW n \in Nat, NEW c, ChannelOK(c, n), NEW pid \in 1 .. n
  PROVE  ChannelOK(Begin(c, pid), n)
<1>1. /\ c \in Channel /\ InWork(c) /\ c.work \in Buffer /\ c.cur \in Places
      /\ c.sent \in Seq(Buffer) /\ c.dirty \in BOOLEAN
  BY ChannelFields DEF ChannelOK
<1> DEFINE sent == IF c.work.num > 0 THEN Append(c.sent, Wrapped(c.work, c.cur)) ELSE c.sent
<1>2. PICK w \in Buffer : BeginPost(c, pid, w)
  <2>1. pid \in Int
    OBVIOUS
  <2>2. QED  BY <1>1, <2>1, BeginIs
<1>3. sent \in Seq(Buffer)
  <2>1. Wrapped(c.work, c.cur) \in Buffer
    BY <1>1, WrappedType
  <2>2. QED  BY <1>1, <2>1, AppendProperties
<1> HIDE DEF sent
<1>4. 0 \in Places
  BY NewBufferType
<1>5. /\ Begin(c, pid) = [work |-> w, cur |-> 0, dirty |-> c.dirty, sent |-> sent]
      /\ w.num = 0 /\ w.initTs = pid /\ w.results[0].rms \in Open
  BY <1>2 DEF BeginPost, Blank, Open, sent
<1>6. QED  BY <1>1, <1>3, <1>4, <1>5 DEF ChannelOK, Channel, InWork

LEMMA AverageTypes ==
  ASSUME NEW n \in Nat, NEW c, ChannelOK(c, n), NEW pid \in Int,
         NEW datum \in {Missing} \cup Severities, NEW limit \in Int
  PROVE  ChannelOK(Average(c, pid, datum, limit), n)
<1>1. /\ c \in Channel /\ InWork(c) /\ c.work \in Buffer /\ c.cur \in Places
      /\ c.sent \in Seq(Buffer) /\ c.dirty \in BOOLEAN
  BY ChannelFields DEF ChannelOK
<1>2. PICK w \in Buffer : AveragePost(c, pid, datum, limit, w)
  BY <1>1, AverageIs
<1>3. w.results[c.cur].rms \in Open
  <2>1. c.work.results[c.cur] \in Result /\ c.work.results[c.cur].rms \in Open
    BY <1>1, BufferFields DEF InWork
  <2>2. Averaged(c.work.results[c.cur], pid, datum, limit).rms \in Open
    BY <2>1, AveragedType
  <2>3. QED  BY <1>1, <1>2, <2>2 DEF AveragePost
<1>4. c.cur = c.work.num /\ c.work.initTs \in 0 .. n
  BY DEF ChannelOK, InWork
<1> DEFINE t == TRUE
<1>5. Average(c, pid, datum, limit) = [work |-> w, cur |-> c.cur, dirty |-> t, sent |-> c.sent]
      /\ t \in BOOLEAN /\ w.num = c.work.num /\ w.initTs = c.work.initTs
  BY <1>2 DEF AveragePost
<1> HIDE DEF t
<1>6. QED  BY <1>1, <1>3, <1>4, <1>5 DEF ChannelOK, Channel, InWork

LEMMA FinishTypes ==
  ASSUME NEW n \in Nat, NEW c, ChannelOK(c, n), NEW shape \in Shapes,
         maxResults \in 1 .. ResultsMax
  PROVE  ChannelOK(Finish(c, shape), n)
<1>1. /\ c \in Channel /\ InWork(c) /\ c.work \in Buffer /\ c.cur \in Places
      /\ c.sent \in Seq(Buffer) /\ c.dirty \in BOOLEAN
  BY ChannelFields DEF ChannelOK
<1>2. c.cur = c.work.num /\ c.work.initTs \in 0 .. n /\ ResultsMax \in Nat \ {0}
  BY ResultsAssumption DEF ChannelOK, InWork
<1>3. PICK num \in 0 .. ResultsMax : num = c.work.num + (IF shape.avgDone THEN 1 ELSE 0)
  BY <1>1, <1>2 DEF Places
<1>4. PICK w \in Buffer, o \in Buffer : FinishPost(c, shape, num, w, o)
  BY <1>1, <1>3, FinishIs
<1>5. CASE Swaps(num, shape)
  <2> DEFINE f == FALSE
             sent == Append(c.sent, o)
  <2>1. /\ Finish(c, shape) = [work |-> w, cur |-> 0, dirty |-> f, sent |-> sent]
        /\ f \in BOOLEAN /\ w.num = 0 /\ w.initTs = 0 /\ w.results[0].rms \in Open
    BY <1>4, <1>5 DEF FinishPost, Blank, Open
  <2>2. sent \in Seq(Buffer) /\ 0 \in Places /\ 0 \in 0 .. n
    BY <1>1, AppendProperties, NewBufferType
  <2> HIDE DEF f, sent
  <2>3. QED  BY <2>1, <2>2 DEF ChannelOK, Channel, InWork
<1>6. CASE ~Swaps(num, shape)
  <2>1. /\ Finish(c, shape) = [work |-> w, cur |-> num, dirty |-> c.dirty, sent |-> c.sent]
        /\ num \in Places /\ w.num = num /\ w.initTs = c.work.initTs
        /\ w.results[num].rms \in Open
    BY <1>4, <1>6 DEF FinishPost, Blank, Open
  <2>2. QED  BY <1>1, <1>2, <2>1 DEF ChannelOK, Channel, InWork
<1>7. QED  BY <1>5, <1>6

\* What process makes of the channel.
Processed(c, pid, shape, datum) ==
  LET begun    == IF shape.init THEN Begin(c, pid) ELSE c
      averaged == IF shape.active THEN Average(begun, pid, datum, shape.limit) ELSE begun
  IN IF shape.avgDone \/ shape.update THEN Finish(averaged, shape) ELSE averaged

LEMMA ShapeType ==
  ASSUME NEW shape \in Shapes
  PROVE  /\ shape.init \in BOOLEAN /\ shape.active \in BOOLEAN
         /\ shape.avgDone \in BOOLEAN /\ shape.update \in BOOLEAN
         /\ shape.limit \in 1 .. Invalid /\ shape.limit \in Int
BY ResultsAssumption

LEMMA ProcessedTypes ==
  ASSUME NEW n \in Nat, NEW c, ChannelOK(c, n), NEW pid \in 1 .. n, NEW shape \in Shapes,
         NEW datum \in {Missing} \cup Severities, maxResults \in 1 .. ResultsMax
  PROVE  ChannelOK(Processed(c, pid, shape, datum), n)
<1> DEFINE begun    == IF shape.init THEN Begin(c, pid) ELSE c
           averaged == IF shape.active THEN Average(begun, pid, datum, shape.limit) ELSE begun
<1>1. ChannelOK(begun, n)
  BY BeginTypes
<1>2. ChannelOK(averaged, n)
  <2> HIDE DEF begun
  <2>1. pid \in Int /\ shape.limit \in Int
    BY ShapeType
  <2>2. ChannelOK(Average(begun, pid, datum, shape.limit), n)
    BY <1>1, <2>1, AverageTypes
  <2>3. QED  BY <1>1, <2>2
<1>3. Processed(c, pid, shape, datum) =
        IF shape.avgDone \/ shape.update THEN Finish(averaged, shape) ELSE averaged
  BY DEF Processed
<1> HIDE DEF averaged
<1>4. ChannelOK(Finish(averaged, shape), n)
  BY <1>2, FinishTypes
<1>5. QED  BY <1>2, <1>3, <1>4

LEMMA TypeStart ==
  Init => TypeInv
<1> SUFFICES ASSUME Init
             PROVE  TypeInv
  OBVIOUS
<1>1. PICK g \in Garbage :
        chan = [work |-> [NewBuffer EXCEPT !.results[0] =
                  [count |-> 0, missed |-> g.missed, pid |-> 0, sevr |-> g.sevr, rms |-> "junk"]],
                cur |-> 0, dirty |-> FALSE, sent |-> <<>>]
  BY DEF Init
<1> DEFINE e == [count |-> 0, missed |-> g.missed, pid |-> 0, sevr |-> g.sevr, rms |-> "junk"]
           w == [NewBuffer EXCEPT !.results[0] = e]
           f == FALSE
<1>2. e \in Result /\ e.rms \in Open
  BY ResultsAssumption DEF Result, Open
<1>3. w \in Buffer /\ w.num = 0 /\ w.initTs = 0 /\ w.results[0] = e
  <2> HIDE DEF e
  <2>1. QED  BY <1>2, NewBufferType, SetResult
<1>4. chan = [work |-> w, cur |-> 0, dirty |-> f, sent |-> <<>>] /\ f \in BOOLEAN
  BY <1>1
<1>5. <<>> \in Seq(Buffer) /\ 0 \in Places /\ 0 \in 0 .. MaxPulse
  BY NewBufferType, EmptySeq, ResultsAssumption
<1> HIDE DEF e, w, f
<1>6. ChannelOK(chan, MaxPulse)
  BY <1>2, <1>3, <1>4, <1>5 DEF ChannelOK, Channel, InWork
<1>7. log = <<>> /\ maxResults = ResultsMax
  BY DEF Init
<1>8. log \in Seq(Record) /\ Len(log) = 0
  BY <1>7, EmptySeq
<1>9. QED  BY <1>6, <1>7, <1>8, ResultsAssumption DEF TypeInv

LEMMA TypeStep ==
  TypeInv /\ [Next]_vars => TypeInv'
<1> SUFFICES ASSUME TypeInv, [Next]_vars
             PROVE  TypeInv'
  OBVIOUS
<1>1. /\ ChannelOK(chan, MaxPulse) /\ maxResults \in 1 .. ResultsMax
      /\ log \in Seq(Record) /\ Len(log) <= MaxPulse /\ MaxPulse \in Nat
      /\ ResultsMax \in Nat \ {0} /\ Len(log) \in Nat
  BY ResultsAssumption, LenProperties DEF TypeInv
<1>2. ASSUME NEW shape \in Shapes, NEW datum \in {Missing} \cup Severities,
             Len(log) < MaxPulse, process(shape, datum)
      PROVE  TypeInv'
  <2>1. /\ chan' = Processed(chan, Len(log) + 1, shape, datum)
        /\ log' = Append(log, [shape |-> shape, datum |-> datum])
        /\ maxResults' = maxResults
    BY <1>2 DEF process, Processed
  <2>2. Len(log) + 1 \in 1 .. MaxPulse
    BY <1>1, <1>2
  <2>3. ChannelOK(chan', MaxPulse)
    BY <1>1, <2>1, <2>2, ProcessedTypes
  <2>4. [shape |-> shape, datum |-> datum] \in Record
    BY DEF Record
  <2>5. log' \in Seq(Record) /\ Len(log') = Len(log) + 1
    BY <1>1, <2>1, <2>4, AppendProperties
  <2>6. QED  BY <1>1, <1>2, <2>1, <2>3, <2>5 DEF TypeInv
<1>3. CASE Pulse
  <2>1. PICK shape \in Shapes :
          \/ process(shape, Missing)
          \/ shape.active /\ \E sevr \in Severities : process(shape, sevr)
    BY <1>3 DEF Pulse
  <2>2. Len(log) < MaxPulse
    BY <1>3 DEF Pulse
  <2>3. QED  BY <1>2, <2>1, <2>2
<1>4. CASE Flush
  <2>1. maxResults' = maxResults /\ log' = log
    BY <1>4 DEF Flush
  <2> DEFINE f == FALSE
             sent == Append(chan.sent, chan.work)
  <2>2. /\ chan \in Channel /\ chan.work \in Buffer /\ chan.cur \in Places
        /\ chan.sent \in Seq(Buffer) /\ f \in BOOLEAN
        /\ chan = [work |-> chan.work, cur |-> chan.cur, dirty |-> chan.dirty,
                   sent |-> chan.sent]
        /\ chan.work.results[chan.cur].rms \in Open
    BY <1>1, ChannelFields DEF ChannelOK, InWork
  <2>3. CASE chan.work.num > 0
    <3>1. chan' = [work |-> Moved(chan), cur |-> 0, dirty |-> f, sent |-> sent]
      BY <1>4, <2>3 DEF Flush
    <3>2. /\ Moved(chan) \in Buffer /\ Moved(chan).num = 0 /\ Moved(chan).initTs = 0
          /\ Moved(chan).results[0].rms \in Open
      BY <2>2, MovedIs
    <3>3. sent \in Seq(Buffer) /\ 0 \in Places /\ 0 \in 0 .. MaxPulse
      BY <1>1, <2>2, AppendProperties, NewBufferType
    <3> HIDE DEF f, sent
    <3>4. ChannelOK(chan', MaxPulse)
      BY <2>2, <3>1, <3>2, <3>3 DEF ChannelOK, Channel, InWork
    <3>5. QED  BY <1>1, <2>1, <3>4 DEF TypeInv
  <2>4. CASE ~(chan.work.num > 0)
    <3>1. chan' = [chan EXCEPT !.dirty = f]
      BY <1>4, <2>4 DEF Flush
    <3> HIDE DEF f
    <3>2. chan' = [work |-> chan.work, cur |-> chan.cur, dirty |-> f, sent |-> chan.sent]
      BY <2>2, <3>1
    <3>3. ChannelOK(chan', MaxPulse)
      BY <1>1, <2>2, <3>2 DEF ChannelOK, Channel, InWork
    <3>4. QED  BY <1>1, <2>1, <3>3 DEF TypeInv
  <2>5. QED  BY <2>3, <2>4
<1>5. CASE SinkChange
  <2>1. chan' = chan /\ log' = log
    BY <1>5 DEF SinkChange
  <2>2. maxResults' \in 1 .. ResultsMax
    BY <1>1, <1>5 DEF SinkChange
  <2>3. QED  BY <1>1, <2>1, <2>2 DEF TypeInv
<1>6. CASE UNCHANGED vars
  BY <1>1, <1>6 DEF vars, TypeInv
<1>7. QED  BY <1>3, <1>4, <1>5, <1>6 DEF Next

\* The channel, its slot and the counters of results stay in their ranges.
THEOREM TypeCorrect ==
  Spec => []TypeOK
<1>1. TypeInv => TypeOK
  <2> SUFFICES ASSUME TypeInv
               PROVE  TypeOK
    OBVIOUS
  <2>1. /\ chan.work \in Buffer /\ chan.cur \in Places /\ chan.dirty \in BOOLEAN
        /\ chan.cur = chan.work.num /\ chan.work.initTs \in 0 .. MaxPulse
    BY ChannelFields DEF TypeInv, ChannelOK, InWork
  <2>2. chan.work.isInit \in BOOLEAN /\ DOMAIN chan.work.results = Places
    BY <2>1, BufferFields
  <2>3. QED  BY <2>1, <2>2 DEF TypeInv, TypeOK, Places
<1>2. QED  BY <1>1, TypeStart, TypeStep, PTL DEF Spec

\* The elements of the buffers are written where comp_ averages, and only
\* there: after the finished results, inside the array, and never in a
\* result that is wrapped up, however the sinks change the limit.
THEOREM AveragedInPlace ==
  Spec => []InPlace
<1>1. TypeInv => InPlace
  <2> SUFFICES ASSUME TypeInv
               PROVE  InPlace
    OBVIOUS
  <2>1. chan.cur \in Places /\ InWork(chan)
    BY ChannelFields DEF TypeInv, ChannelOK
  <2>2. chan.cur < ResultsMax
    BY <2>1, ResultsAssumption DEF Places
  <2>3. QED  BY <2>1, <2>2 DEF InPlace, InWork, Open
<1>2. QED  BY <1>1, TypeStart, TypeStep, PTL DEF Spec
-----------------------------------------------------------------------------
(* The history: what the averages should be, for any sequence of pulses. *)

IsMax(S, x) == x \in S /\ \A y \in S : y <= x

LEMMA MaxIs ==
  ASSUME NEW S, S \subseteq Int, NEW x, IsMax(S, x)
  PROVE  Max(S) = x
<1>1. x \in S /\ \A y \in S : x >= y
  BY DEF IsMax
<1> DEFINE z == Max(S)
<1>2. z \in S /\ \A y \in S : z >= y
  BY <1>1 DEF Max
<1> HIDE DEF z
<1>3. x \in Int /\ z \in Int /\ x >= z /\ z >= x
  BY <1>1, <1>2
<1>4. z = x
  BY <1>3
<1>5. QED  BY <1>4 DEF z

EndsIn(l, n)  == l[n].shape.avgDone \/ l[n].shape.update
InitsIn(l, n) == {m \in 1 .. n : l[m].shape.init}

\* Where an average that includes pulse n may start; where one that starts
\* after pulse n or goes on may.
StartsIn(l, n) == {1} \cup {m + 1 : m \in {k \in 1 .. n - 1 : EndsIn(l, k)}} \cup InitsIn(l, n)
NextsIn(l, n)  == {1} \cup {m + 1 : m \in {k \in 1 .. n : EndsIn(l, k)}} \cup InitsIn(l, n)

ActiveIn(l, s, n) == {m \in s .. n : l[m].shape.active}
MissedIn(l, s, n) == {m \in ActiveIn(l, s, n) : l[m].datum = Missing}
GoodIn(l, s, n)   ==
  {m \in ActiveIn(l, s, n) : l[m].datum # Missing /\ l[m].datum < l[m].shape.limit}

\* The average in progress after n pulses that starts with pulse s.
Counted(r, l, s, n) ==
  /\ r.count = Cardinality(GoodIn(l, s, n))
  /\ GoodIn(l, s, n) # {} => IsMax(GoodIn(l, s, n), r.pid)
  /\ GoodIn(l, s, n) = {} /\ ActiveIn(l, s, n) # {} => IsMax(ActiveIn(l, s, n), r.pid)

Exact(r, l, s, n) ==
  /\ r.rms = "sum"
  /\ r.missed = Cardinality(MissedIn(l, s, n))
  /\ GoodIn(l, s, n) = {} => r.sevr = 0
  /\ GoodIn(l, s, n) # {} => IsMax({l[m].datum : m \in GoodIn(l, s, n)}, r.sevr)

LEMMA DatumType ==
  ASSUME NEW d \in {Missing} \cup Severities
  PROVE  d \in Int /\ (d # Missing => d \in Nat /\ d \in Severities)
BY ResultsAssumption DEF Missing

LEMMA RecordType ==
  ASSUME NEW l \in Seq(Record), NEW m \in 1 .. Len(l)
  PROVE  /\ l[m] \in Record /\ l[m].shape \in Shapes
         /\ l[m].shape.limit \in Int
         /\ l[m].datum \in Int /\ l[m].datum \in {Missing} \cup Severities
         /\ l[m].datum # Missing => l[m].datum \in Nat /\ l[m].datum \in Severities
<1>1. l[m] \in Record
  BY ElementOfSeq
<1>2. l[m].shape \in Shapes /\ l[m].datum \in {Missing} \cup Severities
  BY <1>1 DEF Record
<1>3. l[m].shape.limit \in Int
  BY <1>2, ShapeType
<1>4. /\ l[m].datum \in Int
      /\ l[m].datum # Missing => l[m].datum \in Nat /\ l[m].datum \in Severities
  BY <1>2, DatumType
<1>5. QED  BY <1>1, <1>2, <1>3, <1>4

\* An average without pulses.
LEMMA NothingYet ==
  ASSUME NEW r, Blank(r), NEW l, NEW n \in Int, NEW s \in Int, s > n
  PROVE  Counted(r, l, s, n) /\ Exact(r, l, s, n)
<1>1. ActiveIn(l, s, n) = {}
  BY DEF ActiveIn
<1>2. GoodIn(l, s, n) = {} /\ MissedIn(l, s, n) = {}
  BY <1>1 DEF GoodIn, MissedIn
<1>3. Cardinality({}) = 0
  BY FS_EmptySet
<1>4. QED  BY <1>1, <1>2, <1>3 DEF Blank, Counted, Exact

\* One more pulse.
LEMMA OneMore ==
  ASSUME NEW l \in Seq(Record), NEW r \in Record, NEW s \in 1 .. Len(l) + 1
  PROVE  LET n  == Len(l)
             l2 == Append(l, r)
             G  == GoodIn(l, s, n)
             M  == MissedIn(l, s, n)
             A  == ActiveIn(l, s, n) IN
         /\ n \in Nat /\ l2 \in Seq(Record) /\ Len(l2) = n + 1
         /\ l2[n + 1] = r /\ \A m \in 1 .. n : l2[m] = l[m]
         /\ A \subseteq s .. n /\ G \subseteq A /\ M \subseteq A /\ n + 1 \notin A
         /\ IsFiniteSet(G) /\ IsFiniteSet(M)
         /\ ActiveIn(l2, s, n + 1) = A \cup (IF r.shape.active THEN {n + 1} ELSE {})
         /\ MissedIn(l2, s, n + 1) =
              M \cup (IF r.shape.active /\ r.datum = Missing THEN {n + 1} ELSE {})
         /\ GoodIn(l2, s, n + 1) =
              G \cup (IF r.shape.active /\ r.datum # Missing /\ r.datum < r.shape.limit
                        THEN {n + 1} ELSE {})
<1> DEFINE n  == Len(l)
           l2 == Append(l, r)
           G  == GoodIn(l, s, n)
           M  == MissedIn(l, s, n)
           A  == ActiveIn(l, s, n)
<1>1. n \in Nat /\ l2 \in Seq(Record) /\ Len(l2) = n + 1
      /\ l2[n + 1] = r /\ \A m \in 1 .. n : l2[m] = l[m]
  BY AppendProperties, LenProperties
<1> HIDE DEF l2
<1>2. A \subseteq s .. n /\ G \subseteq A /\ M \subseteq A /\ n + 1 \notin A
  BY <1>1 DEF ActiveIn, GoodIn, MissedIn
<1>3. IsFiniteSet(s .. n)
  BY <1>1, FS_Interval
<1>4. IsFiniteSet(G) /\ IsFiniteSet(M)
  <2>1. G \subseteq s .. n /\ M \subseteq s .. n
    BY <1>2
  <2>2. QED  BY <1>3, <2>1, FS_Subset
<1>5. \A m \in s .. n : l2[m] = l[m] /\ m \in s .. n + 1
  BY <1>1
<1>6. \A m \in s .. n + 1 : m \in s .. n \/ m = n + 1
  BY <1>1
<1>7. n + 1 \in s .. n + 1
  BY <1>1
<1>8. ActiveIn(l2, s, n + 1) = A \cup (IF r.shape.active THEN {n + 1} ELSE {})
  <2>1. \A m : m \in ActiveIn(l2, s, n + 1) <=> m \in s .. n + 1 /\ l2[m].shape.active
    BY DEF ActiveIn
  <2>2. \A m : m \in A <=> m \in s .. n /\ l[m].shape.active
    BY DEF ActiveIn
  <2>3. \A m : m \in ActiveIn(l2, s, n + 1) <=> m \in A \/ (r.shape.active /\ m = n + 1)
    <3> HIDE DEF A, n
    <3>1. QED  BY <1>1, <1>5, <1>6, <1>7, <2>1, <2>2, Zenon
  <2> HIDE DEF A, n
  <2>4. QED  BY <2>3
<1>9. MissedIn(l2, s, n + 1) =
        M \cup (IF r.shape.active /\ r.datum = Missing THEN {n + 1} ELSE {})
  <2>1. \A m \in A : l2[m] = l[m]
    BY <1>2, <1>5
  <2>2. MissedIn(l2, s, n + 1) = {m \in ActiveIn(l2, s, n + 1) : l2[m].datum = Missing}
        /\ M = {m \in A : l[m].datum = Missing}
    BY DEF MissedIn
  <2> HIDE DEF A, M, n
  <2>3. QED  BY <1>1, <1>8, <2>1, <2>2
<1>10. GoodIn(l2, s, n + 1) =
         G \cup (IF r.shape.active /\ r.datum # Missing /\ r.datum < r.shape.limit
                   THEN {n + 1} ELSE {})
  <2>1. \A m \in A : l2[m] = l[m]
    BY <1>2, <1>5
  <2>2. GoodIn(l2, s, n + 1) = {m \in ActiveIn(l2, s, n + 1) :
                                  l2[m].datum # Missing /\ l2[m].datum < l2[m].shape.limit}
        /\ G = {m \in A : l[m].datum # Missing /\ l[m].datum < l[m].shape.limit}
    BY DEF GoodIn
  <2> HIDE DEF A, G, n
  <2>3. QED  BY <1>1, <1>8, <2>1, <2>2
<1>11. QED  BY <1>1, <1>2, <1>4, <1>8, <1>9, <1>10 DEF l2
LessOnNat == {ss \in Nat \X Nat : ss[1] < ss[2]}

LEMMA LeastExists ==
  ASSUME NEW S, S \subseteq Nat, S # {}
  PROVE  \E n \in S : \A m \in S : n <= m
<1>1. LessOnNat = OpToRel(<, Nat)
  BY DEF OpToRel, LessOnNat
<1>2. PICK n \in S : \A m \in S : ~ <<m, n>> \in LessOnNat
  BY <1>1, NatLessThanWellFounded, WFMin
<1>3. ASSUME NEW m \in S
      PROVE  n <= m
  <2>1. m \in Nat /\ n \in Nat
    OBVIOUS
  <2>2. <<m, n>> \in Nat \X Nat /\ <<m, n>>[1] = m /\ <<m, n>>[2] = n
    BY <2>1
  <2>3. ~ (<<m, n>>[1] < <<m, n>>[2])
    BY <1>2, <2>2, Zenon DEF LessOnNat
  <2>4. QED  BY <2>1, <2>2, <2>3
<1>4. QED  BY <1>3

LEMMA LargestExists ==
  ASSUME NEW n \in Nat, NEW S, S \subseteq 1 .. n, S # {}
  PROVE  \E x \in S : IsMax(S, x)
<1> DEFINE U == {n - x : x \in S}
<1>1. U \subseteq Nat
  OBVIOUS
<1>2. PICK z : z \in S
  OBVIOUS
<1>3. n - z \in U
  BY <1>2
<1>4. PICK u \in U : \A v \in U : u <= v
  BY <1>1, <1>3, LeastExists
<1>5. PICK x \in S : u = n - x
  BY <1>4
<1>6. ASSUME NEW y \in S
      PROVE  y <= x
  <2>1. u <= n - y
    BY <1>4
  <2>2. QED  BY <1>5, <2>1
<1>7. QED  BY <1>6 DEF IsMax
LEMMA AverageNext ==
  ASSUME NEW l \in Seq(Record), NEW rec \in Record, NEW s \in 1 .. Len(l) + 1,
         NEW r \in Result, Counted(r, l, s, Len(l)), rec.shape.active
  PROVE  LET n  == Len(l)
             l2 == Append(l, rec)
             r2 == Averaged(r, n + 1, rec.datum, rec.shape.limit) IN
         /\ Counted(r2, l2, s, n + 1)
         /\ Exact(r, l, s, n) => Exact(r2, l2, s, n + 1)
<1> DEFINE n  == Len(l)
           l2 == Append(l, rec)
           r2 == Averaged(r, n + 1, rec.datum, rec.shape.limit)
           G  == GoodIn(l, s, n)
           M  == MissedIn(l, s, n)
           A  == ActiveIn(l, s, n)
           G2 == GoodIn(l2, s, n + 1)
           M2 == MissedIn(l2, s, n + 1)
           A2 == ActiveIn(l2, s, n + 1)
           D  == {l[m].datum : m \in G}
           D2 == {l2[m].datum : m \in G2}
<1>1. /\ n \in Nat /\ l2 \in Seq(Record) /\ Len(l2) = n + 1
      /\ l2[n + 1] = rec /\ \A m \in 1 .. n : l2[m] = l[m]
      /\ A \subseteq s .. n /\ G \subseteq A /\ M \subseteq A /\ n + 1 \notin A
      /\ IsFiniteSet(G) /\ IsFiniteSet(M)
      /\ A2 = A \cup {n + 1}
      /\ M2 = M \cup (IF rec.datum = Missing THEN {n + 1} ELSE {})
      /\ G2 = G \cup (IF rec.datum # Missing /\ rec.datum < rec.shape.limit
                        THEN {n + 1} ELSE {})
  BY OneMore
<1>2. /\ r.count \in Int /\ r.missed \in Int /\ r.pid \in Int /\ r.sevr \in Int
      /\ rec.datum \in Int /\ rec.shape.limit \in Int /\ n + 1 \in Int
      /\ (rec.datum # Missing => rec.datum \in Nat)
  <2>1. rec.shape \in Shapes /\ rec.datum \in {Missing} \cup Severities
    BY DEF Record
  <2>2. rec.datum \in Int /\ (rec.datum # Missing => rec.datum \in Nat)
    BY <2>1, DatumType
  <2>3. rec.shape.limit \in Int
    BY <2>1, ShapeType
  <2>4. r.count \in Int /\ r.missed \in Int /\ r.pid \in Int /\ r.sevr \in Int
    BY DEF Result
  <2>5. QED  BY <1>1, <2>1, <2>2, <2>3, <2>4
<1>3. /\ Cardinality(G) \in Nat /\ Cardinality(M) \in Nat
      /\ Cardinality(G \cup {n + 1}) = Cardinality(G) + 1
      /\ Cardinality(M \cup {n + 1}) = Cardinality(M) + 1
      /\ (Cardinality(G) = 0 <=> G = {})
  <2>1. n + 1 \notin G /\ n + 1 \notin M
    BY <1>1
  <2> HIDE DEF G, M, n
  <2>2. QED  BY <1>1, <2>1, FS_AddElement, FS_CardinalityType, FS_EmptySet
<1>4. \A m \in A : m \in Int /\ m <= n + 1 /\ m \in 1 .. n
  <2>1. \A m \in s .. n : m \in Int /\ m <= n + 1 /\ m \in 1 .. n
    BY <1>1
  <2>2. QED  BY <1>1, <2>1
<1>5. IsMax(A2, n + 1)
  BY <1>1, <1>4 DEF IsMax
<1>6. /\ r.count = Cardinality(G)
      /\ G # {} => IsMax(G, r.pid)
      /\ G = {} /\ A # {} => IsMax(A, r.pid)
  BY DEF Counted
<1>7. Exact(r, l, s, n) =>
        /\ r.rms = "sum" /\ r.missed = Cardinality(M)
        /\ G = {} => r.sevr = 0
        /\ G # {} => IsMax(D, r.sevr)
  BY DEF Exact
<1>8. Counted(r2, l2, s, n + 1) <=>
        /\ r2.count = Cardinality(G2)
        /\ G2 # {} => IsMax(G2, r2.pid)
        /\ G2 = {} /\ A2 # {} => IsMax(A2, r2.pid)
  BY DEF Counted
<1>9. Exact(r2, l2, s, n + 1) <=>
        /\ r2.rms = "sum" /\ r2.missed = Cardinality(M2)
        /\ G2 = {} => r2.sevr = 0
        /\ G2 # {} => IsMax(D2, r2.sevr)
  BY DEF Exact
<1>10. CASE rec.datum = Missing
  <2>1. r2 = [count |-> r.count, missed |-> r.missed + 1,
              pid |-> IF r.count = 0 THEN n + 1 ELSE r.pid,
              sevr |-> r.sevr, rms |-> r.rms]
    BY <1>2, <1>10, CompResults DEF Averaged
  <2>2. G2 = G /\ M2 = M \cup {n + 1}
    BY <1>1, <1>10
  <2>3. G # {} => D2 = D
    BY <1>1, <1>4, <2>2
  <2> HIDE DEF n, l2, r2, G, M, A, G2, M2, A2, D, D2
  <2>4. Counted(r2, l2, s, n + 1)
    BY <1>3, <1>5, <1>6, <1>8, <2>1, <2>2
  <2>5. Exact(r, l, s, n) => Exact(r2, l2, s, n + 1)
    BY <1>3, <1>7, <1>9, <2>1, <2>2, <2>3
  <2>6. QED  BY <2>4, <2>5 DEF n, l2, r2
<1>11. CASE rec.datum # Missing /\ rec.datum >= rec.shape.limit
  <2>1. r2 = [count |-> r.count, missed |-> r.missed,
              pid |-> IF r.count = 0 THEN n + 1 ELSE r.pid,
              sevr |-> r.sevr, rms |-> r.rms]
    BY <1>2, <1>11, CompResults DEF Averaged
  <2>2. G2 = G /\ M2 = M
    <3>1. ~(rec.datum < rec.shape.limit)
      BY <1>2, <1>11
    <3>2. G2 = G \cup {} /\ M2 = M \cup {}
      BY <1>1, <1>11, <3>1, Zenon
    <3>3. QED  BY <3>2
  <2>3. G # {} => D2 = D
    BY <1>1, <1>4, <2>2
  <2> HIDE DEF n, l2, r2, G, M, A, G2, M2, A2, D, D2
  <2>4. Counted(r2, l2, s, n + 1)
    BY <1>3, <1>5, <1>6, <1>8, <2>1, <2>2
  <2>5. Exact(r, l, s, n) => Exact(r2, l2, s, n + 1)
    BY <1>3, <1>7, <1>9, <2>1, <2>2, <2>3
  <2>6. QED  BY <2>4, <2>5 DEF n, l2, r2
<1>12. CASE rec.datum # Missing /\ rec.datum < rec.shape.limit
  <2>1. r2 = [count |-> r.count + 1, missed |-> r.missed, pid |-> n + 1,
              sevr |-> IF rec.datum > r.sevr THEN rec.datum ELSE r.sevr, rms |-> r.rms]
    BY <1>2, <1>12, CompResults DEF Averaged
  <2>2. G2 = G \cup {n + 1} /\ M2 = M
    BY <1>1, <1>12
  <2>3. IsMax(G2, n + 1)
    BY <1>1, <1>4, <2>2 DEF IsMax
  <2>4. D2 = D \cup {rec.datum}
    <3>1. \A m \in G : l2[m] = l[m]
      BY <1>1, <1>4
    <3>2. D2 = {l2[m].datum : m \in G} \cup {l2[n + 1].datum}
      BY <2>2
    <3> HIDE DEF n, l2, G, G2
    <3>3. {l2[m].datum : m \in G} = D
      BY <3>1
    <3>4. QED  BY <1>1, <3>2, <3>3
  <2>5. ASSUME Exact(r, l, s, n)
        PROVE  IsMax(D2, r2.sevr)
    <3>1. CASE G = {}
      <4>1. D2 = {rec.datum} /\ r.sevr = 0
        BY <1>7, <2>4, <2>5, <3>1
      <4>2. r2.sevr = rec.datum
        <5> HIDE DEF r2
        <5>1. r2.sevr = IF rec.datum > r.sevr THEN rec.datum ELSE r.sevr
          BY <2>1
        <5>2. QED  BY <1>2, <1>12, <4>1, <5>1
      <4> HIDE DEF D2, r2
      <4>3. QED  BY <1>2, <4>1, <4>2 DEF IsMax
    <3>2. CASE G # {}
      <4>1. r.sevr \in D /\ \A y \in D : y <= r.sevr
        BY <1>7, <2>5, <3>2 DEF IsMax
      <4>2. \A y \in D : y \in Int
        <5>1. \A m \in G : l[m].datum \in Int
          BY <1>1, <1>4, RecordType
        <5>2. QED  BY <5>1
      <4>3. r2.sevr = IF rec.datum > r.sevr THEN rec.datum ELSE r.sevr
        <5> HIDE DEF r2
        <5>1. QED  BY <2>1
      <4> HIDE DEF D, D2, r2
      <4>4. CASE rec.datum > r.sevr
        BY <1>2, <2>4, <4>1, <4>2, <4>3, <4>4 DEF IsMax
      <4>5. CASE ~(rec.datum > r.sevr)
        BY <1>2, <2>4, <4>1, <4>2, <4>3, <4>5 DEF IsMax
      <4>6. QED  BY <4>4, <4>5
    <3>3. QED  BY <3>1, <3>2
  <2> HIDE DEF n, l2, r2, G, M, A, G2, M2, A2, D, D2
  <2>6. Counted(r2, l2, s, n + 1)
    BY <1>3, <1>6, <1>8, <2>1, <2>2, <2>3
  <2>7. Exact(r, l, s, n) => Exact(r2, l2, s, n + 1)
    BY <1>7, <1>9, <2>1, <2>2, <2>5
  <2>8. QED  BY <2>6, <2>7 DEF n, l2, r2
<1>13. QED  BY <1>2, <1>10, <1>11, <1>12

LEMMA IdleNext ==
  ASSUME NEW l \in Seq(Record), NEW rec \in Record, NEW s \in 1 .. Len(l) + 1,
         NEW r, Counted(r, l, s, Len(l)), ~rec.shape.active
  PROVE  LET n  == Len(l)
             l2 == Append(l, rec) IN
         /\ Counted(r, l2, s, n + 1)
         /\ Exact(r, l, s, n) => Exact(r, l2, s, n + 1)
<1> DEFINE n  == Len(l)
           l2 == Append(l, rec)
           G  == GoodIn(l, s, n)
<1>1. /\ ActiveIn(l2, s, n + 1) = ActiveIn(l, s, n)
      /\ MissedIn(l2, s, n + 1) = MissedIn(l, s, n)
      /\ GoodIn(l2, s, n + 1) = G
      /\ \A m \in G : l2[m] = l[m]
  <2>1. /\ n \in Nat /\ \A m \in 1 .. n : l2[m] = l[m]
        /\ G \subseteq ActiveIn(l, s, n) /\ ActiveIn(l, s, n) \subseteq s .. n
    BY OneMore
  <2>2. \A m \in s .. n : l2[m] = l[m]
    BY <2>1
  <2>3. \A m \in G : l2[m] = l[m]
    BY <2>1, <2>2
  <2>4. /\ ActiveIn(l2, s, n + 1) = ActiveIn(l, s, n) \cup {}
        /\ MissedIn(l2, s, n + 1) = MissedIn(l, s, n) \cup {}
        /\ GoodIn(l2, s, n + 1) = G \cup {}
    <3>1. /\ ActiveIn(l2, s, n + 1) =
               ActiveIn(l, s, n) \cup (IF rec.shape.active THEN {n + 1} ELSE {})
          /\ MissedIn(l2, s, n + 1) = MissedIn(l, s, n) \cup
               (IF rec.shape.active /\ rec.datum = Missing THEN {n + 1} ELSE {})
          /\ GoodIn(l2, s, n + 1) = G \cup
               (IF rec.shape.active /\ rec.datum # Missing /\ rec.datum < rec.shape.limit
                  THEN {n + 1} ELSE {})
      BY OneMore
    <3>2. QED  BY <3>1, Zenon
  <2>5. QED  BY <2>3, <2>4
<1> HIDE DEF n, l2, G
<1>2. {l2[m].datum : m \in G} = {l[m].datum : m \in G}
  BY <1>1
<1>3. QED  BY <1>1, <1>2 DEF Counted, Exact, n, l2, G
FirstIn(l, n) == Max(StartsIn(l, n))

ExpectedIn(l, n) ==
  LET f == FirstIn(l, n)
      G == GoodIn(l, f, n) IN
  [bsa    |-> Max({0} \cup InitsIn(l, n)),
   result |->
     [count  |-> Cardinality(G),
      missed |-> Cardinality(MissedIn(l, f, n)),
      pid    |-> Max({0} \cup (IF G # {} THEN G ELSE ActiveIn(l, f, n))),
      sevr   |-> IF G # {} THEN Max({l[m].datum : m \in G}) ELSE Invalid,
      rms    |-> IF G # {} THEN "root" ELSE "nan"]]

GarbledIn(l, n) == FirstIn(l, n) = 1 /\ ~l[1].shape.init

HasMembers(l, n) == ActiveIn(l, FirstIn(l, n), n) # {}

\* What a sink may hear of the average done with pulse n.
RightIn(l, n, h) ==
  LET x == ExpectedIn(l, n) IN
  /\ h.bsa = x.bsa
  /\ h.result.count = x.result.count
  /\ HasMembers(l, n) => h.result.pid = x.result.pid
  /\ \/ GarbledIn(l, n)
     \/ /\ h.result.missed = x.result.missed
        /\ h.result.sevr = x.result.sevr
        /\ h.result.rms = x.result.rms

LEMMA StartsRange ==
  ASSUME NEW l \in Seq(Record), NEW n \in Nat
  PROVE  /\ StartsIn(l, n) \subseteq Int /\ NextsIn(l, n) \subseteq Int
         /\ InitsIn(l, n) \subseteq 1 .. n
         /\ \A m \in NextsIn(l, n) : 1 <= m /\ m <= n + 1
         /\ n >= 1 => \A m \in StartsIn(l, n) : 1 <= m /\ m <= n
<1>1. InitsIn(l, n) \subseteq 1 .. n
  BY DEF InitsIn
<1>2. \A m \in {k \in 1 .. n - 1 : EndsIn(l, k)} : m + 1 \in Int /\ 1 <= m + 1 /\ m + 1 <= n
  OBVIOUS
<1>3. \A m \in {k \in 1 .. n : EndsIn(l, k)} : m + 1 \in Int /\ 1 <= m + 1 /\ m + 1 <= n + 1
  OBVIOUS
<1>4. QED  BY <1>1, <1>2, <1>3 DEF StartsIn, NextsIn

\* The starts of averages, pulse by pulse.
LEMMA StartNext ==
  ASSUME NEW l \in Seq(Record), NEW rec \in Record, NEW s, IsMax(NextsIn(l, Len(l)), s)
  PROVE  LET n  == Len(l)
             l2 == Append(l, rec)
             f  == IF rec.shape.init THEN n + 1 ELSE s IN
         /\ s \in 1 .. n + 1
         /\ IsMax(StartsIn(l2, n + 1), f)
         /\ IsMax(NextsIn(l2, n + 1), IF EndsIn(l2, n + 1) THEN n + 2 ELSE f)
<1> DEFINE n  == Len(l)
           l2 == Append(l, rec)
           f  == IF rec.shape.init THEN n + 1 ELSE s
           E  == {k \in 1 .. n : EndsIn(l, k)}
           I  == InitsIn(l, n)
<1>1. /\ n \in Nat /\ l2[n + 1] = rec /\ \A m \in 1 .. n : l2[m] = l[m]
      /\ l2 \in Seq(Record)
  BY AppendProperties, LenProperties
<1>2. s \in NextsIn(l, n) /\ \A y \in NextsIn(l, n) : y <= s
  BY DEF IsMax
<1>3. s \in 1 .. n + 1
  BY <1>1, <1>2, StartsRange
<1> HIDE DEF l2
<1>4. {k \in 1 .. n : EndsIn(l2, k)} = E
  BY <1>1 DEF EndsIn
<1>5. InitsIn(l2, n + 1) = I \cup (IF rec.shape.init THEN {n + 1} ELSE {})
  <2>1. 1 .. n + 1 = (1 .. n) \cup {n + 1}
    BY <1>1
  <2>2. InitsIn(l2, n + 1) = {m \in (1 .. n) \cup {n + 1} : l2[m].shape.init}
    BY <2>1 DEF InitsIn
  <2>3. I = {m \in 1 .. n : l2[m].shape.init}
    BY <1>1 DEF InitsIn
  <2> HIDE DEF n, I
  <2>4. QED  BY <1>1, <2>2, <2>3
<1>6. {k \in 1 .. n + 1 : EndsIn(l2, k)} =
        E \cup (IF EndsIn(l2, n + 1) THEN {n + 1} ELSE {})
  <2>1. 1 .. n + 1 = (1 .. n) \cup {n + 1}
    BY <1>1
  <2>2. {k \in 1 .. n + 1 : EndsIn(l2, k)} = {k \in (1 .. n) \cup {n + 1} : EndsIn(l2, k)}
    BY <2>1
  <2> HIDE DEF n, E
  <2>3. QED  BY <1>4, <2>2
<1> DEFINE B == {1} \cup {m + 1 : m \in E} \cup I
<1>7. NextsIn(l, n) = B
  BY DEF NextsIn
<1>8. StartsIn(l2, n + 1) = B \cup (IF rec.shape.init THEN {n + 1} ELSE {})
  <2>1. (n + 1) - 1 = n
    BY <1>1
  <2>2. StartsIn(l2, n + 1) =
          {1} \cup {m + 1 : m \in {k \in 1 .. n : EndsIn(l2, k)}} \cup InitsIn(l2, n + 1)
    BY <2>1 DEF StartsIn
  <2> HIDE DEF n, E, I
  <2>3. QED  BY <1>4, <1>5, <2>2
<1>9. NextsIn(l2, n + 1) = B \cup (IF rec.shape.init THEN {n + 1} ELSE {})
                             \cup (IF EndsIn(l2, n + 1) THEN {n + 2} ELSE {})
  <2>1. (n + 1) + 1 = n + 2
    BY <1>1
  <2>2. NextsIn(l2, n + 1) =
          {1} \cup {m + 1 : m \in {k \in 1 .. n + 1 : EndsIn(l2, k)}} \cup InitsIn(l2, n + 1)
    BY DEF NextsIn
  <2>3. {m + 1 : m \in {k \in 1 .. n + 1 : EndsIn(l2, k)}} =
          {m + 1 : m \in E} \cup (IF EndsIn(l2, n + 1) THEN {n + 2} ELSE {})
    <3> DEFINE E2 == {k \in 1 .. n + 1 : EndsIn(l2, k)}
               p == n + 1
               q == n + 2
    <3>1. E2 = E \cup (IF EndsIn(l2, p) THEN {p} ELSE {}) /\ p + 1 = q
      BY <1>6, <2>1
    <3> HIDE DEF E2, E, p, q
    <3>2. {m + 1 : m \in E2} = {m + 1 : m \in E} \cup (IF EndsIn(l2, p) THEN {q} ELSE {})
      BY <3>1
    <3>3. QED  BY <3>2 DEF E2, p, q
  <2> HIDE DEF n, E, I
  <2>4. QED  BY <1>5, <2>2, <2>3
<1>10. s \in B /\ \A y \in B : y <= s /\ y <= n + 1 /\ y \in Int
  BY <1>1, <1>2, <1>7, StartsRange
<1>11. n + 1 \in Int /\ n + 2 \in Int /\ n + 1 <= n + 2 /\ s \in Int /\ s <= n + 1
       /\ n + 1 <= n + 1 /\ n + 2 <= n + 2 /\ s <= n + 2 /\ \A y \in B : y <= n + 2
  BY <1>1, <1>3, <1>10
<1>12. IsMax(StartsIn(l2, n + 1), f)
  <2> DEFINE p == n + 1
  <2> HIDE DEF B, n, p
  <2>1. StartsIn(l2, p) = B \cup (IF rec.shape.init THEN {p} ELSE {})
        /\ f = (IF rec.shape.init THEN p ELSE s)
        /\ p <= p /\ \A y \in B : y <= s /\ y <= p
    BY <1>8, <1>10, <1>11 DEF p
  <2> HIDE DEF f
  <2>2. QED  BY <1>10, <2>1 DEF IsMax, p
<1>13. IsMax(NextsIn(l2, n + 1), IF EndsIn(l2, n + 1) THEN n + 2 ELSE f)
  <2> DEFINE p == n + 1
             q == n + 2
  <2>1. /\ NextsIn(l2, p) = B \cup (IF rec.shape.init THEN {p} ELSE {})
                              \cup (IF EndsIn(l2, p) THEN {q} ELSE {})
        /\ f = (IF rec.shape.init THEN p ELSE s)
        /\ p <= p /\ q <= q /\ p <= q
        /\ \A y \in B : y <= s /\ y <= p /\ y <= q
    BY <1>9, <1>10, <1>11
  <2> HIDE DEF B, n, p, q, f
  <2>2. QED  BY <1>10, <2>1 DEF IsMax, p, q
<1>14. QED  BY <1>3, <1>12, <1>13 DEF l2

LEMMA InitNext ==
  ASSUME NEW l \in Seq(Record), NEW rec \in Record, NEW b,
         IsMax({0} \cup InitsIn(l, Len(l)), b)
  PROVE  LET n  == Len(l)
             l2 == Append(l, rec) IN
         /\ IsMax({0} \cup InitsIn(l2, n + 1), IF rec.shape.init THEN n + 1 ELSE b)
<1> DEFINE n  == Len(l)
           l2 == Append(l, rec)
           I  == InitsIn(l, n)
           p  == n + 1
<1>1. n \in Nat /\ l2[n + 1] = rec /\ \A m \in 1 .. n : l2[m] = l[m]
  BY AppendProperties, LenProperties
<1> HIDE DEF l2
<1>2. InitsIn(l2, p) = I \cup (IF rec.shape.init THEN {p} ELSE {})
  <2>1. 1 .. n + 1 = (1 .. n) \cup {n + 1}
    BY <1>1
  <2>2. InitsIn(l2, n + 1) = {m \in (1 .. n) \cup {n + 1} : l2[m].shape.init}
    BY <2>1 DEF InitsIn
  <2>3. I = {m \in 1 .. n : l2[m].shape.init}
    BY <1>1 DEF InitsIn
  <2> HIDE DEF n, I
  <2>4. QED  BY <1>1, <2>2, <2>3
<1>3. \A y \in {0} \cup I : y <= p
  BY <1>1 DEF InitsIn
<1>4. b \in {0} \cup I /\ (\A y \in {0} \cup I : y <= b) /\ p <= p
  BY <1>1 DEF IsMax
<1> HIDE DEF I, p, n
<1>5. IsMax({0} \cup InitsIn(l2, p), IF rec.shape.init THEN p ELSE b)
  BY <1>2, <1>3, <1>4 DEF IsMax
<1>6. QED  BY <1>5 DEF p, n, l2
\* Later pulses do not matter.
LEMMA Local ==
  ASSUME NEW l \in Seq(Record), NEW rec \in Record, NEW n \in 1 .. Len(l)
  PROVE  /\ ExpectedIn(Append(l, rec), n) = ExpectedIn(l, n)
         /\ GarbledIn(Append(l, rec), n) <=> GarbledIn(l, n)
         /\ HasMembers(Append(l, rec), n) <=> HasMembers(l, n)
<1> DEFINE l2 == Append(l, rec)
<1>1. \A m \in 1 .. n : l2[m] = l[m]
  BY AppendProperties, LenProperties
<1>2. n \in Nat /\ 1 \in 1 .. n /\ 1 .. n - 1 \subseteq 1 .. n
  BY LenProperties
<1> HIDE DEF l2
<1>3. InitsIn(l2, n) = InitsIn(l, n)
  BY <1>1 DEF InitsIn
<1>4. StartsIn(l2, n) = StartsIn(l, n)
  <2>1. {k \in 1 .. n - 1 : EndsIn(l2, k)} = {k \in 1 .. n - 1 : EndsIn(l, k)}
    BY <1>1, <1>2 DEF EndsIn
  <2>2. QED  BY <1>3, <2>1 DEF StartsIn
<1>5. PICK f : f = FirstIn(l, n)
  OBVIOUS
<1>6. FirstIn(l2, n) = f
  BY <1>4, <1>5 DEF FirstIn
<1>7. f \in 1 .. n
  <2>1. \A m \in StartsIn(l, n) : m \in Int /\ 1 <= m /\ m <= n
    BY <1>2, StartsRange
  <2>2. 1 \in StartsIn(l, n)
    BY DEF StartsIn
  <2>3. f \in StartsIn(l, n)
    <3>1. StartsIn(l, n) \subseteq 1 .. n
      BY <1>2, <2>1
    <3>2. \E x \in StartsIn(l, n) : IsMax(StartsIn(l, n), x)
      BY <1>2, <2>2, <3>1, LargestExists
    <3>3. PICK x \in StartsIn(l, n) : IsMax(StartsIn(l, n), x)
      BY <3>2
    <3>4. Max(StartsIn(l, n)) = x
      BY <2>1, <3>3, MaxIs
    <3>5. QED  BY <1>5, <3>4 DEF FirstIn
  <2>4. QED  BY <1>2, <2>1, <2>3
<1>8. f .. n \subseteq 1 .. n
  BY <1>2, <1>7
<1>9. ActiveIn(l2, f, n) = ActiveIn(l, f, n) /\ ActiveIn(l, f, n) \subseteq 1 .. n
  BY <1>1, <1>8 DEF ActiveIn
<1>10. GoodIn(l2, f, n) = GoodIn(l, f, n) /\ MissedIn(l2, f, n) = MissedIn(l, f, n)
       /\ GoodIn(l, f, n) \subseteq 1 .. n
  BY <1>1, <1>9 DEF GoodIn, MissedIn
<1>11. {l2[m].datum : m \in GoodIn(l, f, n)} = {l[m].datum : m \in GoodIn(l, f, n)}
  BY <1>1, <1>10
<1>12. ExpectedIn(l2, n) = ExpectedIn(l, n)
  BY <1>3, <1>5, <1>6, <1>9, <1>10, <1>11 DEF ExpectedIn
<1>13. GarbledIn(l2, n) <=> GarbledIn(l, n)
  BY <1>1, <1>2, <1>5, <1>6 DEF GarbledIn
<1>14. HasMembers(l2, n) <=> HasMembers(l, n)
  BY <1>5, <1>6, <1>9 DEF HasMembers
<1>15. QED  BY <1>12, <1>13, <1>14 DEF l2

\* The average that is wrapped up with pulse n is the one that is expected.
LEMMA WrappedRight ==
  ASSUME NEW l \in Seq(Record), NEW n \in 1 .. Len(l), NEW f, NEW r \in Result, NEW b,
         IsMax(StartsIn(l, n), f), Counted(r, l, f, n),
         IsMax({0} \cup InitsIn(l, n), b),
         ~GarbledIn(l, n) => Exact(r, l, f, n)
  PROVE  RightIn(l, n, [bsa |-> b, result |-> WrapUp(r)])
<1> DEFINE G == GoodIn(l, f, n)
           M == MissedIn(l, f, n)
           A == ActiveIn(l, f, n)
           D == {l[m].datum : m \in G}
<1>1. n \in Nat /\ n >= 1 /\ n \in 1 .. n
  BY LenProperties
<1>2. f \in Int /\ 1 <= f /\ f <= n /\ StartsIn(l, n) \subseteq Int
  BY <1>1, StartsRange DEF IsMax
<1>3. FirstIn(l, n) = f
  BY <1>2, MaxIs DEF FirstIn
<1>4. Max({0} \cup InitsIn(l, n)) = b
  <2>1. {0} \cup InitsIn(l, n) \subseteq Int
    BY <1>1, StartsRange
  <2>2. QED  BY <2>1, MaxIs
<1>5. /\ r.count = Cardinality(G)
      /\ G # {} => IsMax(G, r.pid)
      /\ G = {} /\ A # {} => IsMax(A, r.pid)
  BY DEF Counted
<1>6. A \subseteq f .. n /\ G \subseteq A /\ (HasMembers(l, n) <=> A # {})
  BY <1>3 DEF ActiveIn, GoodIn, HasMembers
<1>7. f .. n \subseteq 1 .. Len(l) /\ f .. n \subseteq Int
  BY <1>1, <1>2, LenProperties
<1>8. IsFiniteSet(G)
  <2>1. IsFiniteSet(f .. n)
    BY <1>1, <1>2, FS_Interval
  <2>2. G \subseteq f .. n
    BY <1>6
  <2> HIDE DEF G
  <2>3. QED  BY <2>1, <2>2, FS_Subset
<1>9. Cardinality(G) \in Nat /\ (Cardinality(G) = 0 <=> G = {})
  <2> HIDE DEF G
  <2>1. QED  BY <1>8, FS_CardinalityType, FS_EmptySet
<1>10. r.count >= 1 <=> G # {}
  BY <1>5, <1>9
<1> DEFINE p == Max({0} \cup (IF G # {} THEN G ELSE A))
<1>11. A # {} => p = r.pid
  <2> SUFFICES ASSUME A # {}
               PROVE  p = r.pid
    OBVIOUS
  <2> DEFINE S == IF G # {} THEN G ELSE A
  <2>1. S \subseteq f .. n
    BY <1>6
  <2>2. \A x \in S : x \in Int /\ 0 <= x
    BY <1>2, <2>1
  <2>3. IsMax(S, r.pid)
    BY <1>5
  <2> HIDE DEF S
  <2>4. {0} \cup S \subseteq Int /\ IsMax({0} \cup S, r.pid)
    BY <2>2, <2>3 DEF IsMax
  <2>5. Max({0} \cup S) = r.pid
    BY <2>4, MaxIs
  <2>6. QED  BY <2>5 DEF S
<1>12. D \subseteq Int
  BY <1>6, <1>7, RecordType
<1>13. ExpectedIn(l, n) =
         [bsa |-> b,
          result |-> [count |-> Cardinality(G), missed |-> Cardinality(M), pid |-> p,
                      sevr |-> IF G # {} THEN Max(D) ELSE Invalid,
                      rms |-> IF G # {} THEN "root" ELSE "nan"]]
  BY <1>3, <1>4 DEF ExpectedIn
<1>14. WrapUp(r) = [count |-> r.count, missed |-> r.missed, pid |-> r.pid,
                    sevr |-> IF r.count >= 1 THEN r.sevr ELSE Invalid,
                    rms |-> IF r.count < 1 THEN "nan" ELSE Rooted(r.rms)]
  BY CompResults
<1> DEFINE h == [bsa |-> b, result |-> WrapUp(r)]
           x == ExpectedIn(l, n)
<1>15. /\ h.bsa = x.bsa /\ h.result.count = x.result.count
       /\ HasMembers(l, n) => h.result.pid = x.result.pid
  <2> HIDE DEF G, M, D, A, p
  <2>1. QED  BY <1>5, <1>6, <1>11, <1>13, <1>14
<1>16. CASE GarbledIn(l, n)
  <2> HIDE DEF h
  <2>1. RightIn(l, n, h)
    BY <1>15, <1>16 DEF RightIn
  <2>2. QED  BY <2>1 DEF h
<1>17. CASE ~GarbledIn(l, n)
  <2>1. /\ r.rms = "sum" /\ r.missed = Cardinality(M)
        /\ G # {} => IsMax(D, r.sevr)
    BY <1>17 DEF Exact
  <2>2. G # {} => Max(D) = r.sevr
    BY <1>12, <2>1, MaxIs
  <2>3. (IF r.count >= 1 THEN r.sevr ELSE Invalid) = (IF G # {} THEN Max(D) ELSE Invalid)
    BY <1>10, <2>2
  <2>4. (IF r.count < 1 THEN "nan" ELSE Rooted(r.rms)) = (IF G # {} THEN "root" ELSE "nan")
    <3> HIDE DEF G
    <3>1. r.count < 1 <=> G = {}
      BY <1>5, <1>9
    <3>2. QED  BY <2>1, <3>1 DEF Rooted
  <2> HIDE DEF G, M, D, A, p
  <2>5. /\ h.result.missed = x.result.missed
        /\ h.result.sevr = x.result.sevr /\ h.result.rms = x.result.rms
    BY <1>13, <1>14, <2>1, <2>3, <2>4
  <2> HIDE DEF h
  <2>6. RightIn(l, n, h)
    BY <1>15, <2>5 DEF RightIn
  <2>7. QED  BY <2>6 DEF h
<1>18. QED  BY <1>16, <1>17

\* The operators of ChannelResults are these, of its log.
LEMMA Closed ==
  ASSUME NEW n
  PROVE  /\ Expected(n) = ExpectedIn(log, n) /\ (Garbled(n) <=> GarbledIn(log, n))
         /\ Members(n) # {} <=> HasMembers(log, n)
<1>1. First(n) = FirstIn(log, n)
  BY DEF First, Ends, Shape, FirstIn, StartsIn, EndsIn, InitsIn
<1> DEFINE f == FirstIn(log, n)
<1>2. Members(n) = ActiveIn(log, f, n)
  BY <1>1 DEF Members, Shape, ActiveIn
<1>3. Missed(n) = MissedIn(log, f, n)
  BY <1>2 DEF Missed, MissedIn
<1>4. Good(n) = GoodIn(log, f, n)
  BY <1>2, <1>3 DEF Good, Shape, GoodIn, MissedIn
<1>5. Max({0} \cup {m \in 1 .. n : Shape(m).init}) = Max({0} \cup InitsIn(log, n))
  BY DEF Shape, InitsIn
<1>6. Expected(n) = ExpectedIn(log, n)
  BY <1>2, <1>3, <1>4, <1>5 DEF Expected, ExpectedIn
<1>7. Garbled(n) <=> GarbledIn(log, n)
  BY <1>1 DEF Garbled, GarbledIn, Shape
<1>8. Members(n) # {} <=> HasMembers(log, n)
  BY <1>2 DEF HasMembers
<1>9. QED  BY <1>6, <1>7, <1>8
-----------------------------------------------------------------------------
(* What the sinks hear.  The recursive function in FlattenSeq has one and  *)
(* only one solution.                                                      *)

FlatStep(s, f, i) == IF i = 1 THEN s[i] ELSE f[i - 1] \o s[i]

Flat(s, f) == f = [i \in 1 .. Len(s) |-> FlatStep(s, f, i)]

LEMMA FlatExists ==
  ASSUME NEW T, NEW s \in Seq(Seq(T)), Len(s) # 0
  PROVE  \E f \in [1 .. Len(s) -> Seq(T)] : Flat(s, f)
<1> DEFINE n == Len(s)
           P(k) == \E f \in [1 .. n -> Seq(T)] : \A i \in 1 .. k : f[i] = FlatStep(s, f, i)
           Bad  == {k \in 0 .. n : ~P(k)}
<1>1. n \in Nat /\ \A i \in 1 .. n : s[i] \in Seq(T)
  BY LenProperties, ElementOfSeq
<1>2. P(0)
  <2>1. [i \in 1 .. n |-> s[i]] \in [1 .. n -> Seq(T)]
    BY <1>1
  <2>2. 1 .. 0 = {}
    OBVIOUS
  <2>3. QED  BY <2>1, <2>2
<1>3. ASSUME NEW k \in 0 .. n - 1, P(k)
      PROVE  P(k + 1)
  <2>1. PICK f \in [1 .. n -> Seq(T)] : \A i \in 1 .. k : f[i] = FlatStep(s, f, i)
    BY <1>3
  <2> DEFINE v == FlatStep(s, f, k + 1)
             g == [f EXCEPT ![k + 1] = v]
  <2>2. /\ k + 1 \in 1 .. n /\ (k # 0 => k \in 1 .. n)
        /\ (k + 1) - 1 = k /\ (k + 1 = 1 <=> k = 0)
        /\ \A i \in 1 .. k + 1 : i \in 1 .. k \/ i = k + 1
        /\ \A i \in 1 .. k : i \in 1 .. n /\ i # k + 1 /\ i - 1 # k + 1
                             /\ (i # 1 => i - 1 \in 1 .. n)
    BY <1>1
  <2>3. v \in Seq(T)
    <3>1. CASE k = 0
      BY <1>1, <2>2, <3>1 DEF FlatStep
    <3>2. CASE k # 0
      <4>1. f[k] \in Seq(T) /\ s[k + 1] \in Seq(T)
        BY <1>1, <2>2, <3>2
      <4>2. v = f[k] \o s[k + 1]
        BY <2>2, <3>2 DEF FlatStep
      <4>3. QED  BY <4>1, <4>2, ConcatProperties
    <3>3. QED  BY <3>1, <3>2
  <2> HIDE DEF v
  <2>4. g \in [1 .. n -> Seq(T)] /\ g[k + 1] = v /\ \A i \in 1 .. n : i # k + 1 => g[i] = f[i]
    BY <2>2, <2>3
  <2> HIDE DEF g
  <2>5. \A i \in 1 .. k : g[i] = FlatStep(s, g, i)
    BY <2>1, <2>2, <2>4 DEF FlatStep
  <2>6. v = FlatStep(s, g, k + 1)
    <3>1. k # 0 => g[k] = f[k]
      BY <1>1, <2>2, <2>4
    <3>2. QED  BY <2>2, <3>1 DEF v, FlatStep
  <2>7. \A i \in 1 .. k + 1 : g[i] = FlatStep(s, g, i)
    BY <2>2, <2>4, <2>5, <2>6
  <2>8. QED  BY <2>4, <2>7
<1>4. P(n)
  <2>1. SUFFICES ASSUME ~P(n)
                 PROVE  FALSE
    OBVIOUS
  <2>2. n \in Bad /\ Bad \subseteq Nat
    BY <1>1, <2>1
  <2>3. PICK k \in Bad : \A j \in Bad : k <= j
    BY <2>2, LeastExists
  <2>4. k # 0
    BY <1>2, <2>3
  <2> HIDE DEF P
  <2>5. k \in 0 .. n /\ k - 1 \in 0 .. n - 1 /\ k - 1 \in 0 .. n /\ ~(k <= k - 1) /\ (k - 1) + 1 = k
    BY <1>1, <2>3, <2>4
  <2>6. P(k - 1)
    BY <2>3, <2>5
  <2>7. P((k - 1) + 1)
    BY <1>3, <2>5, <2>6
  <2>8. QED  BY <2>3, <2>5, <2>7
<1>5. PICK f \in [1 .. n -> Seq(T)] : \A i \in 1 .. n : f[i] = FlatStep(s, f, i)
  BY <1>4
<1>6. f = [i \in 1 .. n |-> FlatStep(s, f, i)]
  BY <1>5
<1>7. QED  BY <1>5, <1>6 DEF Flat

LEMMA FlatUnique ==
  ASSUME NEW s, Len(s) \in Nat, NEW f, NEW g, Flat(s, f), Flat(s, g)
  PROVE  f = g
<1> DEFINE n   == Len(s)
           Bad == {i \in 1 .. n : f[i] # g[i]}
<1>1. f = [i \in 1 .. n |-> FlatStep(s, f, i)] /\ g = [i \in 1 .. n |-> FlatStep(s, g, i)]
  BY DEF Flat
<1>2. \A i \in 1 .. n : f[i] = FlatStep(s, f, i) /\ g[i] = FlatStep(s, g, i)
  BY <1>1, Zenon
<1>3. Bad = {}
  <2>1. SUFFICES ASSUME Bad # {}
                 PROVE  FALSE
    OBVIOUS
  <2>2. Bad \subseteq Nat
    OBVIOUS
  <2>3. PICK k \in Bad : \A j \in Bad : k <= j
    BY <2>1, <2>2, LeastExists
  <2>4. k \in 1 .. n /\ f[k] # g[k]
    BY <2>3
  <2>5. k # 1
    <3>1. SUFFICES ASSUME k = 1
                   PROVE  FALSE
      OBVIOUS
    <3>2. f[k] = s[k] /\ g[k] = s[k]
      BY <1>2, <2>4, <3>1 DEF FlatStep
    <3>3. QED  BY <2>4, <3>2
  <2>6. k - 1 \in 1 .. n /\ ~(k <= k - 1)
    BY <2>4, <2>5
  <2>7. f[k - 1] = g[k - 1]
    BY <2>3, <2>6
  <2>8. f[k] = f[k - 1] \o s[k] /\ g[k] = g[k - 1] \o s[k]
    BY <1>2, <2>4, <2>5 DEF FlatStep
  <2>9. QED  BY <2>4, <2>7, <2>8
<1>4. \A i \in 1 .. n : f[i] = g[i]
  BY <1>3
<1>5. \A i \in 1 .. n : FlatStep(s, f, i) = FlatStep(s, g, i)
  BY <1>2, <1>4
<1>6. QED  BY <1>1, <1>5, Zenon

LEMMA FlattenIs ==
  ASSUME NEW s, Len(s) \in Nat, Len(s) # 0, NEW f, Flat(s, f)
  PROVE  FlattenSeq(s) = f[Len(s)]
<1>1. FlattenSeq(s) = (CHOOSE g : Flat(s, g))[Len(s)]
  BY DEF FlattenSeq, Flat, FlatStep
<1>2. Flat(s, CHOOSE g : Flat(s, g))
  OBVIOUS
<1>3. (CHOOSE g : Flat(s, g)) = f
  BY <1>2, FlatUnique
<1>4. QED  BY <1>1, <1>3

LEMMA FlattenAppend ==
  ASSUME NEW T, NEW s \in Seq(Seq(T)), NEW t \in Seq(T)
  PROVE  /\ FlattenSeq(s) \in Seq(T)
         /\ FlattenSeq(Append(s, t)) = FlattenSeq(s) \o t
<1> DEFINE n  == Len(s)
           s2 == Append(s, t)
<1>1. /\ n \in Nat /\ s2 \in Seq(Seq(T)) /\ Len(s2) = n + 1
      /\ s2[n + 1] = t /\ \A i \in 1 .. n : s2[i] = s[i]
  BY LenProperties, AppendProperties
<1> HIDE DEF s2
<1>2. CASE n = 0
  <2>1. s = <<>> /\ FlattenSeq(s) = s
    BY <1>2 DEF FlattenSeq
  <2> DEFINE g == [i \in 1 .. 1 |-> t]
  <2>2. Len(s2) = 1 /\ s2[1] = t /\ \A i \in 1 .. 1 : i = 1
    BY <1>1, <1>2
  <2>3. \A i \in 1 .. 1 : FlatStep(s2, g, i) = t
    BY <2>2 DEF FlatStep
  <2>4. Flat(s2, g)
    BY <2>2, <2>3 DEF Flat
  <2>5. g[1] = t
    OBVIOUS
  <2> HIDE DEF g
  <2>6. FlattenSeq(s2) = t
    <3>1. Len(s2) \in Nat /\ Len(s2) # 0 /\ Len(s2) = 1
      BY <2>2
    <3>2. FlattenSeq(s2) = g[Len(s2)]
      BY <2>4, <3>1, FlattenIs
    <3>3. QED  BY <2>5, <3>1, <3>2
  <2>7. <<>> \in Seq(T) /\ <<>> \o t = t
    BY EmptySeq, ConcatEmptySeq
  <2>8. QED  BY <2>1, <2>6, <2>7 DEF s2
<1>3. CASE n # 0
  <2>1. PICK f \in [1 .. n -> Seq(T)] : Flat(s, f)
    BY <1>3, FlatExists
  <2>2. n \in 1 .. n
    BY <1>1, <1>3
  <2>3. FlattenSeq(s) = f[n] /\ f[n] \in Seq(T)
    BY <1>1, <1>3, <2>1, <2>2, FlattenIs
  <2> DEFINE v == f[n] \o t
             g == [i \in 1 .. n + 1 |-> IF i = n + 1 THEN v ELSE f[i]]
  <2>4. /\ n + 1 \in 1 .. n + 1 /\ n + 1 # 1 /\ (n + 1) - 1 = n
        /\ \A i \in 1 .. n + 1 : i \in 1 .. n \/ i = n + 1
        /\ \A i \in 1 .. n : i \in 1 .. n + 1 /\ i # n + 1 /\ (i # 1 => i - 1 \in 1 .. n)
    BY <1>1, <1>3
  <2> HIDE DEF v
  <2>5. g[n + 1] = v /\ \A i \in 1 .. n : g[i] = f[i]
    BY <2>4
  <2>6. f = [i \in 1 .. n |-> FlatStep(s, f, i)]
    BY <2>1 DEF Flat
  <2>7. \A i \in 1 .. n : f[i] = FlatStep(s, f, i)
    BY <2>6, Zenon
  <2>8. DOMAIN g = 1 .. n + 1 /\ g = [i \in 1 .. n + 1 |-> g[i]]
    OBVIOUS
  <2> HIDE DEF g
  <2>9. \A i \in 1 .. n : g[i] = FlatStep(s2, g, i)
    BY <1>1, <2>4, <2>5, <2>7 DEF FlatStep
  <2>10. g[n + 1] = FlatStep(s2, g, n + 1)
    <3>1. g[n] = f[n]
      BY <2>2, <2>5
    <3>2. FlatStep(s2, g, n + 1) = g[n] \o t
      BY <1>1, <2>4 DEF FlatStep
    <3>3. QED  BY <2>5, <3>1, <3>2 DEF v
  <2>11. \A i \in 1 .. n + 1 : g[i] = FlatStep(s2, g, i)
    BY <2>4, <2>9, <2>10
  <2>12. Flat(s2, g)
    BY <1>1, <2>8, <2>11 DEF Flat
  <2>13. FlattenSeq(s2) = g[n + 1]
    <3>1. Len(s2) \in Nat /\ Len(s2) # 0
      BY <1>1
    <3>2. QED  BY <1>1, <2>12, <3>1, FlattenIs
  <2>14. QED  BY <2>3, <2>5, <2>13 DEF s2, v
<1>4. QED  BY <1>2, <1>3
Told == [bsa : Int, result : Result]

\* The BSA of the results in a buffer x that follows the buffers s, and those
\* results as the sinks hear of them.
BsaNow(s, x) == IF x.isInit THEN x.initTs ELSE Bsa(s, Len(s))

Entries(s, x) ==
  [k \in 1 .. x.num |-> [bsa |-> BsaNow(s, x), result |-> x.results[k - 1]]]

LEMMA BsaType ==
  ASSUME NEW s \in Seq(Buffer), NEW b \in 0 .. Len(s)
  PROVE  Bsa(s, b) \in Int
<1> DEFINE I == {a \in 1 .. b : s[a].isInit}
<1>1. b \in Nat /\ I \subseteq 1 .. b /\ \A a \in 1 .. b : a \in 1 .. Len(s)
  BY LenProperties
<1>2. CASE I = {}
  BY <1>2 DEF Bsa
<1>3. CASE I # {}
  <2>1. PICK x \in I : IsMax(I, x)
    BY <1>1, <1>3, LargestExists
  <2>2. Max(I) = x
    <3>1. I \subseteq Int
      BY <1>1
    <3>2. QED  BY <2>1, <3>1, MaxIs
  <2>3. s[x] \in Buffer
    BY <1>1, <2>1, ElementOfSeq
  <2>4. s[x].initTs \in Int
    BY <2>3, BufferFields
  <2>5. QED  BY <1>3, <2>2, <2>4 DEF Bsa
<1>4. QED  BY <1>2, <1>3

LEMMA BsaAppend ==
  ASSUME NEW s \in Seq(Buffer), NEW x \in Buffer
  PROVE  /\ Bsa(Append(s, x), Len(s) + 1) = BsaNow(s, x)
         /\ \A b \in 1 .. Len(s) : Bsa(Append(s, x), b) = Bsa(s, b)
<1> DEFINE n  == Len(s)
           s2 == Append(s, x)
           p  == n + 1
           I  == {a \in 1 .. n : s[a].isInit}
           I2 == {a \in 1 .. p : s2[a].isInit}
<1>1. /\ n \in Nat /\ s2[n + 1] = x /\ \A i \in 1 .. n : s2[i] = s[i]
  BY LenProperties, AppendProperties
<1> HIDE DEF s2
<1>2. ASSUME NEW b \in 1 .. n
      PROVE  Bsa(s2, b) = Bsa(s, b)
  <2> DEFINE J  == {a \in 1 .. b : s[a].isInit}
             J2 == {a \in 1 .. b : s2[a].isInit}
  <2>1. b \in Nat /\ \A a \in 1 .. b : a \in 1 .. n
    BY <1>1
  <2>2. J2 = J
    BY <1>1, <2>1
  <2>3. CASE J = {}
    BY <2>2, <2>3 DEF Bsa
  <2>4. CASE J # {}
    <3>1. PICK y \in J : IsMax(J, y)
      <4>1. J \subseteq 1 .. b
        OBVIOUS
      <4>2. QED  BY <2>1, <2>4, <4>1, LargestExists
    <3>2. Max(J) = y
      <4>1. J \subseteq Int
        BY <2>1
      <4>2. QED  BY <3>1, <4>1, MaxIs
    <3>3. s2[y] = s[y]
      BY <1>1, <2>1, <3>1
    <3>4. Bsa(s, b) = s[y].initTs /\ Bsa(s2, b) = s2[y].initTs
      BY <2>2, <2>4, <3>2 DEF Bsa
    <3>5. QED  BY <3>3, <3>4
  <2>5. QED  BY <2>3, <2>4
<1>3. I2 = I \cup (IF x.isInit THEN {p} ELSE {})
  <2>1. 1 .. p = (1 .. n) \cup {p}
    BY <1>1
  <2>2. I2 = {a \in (1 .. n) \cup {p} : s2[a].isInit}
    BY <2>1
  <2>3. I = {a \in 1 .. n : s2[a].isInit}
    BY <1>1
  <2>4. s2[p] = x
    BY <1>1
  <2> HIDE DEF n, p, I, I2
  <2>5. QED  BY <2>2, <2>3, <2>4
<1>4. \A y \in I : y \in 1 .. n /\ y \in Int /\ y <= p
  BY <1>1
<1>5. p \in Int /\ p <= p
  BY <1>1
<1>6. s2[p] = x
  BY <1>1
<1>7. CASE x.isInit
  <2>1. I2 = I \cup {p}
    BY <1>3, <1>7
  <2>2. IsMax(I2, p) /\ I2 \subseteq Int /\ I2 # {}
    <3> HIDE DEF I, I2, p, n
    <3>1. QED  BY <1>4, <1>5, <2>1 DEF IsMax
  <2>3. Max(I2) = p
    BY <2>2, MaxIs
  <2>4. Bsa(s2, p) = x.initTs
    BY <1>6, <2>2, <2>3 DEF Bsa
  <2>5. QED  BY <1>2, <1>7, <2>4 DEF BsaNow, s2
<1>8. CASE ~x.isInit
  <2>1. I2 = I
    BY <1>3, <1>8
  <2>2. Bsa(s2, p) = Bsa(s, n)
    <3>1. CASE I = {}
      BY <2>1, <3>1 DEF Bsa
    <3>2. CASE I # {}
      <4>1. PICK y \in I : IsMax(I, y)
        <5>1. I \subseteq 1 .. n
          OBVIOUS
        <5>2. QED  BY <1>1, <3>2, <5>1, LargestExists
      <4>2. Max(I) = y
        <5>1. I \subseteq Int
          BY <1>4
        <5>2. QED  BY <4>1, <5>1, MaxIs
      <4>3. s2[y] = s[y]
        BY <1>1, <1>4, <4>1
      <4>4. Bsa(s, n) = s[y].initTs /\ Bsa(s2, p) = s2[y].initTs
        BY <2>1, <3>2, <4>2 DEF Bsa
      <4>5. QED  BY <4>3, <4>4
    <3>3. QED  BY <3>1, <3>2
  <2>3. QED  BY <1>2, <1>8, <2>2 DEF BsaNow, s2
<1>9. QED  BY <1>7, <1>8

LEMMA EntriesType ==
  ASSUME NEW s \in Seq(Buffer), NEW x \in Buffer
  PROVE  /\ BsaNow(s, x) \in Int
         /\ Entries(s, x) \in Seq(Told) /\ Len(Entries(s, x)) = x.num
         /\ x.num \in Nat
         /\ \A k \in 1 .. x.num : k - 1 \in Places
<1>1. BsaNow(s, x) \in Int
  <2>1. Len(s) \in 0 .. Len(s)
    BY LenProperties
  <2>2. QED  BY <2>1, BsaType, BufferFields DEF BsaNow
<1>2. x.num \in 0 .. ResultsMax /\ ResultsMax \in Nat
  BY BufferFields, ResultsAssumption
<1>3. \A k \in 1 .. x.num : k - 1 \in Places
  BY <1>2 DEF Places
<1>4. \A k \in 1 .. x.num : [bsa |-> BsaNow(s, x), result |-> x.results[k - 1]] \in Told
  <2>1. \A k \in 1 .. x.num : x.results[k - 1] \in Result
    BY <1>3, BufferFields
  <2>2. QED  BY <1>1, <2>1 DEF Told
<1>5. x.num \in Nat
  BY <1>2
<1>6. Entries(s, x) \in Seq(Told) /\ Len(Entries(s, x)) = x.num
  <2> DEFINE v == BsaNow(s, x)
             m == x.num
  <2>1. Entries(s, x) = [k \in 1 .. m |-> [bsa |-> v, result |-> x.results[k - 1]]]
    BY DEF Entries
  <2>2. m \in Nat /\ \A k \in 1 .. m : [bsa |-> v, result |-> x.results[k - 1]] \in Told
    BY <1>4, <1>5
  <2> HIDE DEF v, m
  <2>3. QED  BY <2>1, <2>2 DEF m
<1>7. QED  BY <1>1, <1>3, <1>5, <1>6

LEMMA ResultsIs ==
  ASSUME NEW s \in Seq(Buffer), NEW x \in Buffer
  PROVE  /\ Results(Append(s, x), Len(s) + 1) = Entries(s, x)
         /\ \A b \in 1 .. Len(s) : Results(Append(s, x), b) = Results(s, b)
<1>1. /\ Append(s, x)[Len(s) + 1] = x
      /\ \A i \in 1 .. Len(s) : Append(s, x)[i] = s[i]
  BY LenProperties, AppendProperties
<1>2. Results(Append(s, x), Len(s) + 1) = Entries(s, x)
  BY <1>1, BsaAppend DEF Results, Entries
<1>3. ASSUME NEW b \in 1 .. Len(s)
      PROVE  Results(Append(s, x), b) = Results(s, b)
  <2>1. Append(s, x)[b] = s[b] /\ Bsa(Append(s, x), b) = Bsa(s, b)
    BY <1>1, BsaAppend
  <2>2. QED  BY <2>1 DEF Results
<1>4. QED  BY <1>2, <1>3
Lists(s) == [b \in 1 .. Len(s) |-> Results(s, b)]

LEMMA ListsType ==
  ASSUME NEW s \in Seq(Buffer)
  PROVE  Lists(s) \in Seq(Seq(Told)) /\ Len(Lists(s)) = Len(s)
<1> DEFINE n == Len(s)
<1>1. n \in Nat
  BY LenProperties
<1>2. ASSUME NEW b \in 1 .. n
      PROVE  Results(s, b) \in Seq(Told)
  <2>1. s[b] \in Buffer /\ Bsa(s, b) \in Int
    <3>1. b \in 0 .. n
      BY <1>1
    <3>2. QED  BY <3>1, BsaType, ElementOfSeq
  <2> DEFINE m == s[b].num
             v == Bsa(s, b)
  <2>2. m \in Nat /\ \A k \in 1 .. m : k - 1 \in Places
    BY <2>1, EntriesType
  <2>3. \A k \in 1 .. m : s[b].results[k - 1] \in Result
    BY <2>1, <2>2, BufferFields
  <2>4. \A k \in 1 .. m : [bsa |-> v, result |-> s[b].results[k - 1]] \in Told
    BY <2>1, <2>3 DEF Told
  <2>5. Results(s, b) = [k \in 1 .. m |-> [bsa |-> v, result |-> s[b].results[k - 1]]]
    BY DEF Results
  <2> HIDE DEF m, v
  <2>6. QED  BY <2>2, <2>4, <2>5
<1>3. Lists(s) = [b \in 1 .. n |-> Results(s, b)]
  BY DEF Lists
<1> HIDE DEF n
<1>4. Lists(s) \in Seq(Seq(Told)) /\ Len(Lists(s)) = n
  BY <1>1, <1>2, <1>3
<1>5. QED  BY <1>4 DEF n

\* What is heard of one more buffer.
LEMMA HeardAppend ==
  ASSUME NEW s \in Seq(Buffer), NEW x \in Buffer
  PROVE  /\ Heard(s) \in Seq(Told)
         /\ Heard(Append(s, x)) = Heard(s) \o Entries(s, x)
<1> DEFINE n  == Len(s)
           s2 == Append(s, x)
           e  == Entries(s, x)
           L  == Lists(s)
           L2 == Lists(s2)
<1>1. n \in Nat /\ s2 \in Seq(Buffer) /\ Len(s2) = n + 1
  BY LenProperties, AppendProperties
<1>2. L \in Seq(Seq(Told)) /\ Len(L) = n /\ L2 \in Seq(Seq(Told)) /\ Len(L2) = n + 1
      /\ e \in Seq(Told)
  BY <1>1, ListsType, EntriesType
<1>3. /\ \A b \in 1 .. n : L[b] = Results(s, b)
      /\ \A b \in 1 .. n + 1 : L2[b] = Results(s2, b)
  BY <1>1 DEF Lists
<1>4. Results(s2, n + 1) = e /\ \A b \in 1 .. n : Results(s2, b) = Results(s, b)
  BY ResultsIs
<1> HIDE DEF s2, e, L, L2
<1>5. /\ Append(L, e) \in Seq(Seq(Told)) /\ Len(Append(L, e)) = n + 1
      /\ Append(L, e)[n + 1] = e /\ \A b \in 1 .. n : Append(L, e)[b] = L[b]
  BY <1>2, AppendProperties
<1>6. \A b \in 1 .. n + 1 : L2[b] = Append(L, e)[b]
  <2>1. \A b \in 1 .. n + 1 : b \in 1 .. n \/ b = n + 1
    BY <1>1
  <2>2. n + 1 \in 1 .. n + 1 /\ \A b \in 1 .. n : b \in 1 .. n + 1
    BY <1>1
  <2> HIDE DEF n
  <2>3. QED  BY <1>3, <1>4, <1>5, <2>1, <2>2
<1>7. L2 = Append(L, e)
  BY <1>2, <1>5, <1>6, SeqEqual
<1>8. FlattenSeq(L) \in Seq(Told) /\ FlattenSeq(Append(L, e)) = FlattenSeq(L) \o e
  BY <1>2, FlattenAppend
<1>9. Heard(s) = FlattenSeq(L) /\ Heard(s2) = FlattenSeq(L2)
  BY DEF Heard, L, L2, Lists
<1>10. QED  BY <1>7, <1>8, <1>9 DEF s2, e

\* A buffer without results says nothing; buffers with the same results in
\* the same BSA say the same.
LEMMA EntriesEmpty ==
  ASSUME NEW s \in Seq(Buffer), NEW x \in Buffer, x.num = 0
  PROVE  Heard(Append(s, x)) = Heard(s)
<1>1. Entries(s, x) = <<>>
  <2>1. Entries(s, x) \in Seq(Told) /\ Len(Entries(s, x)) = 0
    BY EntriesType
  <2>2. QED  BY <2>1, EmptySeq
<1>2. QED  BY <1>1, HeardAppend, ConcatEmptySeq

LEMMA EntriesSame ==
  ASSUME NEW s, NEW x \in Buffer, NEW y \in Buffer,
         x.num = y.num, x.isInit = y.isInit, x.initTs = y.initTs,
         \A j \in 0 .. y.num - 1 : x.results[j] = y.results[j]
  PROVE  Entries(s, x) = Entries(s, y) /\ BsaNow(s, x) = BsaNow(s, y)
<1>1. BsaNow(s, x) = BsaNow(s, y)
  BY DEF BsaNow
<1>2. \A k \in 1 .. y.num : k - 1 \in 0 .. y.num - 1
  BY BufferFields, ResultsAssumption
<1>3. QED  BY <1>1, <1>2 DEF Entries

\* One more result.
LEMMA EntriesMore ==
  ASSUME NEW s \in Seq(Buffer), NEW x \in Buffer, NEW y \in Buffer,
         x.num = y.num + 1, x.isInit = y.isInit, x.initTs = y.initTs,
         \A j \in 0 .. y.num - 1 : x.results[j] = y.results[j]
  PROVE  Heard(Append(s, x)) =
           Append(Heard(Append(s, y)), [bsa |-> BsaNow(s, y), result |-> x.results[y.num]])
<1> DEFINE e == [bsa |-> BsaNow(s, y), result |-> x.results[y.num]]
           n == y.num
           X == Entries(s, x)
           Y == Entries(s, y)
           Z == Append(Y, e)
<1>1. /\ X \in Seq(Told) /\ Len(X) = n + 1 /\ Y \in Seq(Told) /\ Len(Y) = n /\ n \in Nat
      /\ BsaNow(s, y) \in Int /\ \A k \in 1 .. x.num : k - 1 \in Places
  BY EntriesType
<1>2. BsaNow(s, x) = BsaNow(s, y)
  BY DEF BsaNow
<1>3. e \in Told
  <2>1. n + 1 \in 1 .. x.num /\ (n + 1) - 1 = n
    BY <1>1
  <2>2. x.results[n] \in Result
    BY <1>1, <2>1, BufferFields
  <2>3. QED  BY <1>1, <2>2 DEF Told
<1> HIDE DEF e
<1>4. Z \in Seq(Told) /\ Len(Z) = n + 1 /\ Z[n + 1] = e /\ \A k \in 1 .. n : Z[k] = Y[k]
  BY <1>1, <1>3, AppendProperties
<1>5. \A k \in 1 .. n + 1 : X[k] = Z[k]
  <2>1. \A k \in 1 .. n + 1 : X[k] = [bsa |-> BsaNow(s, y), result |-> x.results[k - 1]]
    BY <1>2 DEF Entries
  <2>2. \A k \in 1 .. n : Y[k] = [bsa |-> BsaNow(s, y), result |-> y.results[k - 1]]
    BY DEF Entries
  <2>3. \A k \in 1 .. n : k \in 1 .. n + 1 /\ k - 1 \in 0 .. n - 1
    BY <1>1
  <2>4. \A k \in 1 .. n + 1 : k \in 1 .. n \/ k = n + 1
    BY <1>1
  <2>5. (n + 1) - 1 = n /\ n + 1 \in 1 .. n + 1
    BY <1>1
  <2>6. X[n + 1] = e
    BY <2>1, <2>5 DEF e
  <2>7. \A k \in 1 .. n : X[k] = Y[k]
    <3> HIDE DEF n, X, Y
    <3>1. \A j \in 0 .. n - 1 : x.results[j] = y.results[j]
      BY DEF n
    <3>2. QED  BY <2>1, <2>2, <2>3, <3>1
  <2> HIDE DEF n, X, Y, Z
  <2>8. QED  BY <1>4, <2>4, <2>6, <2>7
<1>6. X = Z
  BY <1>1, <1>4, <1>5, SeqEqual
<1>7. Heard(s) \in Seq(Told) /\ Heard(Append(s, x)) = Heard(s) \o X
      /\ Heard(Append(s, y)) = Heard(s) \o Y
  BY HeardAppend
<1> DEFINE H == Heard(s)
<1>8. H \o Append(Y, e) = Append(H \o Y, e)
  <2> HIDE DEF H, Y
  <2> DEFINE U == H \o Append(Y, e)
             V == Append(H \o Y, e)
             m == Len(H)
  <2>1. /\ m \in Nat /\ U \in Seq(Told) /\ Len(U) = m + (n + 1)
        /\ \A i \in 1 .. m + (n + 1) : U[i] = IF i <= m THEN H[i] ELSE Z[i - m]
    <3>1. H \in Seq(Told)
      BY <1>7 DEF H
    <3>2. m \in Nat
      BY <3>1, LenProperties
    <3>3. U = H \o Z /\ Z \in Seq(Told) /\ Len(Z) = n + 1
      BY <1>4
    <3> HIDE DEF U, Z, n, m
    <3>4. /\ H \o Z \in Seq(Told) /\ Len(H \o Z) = Len(H) + Len(Z)
          /\ \A i \in 1 .. Len(H) + Len(Z) :
               (H \o Z)[i] = IF i <= Len(H) THEN H[i] ELSE Z[i - Len(H)]
      BY <3>1, <3>3, ConcatProperties
    <3>5. QED  BY <3>2, <3>3, <3>4 DEF m
  <2>2. /\ H \o Y \in Seq(Told) /\ Len(H \o Y) = m + n
        /\ \A i \in 1 .. m + n : (H \o Y)[i] = IF i <= m THEN H[i] ELSE Y[i - m]
    BY <1>1, <1>7, ConcatProperties DEF H
  <2>3. /\ V \in Seq(Told) /\ Len(V) = (m + n) + 1 /\ V[(m + n) + 1] = e
        /\ \A i \in 1 .. m + n : V[i] = (H \o Y)[i]
    BY <1>3, <2>2, AppendProperties
  <2>4. m + (n + 1) = (m + n) + 1
    BY <1>1, <2>1
  <2>5. \A i \in 1 .. m + (n + 1) : U[i] = V[i]
    <3> TAKE i \in 1 .. m + (n + 1)
    <3> HIDE DEF U, V, Z, m, n
    <3>1. CASE i = (m + n) + 1
      <4>1. ~(i <= m) /\ i - m = n + 1
        BY <1>1, <2>1, <3>1
      <4>2. U[i] = Z[n + 1]
        BY <2>1, <4>1
      <4>3. QED  BY <1>4, <2>3, <3>1, <4>2
    <3>2. CASE i # (m + n) + 1
      <4>1. i \in 1 .. m + n
        BY <1>1, <2>1, <3>2
      <4>2. V[i] = IF i <= m THEN H[i] ELSE Y[i - m]
        BY <2>2, <2>3, <4>1
      <4>3. ~(i <= m) => i - m \in 1 .. n
        BY <1>1, <2>1, <4>1
      <4>4. QED  BY <1>4, <2>1, <4>2, <4>3
    <3>3. QED  BY <3>1, <3>2
  <2>6. Len(U) = Len(V)
    BY <2>1, <2>3, <2>4
  <2> HIDE DEF U, V, m, n, Z
  <2>7. U = V
    BY <2>1, <2>3, <2>5, <2>6, SeqEqual
  <2>8. QED  BY <2>7 DEF U, V
<1>9. QED  BY <1>6, <1>7, <1>8 DEF e
-----------------------------------------------------------------------------
(* The calls: what each does to the results heard (those in the buffer not *)
(* sent yet included), to the BSA they belong to and to the average in     *)
(* progress.                                                               *)

HeardOf(c)    == Heard(Append(c.sent, c.work))
BsaOf(c)      == BsaNow(c.sent, c.work)
InProgress(c) == c.work.results[c.cur]

LEMMA ChannelParts ==
  ASSUME NEW n, NEW c, ChannelOK(c, n)
  PROVE  /\ c \in Channel /\ InWork(c) /\ c.work \in Buffer /\ c.cur \in Places
         /\ c.sent \in Seq(Buffer) /\ c.cur = c.work.num /\ c.work.num \in Nat
         /\ InProgress(c) \in Result
         /\ \A j \in 0 .. c.work.num - 1 : j \in Places /\ j # c.cur
<1>1. /\ c \in Channel /\ InWork(c) /\ c.work \in Buffer /\ c.cur \in Places
      /\ c.sent \in Seq(Buffer) /\ c.cur = c.work.num
  BY ChannelFields DEF ChannelOK, InWork
<1>2. InProgress(c) \in Result
  BY <1>1, BufferFields DEF InProgress
<1>3. c.work.num \in Nat /\ \A j \in 0 .. c.work.num - 1 : j \in Places /\ j # c.cur
  BY <1>1, ResultsAssumption DEF Places
<1>4. QED  BY <1>1, <1>2, <1>3

LEMMA BeginHeard ==
  ASSUME NEW n \in Nat, NEW c, ChannelOK(c, n), NEW pid \in Int
  PROVE  LET d == Begin(c, pid) IN
         HeardOf(d) = HeardOf(c) /\ BsaOf(d) = pid /\ Blank(InProgress(d))
<1>1. /\ c \in Channel /\ InWork(c) /\ c.work \in Buffer /\ c.cur \in Places
      /\ c.sent \in Seq(Buffer) /\ c.cur = c.work.num /\ c.work.num \in Nat
      /\ \A j \in 0 .. c.work.num - 1 : j \in Places /\ j # c.cur
  BY ChannelParts
<1> DEFINE old  == Wrapped(c.work, c.cur)
           sent == IF c.work.num > 0 THEN Append(c.sent, old) ELSE c.sent
           d    == Begin(c, pid)
<1>2. PICK w \in Buffer : BeginPost(c, pid, w)
  BY <1>1, BeginIs
<1>3. /\ d = [work |-> w, cur |-> 0, dirty |-> c.dirty, sent |-> sent]
      /\ w.num = 0 /\ w.isInit = TRUE /\ w.initTs = pid /\ Blank(w.results[0])
  BY <1>2 DEF BeginPost
<1>4. /\ old \in Buffer /\ old.num = c.work.num
      /\ old.isInit = c.work.isInit /\ old.initTs = c.work.initTs
      /\ \A j \in 0 .. c.work.num - 1 : old.results[j] = c.work.results[j]
  BY <1>1, WrappedType
<1> HIDE DEF old
<1>5. sent \in Seq(Buffer)
  BY <1>1, <1>4, AppendProperties
<1>6. Heard(sent) = HeardOf(c)
  <2>1. CASE c.work.num > 0
    <3>1. Entries(c.sent, old) = Entries(c.sent, c.work)
      BY <1>1, <1>4, EntriesSame
    <3>2. Heard(Append(c.sent, old)) = Heard(Append(c.sent, c.work))
      BY <1>1, <1>4, <3>1, HeardAppend
    <3>3. QED  BY <2>1, <3>2 DEF HeardOf
  <2>2. CASE ~(c.work.num > 0)
    <3>1. c.work.num = 0
      BY <1>1, <2>2
    <3>2. QED  BY <1>1, <2>2, <3>1, EntriesEmpty DEF HeardOf
  <2>3. QED  BY <2>1, <2>2
<1> HIDE DEF sent, d
<1>7. Heard(Append(sent, w)) = Heard(sent)
  BY <1>3, <1>5, EntriesEmpty
<1>8. d.sent = sent /\ d.work = w /\ d.cur = 0
  BY <1>3
<1>9. HeardOf(d) = HeardOf(c)
  BY <1>6, <1>7, <1>8 DEF HeardOf
<1>10. BsaOf(d) = pid
  BY <1>3, <1>8 DEF BsaOf, BsaNow
<1>11. Blank(InProgress(d))
  BY <1>3, <1>8 DEF InProgress
<1>12. QED  BY <1>9, <1>10, <1>11 DEF d

LEMMA AverageHeard ==
  ASSUME NEW n \in Nat, NEW c, ChannelOK(c, n), NEW pid \in Int,
         NEW datum \in {Missing} \cup Severities, NEW limit \in Int
  PROVE  LET d == Average(c, pid, datum, limit) IN
         /\ HeardOf(d) = HeardOf(c) /\ BsaOf(d) = BsaOf(c)
         /\ InProgress(d) = Averaged(InProgress(c), pid, datum, limit)
<1>1. /\ c \in Channel /\ c.work \in Buffer /\ c.cur \in Places
      /\ c.sent \in Seq(Buffer) /\ c.cur = c.work.num
      /\ \A j \in 0 .. c.work.num - 1 : j \in Places /\ j # c.cur
  BY ChannelParts
<1> DEFINE d == Average(c, pid, datum, limit)
<1>2. PICK w \in Buffer : AveragePost(c, pid, datum, limit, w)
  BY <1>1, AverageIs
<1>3. d.work = w /\ d.cur = c.cur /\ d.sent = c.sent
  BY <1>2 DEF AveragePost
<1>4. /\ w.num = c.work.num /\ w.isInit = c.work.isInit /\ w.initTs = c.work.initTs
      /\ \A j \in 0 .. c.work.num - 1 : w.results[j] = c.work.results[j]
      /\ w.results[c.cur] = Averaged(c.work.results[c.cur], pid, datum, limit)
  BY <1>1, <1>2 DEF AveragePost
<1> HIDE DEF d
<1>5. Entries(c.sent, w) = Entries(c.sent, c.work) /\ BsaNow(c.sent, w) = BsaNow(c.sent, c.work)
  BY <1>1, <1>4, EntriesSame
<1>6. HeardOf(d) = HeardOf(c) /\ BsaOf(d) = BsaOf(c)
  BY <1>1, <1>3, <1>5, HeardAppend DEF HeardOf, BsaOf
<1>7. InProgress(d) = Averaged(InProgress(c), pid, datum, limit)
  BY <1>3, <1>4 DEF InProgress
<1>8. QED  BY <1>6, <1>7 DEF d

LEMMA FinishHeard ==
  ASSUME NEW n \in Nat, NEW c, ChannelOK(c, n), NEW shape \in Shapes,
         maxResults \in 1 .. ResultsMax
  PROVE  LET d == Finish(c, shape)
             e == [bsa |-> BsaOf(c), result |-> WrapUp(InProgress(c))] IN
         /\ HeardOf(d) = IF shape.avgDone THEN Append(HeardOf(c), e) ELSE HeardOf(c)
         /\ BsaOf(d) = BsaOf(c)
         /\ Blank(InProgress(d))
<1>1. /\ c \in Channel /\ InWork(c) /\ c.work \in Buffer /\ c.cur \in Places
      /\ c.sent \in Seq(Buffer) /\ c.cur = c.work.num /\ c.work.num \in Nat
      /\ \A j \in 0 .. c.work.num - 1 : j \in Places /\ j # c.cur
  BY ChannelParts
<1> DEFINE d == Finish(c, shape)
           e == [bsa |-> BsaOf(c), result |-> WrapUp(InProgress(c))]
           y == c.work
<1>2. PICK num \in 0 .. ResultsMax : num = y.num + (IF shape.avgDone THEN 1 ELSE 0)
  BY <1>1, ResultsAssumption DEF Places
<1>3. PICK w \in Buffer, o \in Buffer : FinishPost(c, shape, num, w, o)
  BY <1>1, <1>2, FinishIs
<1>4. /\ o.num = num /\ o.isInit = y.isInit /\ o.initTs = y.initTs
      /\ \A j \in 0 .. y.num - 1 : o.results[j] = y.results[j]
      /\ o.results[y.num] = WrapUp(InProgress(c))
  BY <1>1, <1>3 DEF FinishPost, InProgress
<1>5. Heard(Append(c.sent, o)) =
        IF shape.avgDone THEN Append(HeardOf(c), e) ELSE HeardOf(c)
  <2>1. CASE shape.avgDone
    <3>1. o.num = y.num + 1
      BY <1>2, <1>4, <2>1
    <3>2. Heard(Append(c.sent, o)) =
            Append(Heard(Append(c.sent, y)), [bsa |-> BsaNow(c.sent, y), result |-> o.results[y.num]])
      BY <1>1, <1>4, <3>1, EntriesMore
    <3>3. QED  BY <1>4, <2>1, <3>2 DEF HeardOf, BsaOf
  <2>2. CASE ~shape.avgDone
    <3>1. o.num = y.num
      BY <1>1, <1>2, <1>4, <2>2
    <3>2. Entries(c.sent, o) = Entries(c.sent, y)
      BY <1>1, <1>4, <3>1, EntriesSame
    <3>3. Heard(Append(c.sent, o)) = Heard(Append(c.sent, y))
      BY <1>1, <3>2, HeardAppend
    <3>4. QED  BY <2>2, <3>3 DEF HeardOf
  <2>3. QED  BY <2>1, <2>2
<1>6. BsaNow(c.sent, o) = BsaOf(c)
  BY <1>4 DEF BsaNow, BsaOf
<1>7. CASE Swaps(num, shape)
  <2>1. /\ d = [work |-> w, cur |-> 0, dirty |-> FALSE, sent |-> Append(c.sent, o)]
        /\ w.num = 0 /\ w.isInit = FALSE /\ Blank(w.results[0])
    BY <1>3, <1>7 DEF FinishPost
  <2>2. d.work = w /\ d.cur = 0 /\ d.sent = Append(c.sent, o)
    BY <2>1
  <2>3. Append(c.sent, o) \in Seq(Buffer) /\ Len(Append(c.sent, o)) = Len(c.sent) + 1
    BY <1>1, AppendProperties
  <2> HIDE DEF d
  <2>4. HeardOf(d) = Heard(Append(c.sent, o))
    BY <2>1, <2>2, <2>3, EntriesEmpty DEF HeardOf
  <2>5. BsaOf(d) = BsaNow(c.sent, o)
    <3>1. BsaOf(d) = Bsa(Append(c.sent, o), Len(c.sent) + 1)
      BY <2>1, <2>2, <2>3 DEF BsaOf, BsaNow
    <3>2. QED  BY <1>1, <3>1, BsaAppend
  <2>6. Blank(InProgress(d))
    BY <2>1, <2>2 DEF InProgress
  <2> HIDE DEF e, y
  <2>7. QED  BY <1>5, <1>6, <2>4, <2>5, <2>6 DEF d, e
<1>8. CASE ~Swaps(num, shape)
  <2>1. /\ d = [work |-> w, cur |-> num, dirty |-> c.dirty, sent |-> c.sent]
        /\ w.num = num /\ w.isInit = y.isInit /\ w.initTs = y.initTs
        /\ Blank(w.results[num])
        /\ \A j \in 0 .. num - 1 : w.results[j] = o.results[j]
    BY <1>3, <1>8 DEF FinishPost
  <2>2. d.work = w /\ d.cur = num /\ d.sent = c.sent
    BY <2>1
  <2> HIDE DEF d
  <2>3. Entries(c.sent, w) = Entries(c.sent, o) /\ BsaNow(c.sent, w) = BsaNow(c.sent, o)
    BY <1>4, <2>1, EntriesSame
  <2>4. HeardOf(d) = Heard(Append(c.sent, o))
    BY <1>1, <2>2, <2>3, HeardAppend DEF HeardOf
  <2>5. BsaOf(d) = BsaNow(c.sent, o)
    BY <2>2, <2>3 DEF BsaOf
  <2>6. Blank(InProgress(d))
    BY <2>1, <2>2 DEF InProgress
  <2> HIDE DEF e, y
  <2>7. QED  BY <1>5, <1>6, <2>4, <2>5, <2>6 DEF d, e
<1>9. QED  BY <1>7, <1>8

LEMMA MovedHeard ==
  ASSUME NEW n \in Nat, NEW c, ChannelOK(c, n), NEW d,
         d.work = Moved(c), d.cur = 0, d.sent = Append(c.sent, c.work)
  PROVE  HeardOf(d) = HeardOf(c) /\ BsaOf(d) = BsaOf(c) /\ InProgress(d) = InProgress(c)
<1>1. c \in Channel /\ c.work \in Buffer /\ c.sent \in Seq(Buffer)
  BY ChannelParts
<1>2. /\ Moved(c) \in Buffer /\ Moved(c).num = 0 /\ Moved(c).isInit = FALSE
      /\ Moved(c).results[0] = InProgress(c)
  BY <1>1, MovedIs DEF InProgress
<1>3. d.sent \in Seq(Buffer) /\ Len(d.sent) = Len(c.sent) + 1
  BY <1>1, AppendProperties
<1>4. HeardOf(d) = HeardOf(c)
  <2>1. Heard(Append(d.sent, d.work)) = Heard(d.sent)
    BY <1>2, <1>3, EntriesEmpty
  <2>2. QED  BY <2>1 DEF HeardOf
<1>5. BsaOf(d) = BsaOf(c)
  <2>1. BsaOf(d) = Bsa(Append(c.sent, c.work), Len(c.sent) + 1)
    BY <1>2, <1>3 DEF BsaOf, BsaNow
  <2>2. QED  BY <1>1, <2>1, BsaAppend DEF BsaOf
<1>6. InProgress(d) = InProgress(c)
  BY <1>2 DEF InProgress
<1>7. QED  BY <1>4, <1>5, <1>6
-----------------------------------------------------------------------------
(* The books: every average done so far was heard of, and nothing else. *)

DoneIn(l)    == {m \in 1 .. Len(l) : l[m].shape.avgDone}
RankIn(l, n) == Cardinality({m \in DoneIn(l) : m <= n})

Book(l, h) ==
  /\ h \in Seq(Told)
  /\ Len(h) = Cardinality(DoneIn(l))
  /\ \A n \in DoneIn(l) : RightIn(l, n, h[RankIn(l, n)])

LEMMA RightLocal ==
  ASSUME NEW l \in Seq(Record), NEW rec \in Record, NEW n \in 1 .. Len(l), NEW h,
         RightIn(l, n, h)
  PROVE  RightIn(Append(l, rec), n, h)
BY Local DEF RightIn

LEMMA RankRange ==
  ASSUME NEW l \in Seq(Record), NEW n \in DoneIn(l)
  PROVE  /\ IsFiniteSet(DoneIn(l)) /\ Cardinality(DoneIn(l)) \in Nat
         /\ RankIn(l, n) \in 1 .. Cardinality(DoneIn(l))
<1> DEFINE D == DoneIn(l)
           S == {m \in D : m <= n}
<1>1. Len(l) \in Nat
  BY LenProperties
<1>2. IsFiniteSet(1 .. Len(l)) /\ D \subseteq 1 .. Len(l)
  BY <1>1, FS_Interval DEF DoneIn
<1>3. n \in S /\ S \subseteq D
  BY <1>1, <1>2
<1>4. RankIn(l, n) = Cardinality(S)
  BY DEF RankIn
<1> HIDE DEF D, S
<1>5. IsFiniteSet(D) /\ Cardinality(D) \in Nat
  BY <1>2, FS_Subset, FS_CardinalityType
<1>6. IsFiniteSet(S) /\ Cardinality(S) <= Cardinality(D)
  BY <1>3, <1>5, FS_Subset
<1>7. Cardinality(S) \in Nat /\ Cardinality(S) # 0
  BY <1>3, <1>6, FS_CardinalityType, FS_EmptySet
<1>8. QED  BY <1>4, <1>5, <1>6, <1>7 DEF D

LEMMA DoneNext ==
  ASSUME NEW l \in Seq(Record), NEW rec \in Record
  PROVE  LET l2 == Append(l, rec)
             p  == Len(l) + 1 IN
         /\ DoneIn(l2) = DoneIn(l) \cup (IF rec.shape.avgDone THEN {p} ELSE {})
         /\ p \notin DoneIn(l) /\ DoneIn(l) \subseteq 1 .. Len(l)
         /\ IsFiniteSet(DoneIn(l)) /\ Cardinality(DoneIn(l)) \in Nat
         /\ \A n \in DoneIn(l) : RankIn(l2, n) = RankIn(l, n)
         /\ rec.shape.avgDone =>
              /\ Cardinality(DoneIn(l2)) = Cardinality(DoneIn(l)) + 1
              /\ RankIn(l2, p) = Cardinality(DoneIn(l)) + 1
<1> DEFINE l2 == Append(l, rec)
           n  == Len(l)
           p  == n + 1
           D  == DoneIn(l)
           D2 == DoneIn(l2)
<1>1. /\ n \in Nat /\ Len(l2) = n + 1 /\ l2[n + 1] = rec /\ \A m \in 1 .. n : l2[m] = l[m]
  BY LenProperties, AppendProperties
<1> HIDE DEF l2
<1>2. D2 = D \cup (IF rec.shape.avgDone THEN {p} ELSE {})
  <2>1. 1 .. p = (1 .. n) \cup {p}
    BY <1>1
  <2>2. D2 = {m \in (1 .. n) \cup {p} : l2[m].shape.avgDone}
    BY <1>1, <2>1 DEF DoneIn
  <2>3. D = {m \in 1 .. n : l2[m].shape.avgDone}
    BY <1>1 DEF DoneIn
  <2>4. l2[p] = rec
    BY <1>1
  <2> HIDE DEF n, p, D, D2
  <2>5. QED  BY <2>2, <2>3, <2>4
<1>3. D \subseteq 1 .. n /\ p \notin D
  BY <1>1 DEF DoneIn
<1>4. IsFiniteSet(1 .. n)
  BY <1>1, FS_Interval
<1>5. IsFiniteSet(D) /\ Cardinality(D) \in Nat
  <2> HIDE DEF D
  <2>1. QED  BY <1>3, <1>4, FS_Subset, FS_CardinalityType
<1>6. \A m \in D : RankIn(l2, m) = RankIn(l, m)
  <2> TAKE m \in D
  <2>1. m \in 1 .. n /\ ~(p <= m)
    BY <1>1, <1>3
  <2> HIDE DEF D, D2, p, n
  <2>2. {k \in D2 : k <= m} = {k \in D : k <= m}
    BY <1>2, <2>1
  <2>3. QED  BY <2>2 DEF RankIn, D, D2
<1>7. ASSUME rec.shape.avgDone
      PROVE  Cardinality(D2) = Cardinality(D) + 1 /\ RankIn(l2, p) = Cardinality(D) + 1
  <2>1. D2 = D \cup {p}
    BY <1>2, <1>7
  <2>2. \A k \in D2 : k <= p
    BY <1>1, <1>3, <2>1
  <2> HIDE DEF D, D2, p, n
  <2>3. {k \in D2 : k <= p} = D2
    BY <2>2
  <2>4. Cardinality(D2) = Cardinality(D) + 1
    BY <1>3, <1>5, <2>1, FS_AddElement
  <2>5. QED  BY <2>3, <2>4 DEF RankIn, D2
<1>8. QED  BY <1>2, <1>3, <1>5, <1>6, <1>7 DEF l2

LEMMA BookIdle ==
  ASSUME NEW l \in Seq(Record), NEW rec \in Record, NEW h, Book(l, h), ~rec.shape.avgDone
  PROVE  Book(Append(l, rec), h)
<1> DEFINE l2 == Append(l, rec)
<1>1. DoneIn(l2) = DoneIn(l)
  <2>1. DoneIn(l2) = DoneIn(l) \cup (IF rec.shape.avgDone THEN {Len(l) + 1} ELSE {})
    BY DoneNext
  <2>2. DoneIn(l2) = DoneIn(l) \cup {}
    BY <2>1, Zenon
  <2>3. QED  BY <2>2
<1>2. DoneIn(l) \subseteq 1 .. Len(l) /\ \A n \in DoneIn(l) : RankIn(l2, n) = RankIn(l, n)
  BY DoneNext
<1>3. \A n \in DoneIn(l) : RightIn(l2, n, h[RankIn(l, n)])
  BY <1>2, RightLocal DEF Book
<1> HIDE DEF l2
<1>4. Book(l2, h)
  BY <1>1, <1>2, <1>3 DEF Book
<1>5. QED  BY <1>4 DEF l2

LEMMA BookDone ==
  ASSUME NEW l \in Seq(Record), NEW rec \in Record, NEW h, Book(l, h), rec.shape.avgDone,
         NEW e \in Told, RightIn(Append(l, rec), Len(l) + 1, e)
  PROVE  Book(Append(l, rec), Append(h, e))
<1> DEFINE l2 == Append(l, rec)
           p  == Len(l) + 1
           h2 == Append(h, e)
           k  == Cardinality(DoneIn(l))
<1>1. /\ DoneIn(l2) = DoneIn(l) \cup {p}
      /\ DoneIn(l) \subseteq 1 .. Len(l) /\ k \in Nat
      /\ \A n \in DoneIn(l) : RankIn(l2, n) = RankIn(l, n)
      /\ Cardinality(DoneIn(l2)) = k + 1 /\ RankIn(l2, p) = k + 1
  BY DoneNext
<1>2. /\ h \in Seq(Told) /\ Len(h) = k
      /\ \A n \in DoneIn(l) : RightIn(l, n, h[RankIn(l, n)])
  BY DEF Book
<1>3. h2 \in Seq(Told) /\ Len(h2) = k + 1 /\ h2[k + 1] = e /\ \A i \in 1 .. k : h2[i] = h[i]
  BY <1>2, AppendProperties
<1>4. RightIn(l2, p, e)
  OBVIOUS
<1>5. \A n \in DoneIn(l) : RightIn(l2, n, h2[RankIn(l2, n)])
  <2> TAKE n \in DoneIn(l)
  <2>1. RankIn(l, n) \in 1 .. k
    BY RankRange
  <2>2. RightIn(l2, n, h[RankIn(l, n)])
    BY <1>1, <1>2, RightLocal
  <2> HIDE DEF l2, h2, k
  <2>3. QED  BY <1>1, <1>3, <2>1, <2>2
<1> HIDE DEF l2, p, h2, k
<1>6. \A n \in DoneIn(l2) : RightIn(l2, n, h2[RankIn(l2, n)])
  BY <1>1, <1>3, <1>4, <1>5
<1>7. Book(l2, h2)
  BY <1>1, <1>3, <1>6 DEF Book
<1>8. QED  BY <1>7 DEF l2, h2
-----------------------------------------------------------------------------
(* The inductive invariant: the books are right, and the average in        *)
(* progress, which starts with pulse s and belongs to BSA b, is right so   *)
(* far.  Missed pulses and severity are only known once an average has     *)
(* started properly.                                                       *)

Known(l, s) == s # 1 \/ (Len(l) >= 1 /\ l[1].shape.init)

Progress(c, l, s, b) ==
  /\ IsMax(NextsIn(l, Len(l)), s)
  /\ IsMax({0} \cup InitsIn(l, Len(l)), b)
  /\ BsaOf(c) = b
  /\ Counted(InProgress(c), l, s, Len(l))
  /\ Known(l, s) => Exact(InProgress(c), l, s, Len(l))
  /\ Book(l, HeardOf(c))

ResultsInv == TypeInv /\ \E s, b : Progress(chan, log, s, b)

LEMMA ProcessedProgress ==
  ASSUME NEW n \in Nat, NEW c, ChannelOK(c, n), NEW l \in Seq(Record), Len(l) + 1 \in 1 .. n,
         NEW s, NEW b, Progress(c, l, s, b),
         NEW shape \in Shapes, NEW datum \in {Missing} \cup Severities,
         maxResults \in 1 .. ResultsMax
  PROVE  LET l2 == Append(l, [shape |-> shape, datum |-> datum])
             d  == Processed(c, Len(l) + 1, shape, datum) IN
         \E t, a : Progress(d, l2, t, a)
<1> DEFINE rec == [shape |-> shape, datum |-> datum]
           l2  == Append(l, rec)
           N   == Len(l)
           p   == N + 1
           f   == IF shape.init THEN p ELSE s
           a   == IF shape.init THEN p ELSE b
           t   == IF EndsIn(l2, p) THEN N + 2 ELSE f
           c1  == IF shape.init THEN Begin(c, p) ELSE c
           c2  == IF shape.active THEN Average(c1, p, datum, shape.limit) ELSE c1
           d   == Processed(c, p, shape, datum)
           h   == HeardOf(c)
<1>1. rec \in Record /\ rec.shape = shape /\ rec.datum = datum
  BY DEF Record
<1>2. N \in Nat /\ p \in Int /\ p \in 1 .. n /\ shape.limit \in Int
  BY LenProperties, ShapeType
<1>3. /\ l2 \in Seq(Record) /\ Len(l2) = p /\ l2[p] = rec /\ \A m \in 1 .. N : l2[m] = l[m]
  BY <1>1, LenProperties, AppendProperties
<1>4. /\ IsMax(NextsIn(l, N), s) /\ IsMax({0} \cup InitsIn(l, N), b)
      /\ BsaOf(c) = b /\ Counted(InProgress(c), l, s, N)
      /\ Known(l, s) => Exact(InProgress(c), l, s, N)
      /\ Book(l, h)
  BY DEF Progress
<1> HIDE DEF rec
<1>5. s \in 1 .. p /\ IsMax(StartsIn(l2, p), f) /\ IsMax(NextsIn(l2, p), t)
  <2>1. LET ff == IF rec.shape.init THEN N + 1 ELSE s IN
        /\ s \in 1 .. N + 1 /\ IsMax(StartsIn(l2, N + 1), ff)
        /\ IsMax(NextsIn(l2, N + 1), IF EndsIn(l2, N + 1) THEN N + 2 ELSE ff)
    BY <1>1, <1>4, StartNext
  <2>2. QED  BY <1>1, <2>1
<1>6. IsMax({0} \cup InitsIn(l2, p), a)
  <2>1. IsMax({0} \cup InitsIn(l2, N + 1), IF rec.shape.init THEN N + 1 ELSE b)
    BY <1>1, <1>4, InitNext
  <2>2. QED  BY <1>1, <2>1
<1>7. f \in 1 .. p
  BY <1>2, <1>5
<1>8. EndsIn(l2, p) <=> shape.avgDone \/ shape.update
  BY <1>1, <1>3 DEF EndsIn
<1>9. GarbledIn(l2, p) <=> f = 1 /\ ~l2[1].shape.init
  <2>1. FirstIn(l2, p) = f
    <3>1. StartsIn(l2, p) \subseteq Int
      <4>1. p \in Nat
        BY <1>2
      <4>2. QED  BY <1>3, <4>1, StartsRange
    <3>2. QED  BY <1>5, <3>1, MaxIs DEF FirstIn
  <2>2. QED  BY <2>1 DEF GarbledIn
<1> DEFINE K == ~GarbledIn(l2, p)
\* INIT.
<1>10. /\ ChannelOK(c1, n) /\ HeardOf(c1) = h /\ BsaOf(c1) = a
       /\ Counted(InProgress(c1), l, f, N) /\ (K => Exact(InProgress(c1), l, f, N))
  <2>1. CASE shape.init
    <3>1. c1 = Begin(c, p) /\ f = p /\ a = p
      BY <2>1
    <3>2. ChannelOK(Begin(c, p), n)
      BY <1>2, BeginTypes
    <3>3. /\ HeardOf(Begin(c, p)) = h /\ BsaOf(Begin(c, p)) = p
          /\ Blank(InProgress(Begin(c, p)))
      BY <1>2, BeginHeard
    <3>4. N \in Int /\ p > N
      BY <1>2
    <3> HIDE DEF c1, f, a, p, h, K, l2, N
    <3>5. Counted(InProgress(c1), l, f, N) /\ Exact(InProgress(c1), l, f, N)
      BY <1>2, <3>1, <3>3, <3>4, NothingYet
    <3>6. QED  BY <3>1, <3>2, <3>3, <3>5
  <2>2. CASE ~shape.init
    <3>1. c1 = c /\ f = s /\ a = b
      BY <2>2
    <3>2. K => Known(l, s)
      <4>1. SUFFICES ASSUME s = 1, l2[1].shape.init
                     PROVE  N >= 1 /\ l[1].shape.init
        BY <1>9, <3>1 DEF Known
      <4>2. CASE N = 0
        <5>1. l2[1] = rec
          BY <1>3, <4>2
        <5>2. QED  BY <1>1, <2>2, <4>1, <5>1
      <4>3. CASE N # 0
        <5>1. 1 \in 1 .. N /\ N >= 1
          BY <1>2, <4>3
        <5>2. QED  BY <1>3, <4>1, <5>1
      <4>4. QED  BY <4>2, <4>3
    <3> HIDE DEF c1, f, a, p, h, K, l2, N
    <3>3. QED  BY <1>4, <3>1, <3>2 DEF h
  <2>3. QED  BY <2>1, <2>2
\* ACTIVE.
<1> HIDE DEF c1, f, a, t, h, K
<1>11. /\ ChannelOK(c2, n) /\ HeardOf(c2) = h /\ BsaOf(c2) = a
       /\ Counted(InProgress(c2), l2, f, p) /\ (K => Exact(InProgress(c2), l2, f, p))
  <2>1. CASE shape.active
    <3> DEFINE r  == InProgress(c1)
               r2 == Averaged(r, N + 1, rec.datum, rec.shape.limit)
    <3>1. c2 = Average(c1, p, datum, shape.limit)
      BY <2>1
    <3>2. ChannelOK(c2, n)
      BY <1>2, <1>10, <3>1, AverageTypes
    <3>3. HeardOf(c2) = h /\ BsaOf(c2) = a /\ InProgress(c2) = Averaged(r, p, datum, shape.limit)
      <4>1. LET x == Average(c1, p, datum, shape.limit) IN
            /\ HeardOf(x) = HeardOf(c1) /\ BsaOf(x) = BsaOf(c1)
            /\ InProgress(x) = Averaged(InProgress(c1), p, datum, shape.limit)
        <5> HIDE DEF p, c2, r, r2
        <5>1. QED  BY <1>2, <1>10, AverageHeard
      <4> HIDE DEF c2, p
      <4>2. QED  BY <1>10, <3>1, <4>1
    <3>4. r \in Result
      BY <1>10, ChannelParts
    <3>5. Counted(r2, l2, f, N + 1) /\ (Exact(r, l, f, N) => Exact(r2, l2, f, N + 1))
      <4> HIDE DEF r
      <4>1. Counted(r, l, f, N)
        BY <1>10 DEF r
      <4>2. rec.shape.active /\ f \in 1 .. N + 1
        BY <1>1, <1>7, <2>1
      <4>3. QED  BY <1>1, <3>4, <4>1, <4>2, AverageNext
    <3>6. InProgress(c2) = r2
      BY <1>1, <3>3
    <3> HIDE DEF r2, r, c2, l2, N
    <3>7. QED  BY <1>10, <3>2, <3>3, <3>5, <3>6 DEF r
  <2>2. CASE ~shape.active
    <3>1. c2 = c1
      BY <2>2
    <3> DEFINE r == InProgress(c1)
    <3>2. Counted(r, l2, f, N + 1) /\ (Exact(r, l, f, N) => Exact(r, l2, f, N + 1))
      <4>1. Counted(r, l, f, N) /\ ~rec.shape.active /\ f \in 1 .. N + 1
        BY <1>1, <1>7, <1>10, <2>2
      <4> HIDE DEF r
      <4>2. QED  BY <1>1, <4>1, IdleNext
    <3> HIDE DEF c2, l2, N
    <3>3. QED  BY <1>10, <3>1, <3>2
  <2>3. QED  BY <2>1, <2>2
<1>12. d = IF shape.avgDone \/ shape.update THEN Finish(c2, shape) ELSE c2
  BY DEF Processed, c1
<1> HIDE DEF c2, d
<1> DEFINE e == [bsa |-> BsaOf(c2), result |-> WrapUp(InProgress(c2))]
<1>13. shape.avgDone => e \in Told /\ RightIn(l2, p, e)
  <2> SUFFICES ASSUME shape.avgDone
               PROVE  e \in Told /\ RightIn(l2, p, e)
    OBVIOUS
  <2> DEFINE r == InProgress(c2)
  <2>1. r \in Result
    BY <1>11, ChannelParts
  <2>2. WrapUp(r) \in Result
    BY <2>1, CompTypes
  <2>3. a \in Int
    <3>1. a \in {0} \cup InitsIn(l2, p)
      BY <1>6 DEF IsMax
    <3>2. QED  BY <1>2, <3>1 DEF InitsIn
  <2>4. p \in 1 .. Len(l2)
    BY <1>1, <1>2, <1>3
  <2>5. Counted(r, l2, f, p) /\ (~GarbledIn(l2, p) => Exact(r, l2, f, p)) /\ BsaOf(c2) = a
    BY <1>11 DEF K
  <2> HIDE DEF r, l2, p
  <2>6. RightIn(l2, p, [bsa |-> a, result |-> WrapUp(r)])
    BY <1>3, <1>5, <1>6, <2>1, <2>4, <2>5, WrappedRight
  <2>7. [bsa |-> a, result |-> WrapUp(r)] \in Told
    BY <2>2, <2>3 DEF Told
  <2>8. QED  BY <2>5, <2>6, <2>7 DEF r
<1> HIDE DEF e
<1>14. Book(l2, IF shape.avgDone THEN Append(h, e) ELSE h)
  <2>1. CASE shape.avgDone
    <3>1. Book(l, h) /\ rec.shape.avgDone /\ e \in Told /\ RightIn(Append(l, rec), Len(l) + 1, e)
      BY <1>1, <1>4, <1>13, <2>1
    <3>2. Book(Append(l, rec), Append(h, e))
      BY <1>1, <3>1, BookDone
    <3>3. QED  BY <2>1, <3>2
  <2>2. CASE ~shape.avgDone
    <3>1. Book(l, h) /\ ~rec.shape.avgDone
      BY <1>1, <1>4, <2>2
    <3>2. Book(Append(l, rec), h)
      BY <1>1, <3>1, BookIdle
    <3>3. QED  BY <2>2, <3>2
  <2>3. QED  BY <2>1, <2>2
<1>15. CASE shape.avgDone \/ shape.update
  <2>1. d = Finish(c2, shape) /\ t = N + 2
    BY <1>8, <1>12, <1>15 DEF t
  <2>2. /\ HeardOf(d) = IF shape.avgDone THEN Append(h, e) ELSE h
        /\ BsaOf(d) = a /\ Blank(InProgress(d))
    <3>1. LET x == Finish(c2, shape)
              y == [bsa |-> BsaOf(c2), result |-> WrapUp(InProgress(c2))] IN
          /\ HeardOf(x) = IF shape.avgDone THEN Append(HeardOf(c2), y) ELSE HeardOf(c2)
          /\ BsaOf(x) = BsaOf(c2) /\ Blank(InProgress(x))
      BY <1>11, FinishHeard
    <3>2. QED  BY <1>11, <2>1, <3>1 DEF e
  <2>3. Counted(InProgress(d), l2, t, p) /\ Exact(InProgress(d), l2, t, p)
    <3>1. t \in Int /\ t > p
      BY <1>2, <2>1
    <3> HIDE DEF p, l2
    <3>2. QED  BY <1>2, <2>2, <3>1, NothingYet
  <2>4. Book(l2, HeardOf(d))
    BY <1>14, <2>2
  <2> HIDE DEF l2, p, N
  <2>5. Progress(d, l2, t, a)
    BY <1>3, <1>5, <1>6, <2>2, <2>3, <2>4 DEF Progress
  <2>6. QED  BY <2>5 DEF l2, rec, d, p, N
<1>16. CASE ~(shape.avgDone \/ shape.update)
  <2>1. d = c2 /\ t = f
    BY <1>8, <1>12, <1>16 DEF t
  <2>2. Known(l2, f) => K
    BY <1>9 DEF Known, K
  <2>3. Book(l2, HeardOf(d))
    BY <1>11, <1>14, <1>16, <2>1
  <2> HIDE DEF l2, p, N
  <2>4. Progress(d, l2, t, a)
    BY <1>3, <1>5, <1>6, <1>11, <2>1, <2>2, <2>3 DEF Progress
  <2>5. QED  BY <2>4 DEF l2, rec, d, p, N
<1>17. QED  BY <1>15, <1>16
LEMMA ResultsStart ==
  Init => ResultsInv
<1> SUFFICES ASSUME Init
             PROVE  ResultsInv
  OBVIOUS
<1>1. TypeInv
  BY TypeStart
<1>2. PICK g \in Garbage :
        chan = [work |-> [NewBuffer EXCEPT !.results[0] =
                  [count |-> 0, missed |-> g.missed, pid |-> 0, sevr |-> g.sevr, rms |-> "junk"]],
                cur |-> 0, dirty |-> FALSE, sent |-> <<>>]
  BY DEF Init
<1> DEFINE e == [count |-> 0, missed |-> g.missed, pid |-> 0, sevr |-> g.sevr, rms |-> "junk"]
           w == [NewBuffer EXCEPT !.results[0] = e]
<1>3. e \in Result /\ e.count = 0
  BY ResultsAssumption DEF Result
<1>4. w \in Buffer /\ w.num = 0 /\ w.isInit = FALSE /\ w.results[0] = e
  <2> HIDE DEF e
  <2>1. QED  BY <1>3, NewBufferType, SetResult
<1>5. chan.work = w /\ chan.cur = 0 /\ chan.sent = <<>>
  BY <1>2
<1>6. log = <<>> /\ Len(log) = 0
  BY DEF Init
<1> HIDE DEF w, e
<1>7. NextsIn(log, 0) = {1} /\ InitsIn(log, 0) = {}
  <2>1. 1 .. 0 = {}
    OBVIOUS
  <2>2. {k \in 1 .. 0 : EndsIn(log, k)} = {} /\ InitsIn(log, 0) = {}
    BY <2>1 DEF InitsIn
  <2>3. QED  BY <2>2 DEF NextsIn
<1>8. IsMax(NextsIn(log, 0), 1) /\ IsMax({0} \cup InitsIn(log, 0), 0)
  BY <1>7 DEF IsMax
<1>9. BsaOf(chan) = 0
  <2>1. Len(chan.sent) = 0 /\ ~chan.work.isInit
    BY <1>4, <1>5
  <2>2. Bsa(chan.sent, 0) = 0
    BY DEF Bsa
  <2>3. QED  BY <2>1, <2>2 DEF BsaOf, BsaNow
<1>10. InProgress(chan) = e
  BY <1>4, <1>5 DEF InProgress
<1>11. Counted(e, log, 1, 0)
  <2>1. ActiveIn(log, 1, 0) = {}
    BY DEF ActiveIn
  <2>2. GoodIn(log, 1, 0) = {}
    BY <2>1 DEF GoodIn
  <2>3. Cardinality({}) = 0
    BY FS_EmptySet
  <2>4. QED  BY <1>3, <2>1, <2>2, <2>3 DEF Counted
<1>12. ~Known(log, 1)
  BY <1>6 DEF Known
<1>13. Book(log, HeardOf(chan))
  <2>1. <<>> \in Seq(Buffer) /\ Len(<<>>) = 0
    BY EmptySeq
  <2>2. HeardOf(chan) = Heard(<<>>)
    BY <1>4, <1>5, <2>1, EntriesEmpty DEF HeardOf
  <2>3. Heard(<<>>) = FlattenSeq(Lists(<<>>))
    BY DEF Heard, Lists
  <2>4. Lists(<<>>) \in Seq(Seq(Told)) /\ Len(Lists(<<>>)) = 0
    BY <2>1, ListsType
  <2>5. Lists(<<>>) = <<>>
    BY <2>4, EmptySeq
  <2>6. FlattenSeq(<<>>) = <<>>
    BY DEF FlattenSeq
  <2>7. HeardOf(chan) = <<>>
    BY <2>2, <2>3, <2>5, <2>6
  <2>8. DoneIn(log) = {}
    BY <1>6 DEF DoneIn
  <2>9. Cardinality({}) = 0 /\ <<>> \in Seq(Told) /\ Len(<<>>) = 0
    BY FS_EmptySet, EmptySeq
  <2>10. QED  BY <2>7, <2>8, <2>9 DEF Book
<1>14. Progress(chan, log, 1, 0)
  BY <1>6, <1>8, <1>9, <1>10, <1>11, <1>12, <1>13 DEF Progress
<1>15. QED  BY <1>1, <1>14 DEF ResultsInv

LEMMA ResultsStep ==
  ResultsInv /\ [Next]_vars => ResultsInv'
<1> SUFFICES ASSUME ResultsInv, [Next]_vars
             PROVE  ResultsInv'
  OBVIOUS
<1>1. TypeInv /\ TypeInv'
  BY TypeStep DEF ResultsInv
<1>2. /\ ChannelOK(chan, MaxPulse) /\ maxResults \in 1 .. ResultsMax
      /\ log \in Seq(Record) /\ MaxPulse \in Nat /\ Len(log) \in Nat
  BY <1>1, ResultsAssumption, LenProperties DEF TypeInv
<1>3. PICK s, b : Progress(chan, log, s, b)
  BY DEF ResultsInv
<1>4. ASSUME HeardOf(chan') = HeardOf(chan), BsaOf(chan') = BsaOf(chan),
             InProgress(chan') = InProgress(chan), log' = log
      PROVE  ResultsInv'
  <2>1. Progress(chan', log', s, b)
    BY <1>3, <1>4 DEF Progress
  <2>2. QED  BY <1>1, <2>1 DEF ResultsInv
<1>5. ASSUME NEW shape \in Shapes, NEW datum \in {Missing} \cup Severities,
             Len(log) < MaxPulse, process(shape, datum)
      PROVE  ResultsInv'
  <2>1. /\ chan' = Processed(chan, Len(log) + 1, shape, datum)
        /\ log' = Append(log, [shape |-> shape, datum |-> datum])
    BY <1>5 DEF process, Processed
  <2>2. Len(log) + 1 \in 1 .. MaxPulse
    BY <1>2, <1>5
  <2>3. PICK t, a : Progress(chan', log', t, a)
    BY <1>2, <1>3, <2>1, <2>2, ProcessedProgress
  <2>4. QED  BY <1>1, <2>3 DEF ResultsInv
<1>6. CASE Pulse
  <2>1. PICK shape \in Shapes :
          \/ process(shape, Missing)
          \/ shape.active /\ \E sevr \in Severities : process(shape, sevr)
    BY <1>6 DEF Pulse
  <2>2. Len(log) < MaxPulse
    BY <1>6 DEF Pulse
  <2>3. QED  BY <1>5, <2>1, <2>2
<1>7. CASE Flush
  <2>1. log' = log
    BY <1>7 DEF Flush
  <2>2. CASE chan.work.num > 0
    <3>1. chan' = [work |-> Moved(chan), cur |-> 0, dirty |-> FALSE,
                   sent |-> Append(chan.sent, chan.work)]
      BY <1>7, <2>2 DEF Flush
    <3>2. chan'.work = Moved(chan) /\ chan'.cur = 0 /\ chan'.sent = Append(chan.sent, chan.work)
      BY <3>1
    <3>3. /\ HeardOf(chan') = HeardOf(chan) /\ BsaOf(chan') = BsaOf(chan)
          /\ InProgress(chan') = InProgress(chan)
      BY <1>2, <3>2, MovedHeard
    <3>4. QED  BY <1>4, <2>1, <3>3
  <2>3. CASE ~(chan.work.num > 0)
    <3>1. chan' = [chan EXCEPT !.dirty = FALSE]
      BY <1>7, <2>3 DEF Flush
    <3>2. chan \in Channel
      BY <1>2, ChannelParts
    <3>3. chan'.work = chan.work /\ chan'.cur = chan.cur /\ chan'.sent = chan.sent
      BY <3>1, <3>2 DEF Channel
    <3>4. /\ HeardOf(chan') = HeardOf(chan) /\ BsaOf(chan') = BsaOf(chan)
          /\ InProgress(chan') = InProgress(chan)
      BY <3>3 DEF HeardOf, BsaOf, InProgress
    <3>5. QED  BY <1>4, <2>1, <3>4
  <2>4. QED  BY <2>2, <2>3
<1>8. CASE SinkChange
  <2>1. chan' = chan /\ log' = log
    BY <1>8 DEF SinkChange
  <2>2. QED  BY <1>4, <2>1
<1>9. CASE UNCHANGED vars
  <2>1. chan' = chan /\ log' = log
    BY <1>9 DEF vars
  <2>2. QED  BY <1>4, <2>1
<1>10. QED  BY <1>6, <1>7, <1>8, <1>9 DEF Next

\* process and timeout hand out exactly the averages that were done, each
\* once, in order, under its own BSA and with the right content (but for what
\* stems from memory left uninitialised), whatever the pulses and whichever
\* way the sinks' limits, updates, new BSAs and time-outs cut the buffers.
THEOREM ResultsExact ==
  Spec => []AllAverages
<1>1. ResultsInv => AllAverages
  <2> SUFFICES ASSUME ResultsInv
               PROVE  AllAverages
    OBVIOUS
  <2>1. PICK s, b : Progress(chan, log, s, b)
    BY DEF ResultsInv
  <2> DEFINE h == HeardOf(chan)
  <2>2. /\ Len(h) = Cardinality(DoneIn(log))
        /\ \A n \in DoneIn(log) : RightIn(log, n, h[RankIn(log, n)])
    BY <2>1 DEF Progress, Book
  <2>3. Done = DoneIn(log) /\ \A n : Rank(n) = RankIn(log, n)
    BY DEF Done, DoneIn, Shape, Rank, RankIn
  <2>4. h = Heard(Append(chan.sent, chan.work))
    BY DEF HeardOf
  <2> HIDE DEF h
  <2>5. ASSUME NEW n \in Done
        PROVE  Agrees(h[Rank(n)], n)
    <3> DEFINE x == h[Rank(n)]
    <3>1. RightIn(log, n, x)
      BY <2>2, <2>3
    <3> HIDE DEF x
    <3>2. Agrees(x, n)
      BY <3>1, Closed DEF RightIn, Agrees
    <3>3. QED  BY <3>2 DEF x
  <2>6. Len(h) = Cardinality(Done)
    BY <2>2, <2>3
  <2>7. QED  BY <2>4, <2>5, <2>6 DEF AllAverages
<1>2. QED  BY <1>1, ResultsStart, ResultsStep, PTL DEF Spec

-----------------------------------------------------------------------------
(* The dirty mark.  What is sent only grows, and when the buffer in work   *)
(* holds no result all of them are sent.                                   *)

SentNum(c) == Len(Heard(c.sent))

\* An average done with pulse n is behind an active pulse.
Behind(l, n) == \E k \in n .. Len(l) : l[k].shape.active

Marks(c, l) ==
  ~c.dirty => \A n \in DoneIn(l) : Behind(l, n) => RankIn(l, n) <= SentNum(c)

LEMMA SentMore ==
  ASSUME NEW s \in Seq(Buffer), NEW x \in Buffer
  PROVE  /\ Len(Heard(s)) \in Nat /\ Len(Heard(Append(s, x))) \in Nat
         /\ Len(Heard(s)) <= Len(Heard(Append(s, x)))
<1> DEFINE h == Heard(s)
           e == Entries(s, x)
<1>1. h \in Seq(Told) /\ e \in Seq(Told) /\ Heard(Append(s, x)) = h \o e
  BY HeardAppend, EntriesType
<1> HIDE DEF h, e
<1>2. Len(h) \in Nat /\ Len(e) \in Nat /\ Len(h \o e) = Len(h) + Len(e)
  BY <1>1, ConcatProperties, LenProperties
<1>3. QED  BY <1>1, <1>2 DEF h

LEMMA AllOut ==
  ASSUME NEW n, NEW c, ChannelOK(c, n), c.work.num = 0, NEW l \in Seq(Record),
         Book(l, HeardOf(c))
  PROVE  Marks(c, l)
<1>1. Heard(c.sent) = HeardOf(c)
  BY ChannelParts, EntriesEmpty DEF HeardOf
<1>2. SentNum(c) = Cardinality(DoneIn(l))
  BY <1>1 DEF Book, SentNum
<1>3. QED  BY <1>2, RankRange DEF Marks

\* A call that leaves the mark off found it off, or left nothing to send.
LEMMA ProcessedSent ==
  ASSUME NEW n \in Nat, NEW c, ChannelOK(c, n), NEW pid \in 1 .. n, NEW shape \in Shapes,
         NEW datum \in {Missing} \cup Severities, maxResults \in 1 .. ResultsMax
  PROVE  LET d == Processed(c, pid, shape, datum) IN
         /\ d.dirty \/ d.work.num = 0 \/ (~c.dirty /\ ~shape.active)
         /\ SentNum(c) \in Nat /\ SentNum(d) \in Nat /\ SentNum(c) <= SentNum(d)
<1> DEFINE c1 == IF shape.init THEN Begin(c, pid) ELSE c
           c2 == IF shape.active THEN Average(c1, pid, datum, shape.limit) ELSE c1
           d  == Processed(c, pid, shape, datum)
<1> SUFFICES /\ d.dirty \/ d.work.num = 0 \/ (~c.dirty /\ ~shape.active)
             /\ SentNum(c) \in Nat /\ SentNum(d) \in Nat /\ SentNum(c) <= SentNum(d)
  OBVIOUS
<1>1. pid \in Int /\ shape.limit \in Int
  BY ShapeType
<1>2. /\ ChannelOK(c1, n) /\ c1.dirty = c.dirty
      /\ SentNum(c) \in Nat /\ SentNum(c1) \in Nat /\ SentNum(c) <= SentNum(c1)
  <2>1. /\ c \in Channel /\ InWork(c) /\ c.work \in Buffer /\ c.cur \in Places
        /\ c.sent \in Seq(Buffer)
    BY ChannelParts
  <2>2. SentNum(c) \in Nat
    BY <2>1, SentMore DEF SentNum
  <2>3. CASE shape.init
    <3>1. c1 = Begin(c, pid)
      BY <2>3
    <3>2. PICK w \in Buffer : BeginPost(c, pid, w)
      BY <1>1, <2>1, BeginIs
    <3> DEFINE sent == IF c.work.num > 0 THEN Append(c.sent, Wrapped(c.work, c.cur)) ELSE c.sent
    <3>3. c1.dirty = c.dirty /\ c1.sent = sent
      BY <3>1, <3>2 DEF BeginPost
    <3>4. Len(Heard(sent)) \in Nat /\ Len(Heard(c.sent)) <= Len(Heard(sent))
      <4>1. CASE c.work.num > 0
        <5>1. Wrapped(c.work, c.cur) \in Buffer /\ sent = Append(c.sent, Wrapped(c.work, c.cur))
          BY <2>1, <4>1, WrappedType
        <5> HIDE DEF sent
        <5>2. QED  BY <2>1, <5>1, SentMore
      <4>2. CASE ~(c.work.num > 0)
        <5>1. sent = c.sent
          BY <4>2
        <5> HIDE DEF sent
        <5>2. QED  BY <2>2, <5>1 DEF SentNum
      <4>3. QED  BY <4>1, <4>2
    <3>5. ChannelOK(Begin(c, pid), n)
      BY BeginTypes
    <3> HIDE DEF sent, c1
    <3>6. QED  BY <2>2, <3>1, <3>3, <3>4, <3>5 DEF SentNum
  <2>4. CASE ~shape.init
    <3>1. c1 = c
      BY <2>4
    <3> HIDE DEF c1
    <3>2. QED  BY <2>2, <3>1
  <2>5. QED  BY <2>3, <2>4
<1> HIDE DEF c1
<1>3. /\ ChannelOK(c2, n) /\ SentNum(c2) = SentNum(c1)
      /\ c2.dirty \/ (~c.dirty /\ ~shape.active)
  <2>1. CASE shape.active
    <3>1. c2 = Average(c1, pid, datum, shape.limit)
      BY <2>1
    <3>2. PICK w \in Buffer : AveragePost(c1, pid, datum, shape.limit, w)
      <4>1. c1 \in Channel
        BY <1>2, ChannelParts
      <4>2. QED  BY <1>1, <4>1, AverageIs
    <3>3. c2.dirty /\ c2.sent = c1.sent
      BY <3>1, <3>2 DEF AveragePost
    <3>4. ChannelOK(Average(c1, pid, datum, shape.limit), n)
      BY <1>1, <1>2, AverageTypes
    <3> HIDE DEF c2
    <3>5. QED  BY <3>1, <3>3, <3>4 DEF SentNum
  <2>2. CASE ~shape.active
    <3>1. c2 = c1 /\ c1.dirty \in BOOLEAN
      BY <1>2, <2>2, ChannelFields, ChannelParts
    <3> HIDE DEF c2
    <3>2. QED  BY <1>2, <2>2, <3>1
  <2>3. QED  BY <2>1, <2>2
<1>4. d = IF shape.avgDone \/ shape.update THEN Finish(c2, shape) ELSE c2
  BY DEF Processed, c1
<1> HIDE DEF c2, d
<1>5. SentNum(c) \in Nat /\ SentNum(c2) \in Nat /\ SentNum(c) <= SentNum(c2)
  BY <1>2, <1>3
<1>6. c2.dirty \/ (~c.dirty /\ ~shape.active)
  BY <1>3
<1>7. CASE shape.avgDone \/ shape.update
  <2>1. d = Finish(c2, shape)
    BY <1>4, <1>7
  <2>2. /\ c2 \in Channel /\ InWork(c2) /\ c2.work \in Buffer /\ c2.cur \in Places
        /\ c2.sent \in Seq(Buffer) /\ c2.cur = c2.work.num
    BY <1>3, ChannelParts
  <2>3. PICK num \in 0 .. ResultsMax : num = c2.work.num + (IF shape.avgDone THEN 1 ELSE 0)
    BY <2>2, ResultsAssumption DEF Places
  <2>4. PICK w \in Buffer, o \in Buffer : FinishPost(c2, shape, num, w, o)
    BY <2>2, <2>3, FinishIs
  <2>5. CASE Swaps(num, shape)
    <3>1. d.work.num = 0 /\ d.sent = Append(c2.sent, o)
      BY <2>1, <2>4, <2>5 DEF FinishPost
    <3>2. Len(Heard(d.sent)) \in Nat /\ Len(Heard(c2.sent)) <= Len(Heard(d.sent))
      BY <2>2, <3>1, SentMore
    <3>3. SentNum(d) \in Nat /\ SentNum(c2) <= SentNum(d)
      BY <3>2 DEF SentNum
    <3>4. SentNum(c) <= SentNum(d)
      BY <1>5, <3>3
    <3>5. QED  BY <1>5, <3>1, <3>3, <3>4
  <2>6. CASE ~Swaps(num, shape)
    <3>1. d.dirty = c2.dirty /\ d.sent = c2.sent
      BY <2>1, <2>4, <2>6 DEF FinishPost
    <3>2. SentNum(d) = SentNum(c2)
      BY <3>1 DEF SentNum
    <3>3. QED  BY <1>5, <1>6, <3>1, <3>2
  <2>7. QED  BY <2>5, <2>6
<1>8. CASE ~(shape.avgDone \/ shape.update)
  <2>1. d = c2
    BY <1>4, <1>8
  <2>2. QED  BY <1>5, <1>6, <2>1
<1>9. QED  BY <1>7, <1>8

LEMMA ProcessedMarks ==
  ASSUME NEW n \in Nat, NEW c, ChannelOK(c, n), NEW l \in Seq(Record), Len(l) + 1 \in 1 .. n,
         NEW shape \in Shapes, NEW datum \in {Missing} \cup Severities,
         maxResults \in 1 .. ResultsMax, Marks(c, l),
         Book(Append(l, [shape |-> shape, datum |-> datum]),
              HeardOf(Processed(c, Len(l) + 1, shape, datum)))
  PROVE  Marks(Processed(c, Len(l) + 1, shape, datum),
               Append(l, [shape |-> shape, datum |-> datum]))
<1> DEFINE rec == [shape |-> shape, datum |-> datum]
           l2  == Append(l, rec)
           N   == Len(l)
           p   == N + 1
           d   == Processed(c, p, shape, datum)
<1>1. rec \in Record /\ rec.shape = shape /\ N \in Nat
  BY LenProperties DEF Record
<1> HIDE DEF rec
<1>2. /\ l2 \in Seq(Record) /\ Len(l2) = p /\ l2[p] = rec /\ \A m \in 1 .. N : l2[m] = l[m]
  BY <1>1, LenProperties, AppendProperties
<1>3. ChannelOK(d, n) /\ Book(l2, HeardOf(d))
  <2>1. p \in 1 .. n
    OBVIOUS
  <2>2. QED  BY <2>1, ProcessedTypes DEF rec
<1>4. /\ d.dirty \/ d.work.num = 0 \/ (~c.dirty /\ ~shape.active)
      /\ SentNum(c) \in Nat /\ SentNum(d) \in Nat /\ SentNum(c) <= SentNum(d)
  <2>1. p \in 1 .. n
    OBVIOUS
  <2>2. QED  BY <2>1, ProcessedSent
<1>5. CASE d.dirty
  <2> HIDE DEF d, l2
  <2>1. Marks(d, l2)
    BY <1>5 DEF Marks
  <2>2. QED  BY <2>1 DEF d, l2, rec
<1>6. CASE d.work.num = 0
  <2> HIDE DEF d, l2
  <2>1. Marks(d, l2)
    BY <1>2, <1>3, <1>6, AllOut
  <2>2. QED  BY <2>1 DEF d, l2, rec
<1>7. CASE ~c.dirty /\ ~shape.active
  <2>1. ASSUME NEW m \in DoneIn(l2), Behind(l2, m)
        PROVE  RankIn(l2, m) <= SentNum(d)
    <3>1. PICK k \in m .. p : l2[k].shape.active
      BY <1>2, <2>1 DEF Behind
    <3>2. k # p
      BY <1>1, <1>2, <1>7, <3>1
    <3>3. m \in 1 .. p
      BY <1>2 DEF DoneIn
    <3>4. m \in 1 .. N /\ k \in m .. N /\ k \in 1 .. N
      BY <1>1, <3>1, <3>2, <3>3
    <3>5. m \in DoneIn(l) /\ Behind(l, m)
      BY <1>2, <3>1, <3>4 DEF DoneIn, Behind
    <3>6. RankIn(l2, m) = RankIn(l, m) /\ RankIn(l, m) \in 1 .. Cardinality(DoneIn(l))
          /\ Cardinality(DoneIn(l)) \in Nat
      BY <1>1, <3>5, DoneNext, RankRange
    <3>7. RankIn(l, m) <= SentNum(c)
      BY <1>7, <3>5 DEF Marks
    <3> HIDE DEF d, l2
    <3>8. QED  BY <1>4, <3>6, <3>7
  <2> HIDE DEF d, l2
  <2>2. Marks(d, l2)
    BY <2>1 DEF Marks
  <2>3. QED  BY <2>2 DEF d, l2, rec
<1>8. QED  BY <1>4, <1>5, <1>6, <1>7

\* The next time-out never overlooks a result: when the mark is off, every
\* average done that has an active pulse at its end or after it is sent.
THEOREM ResultsMarked ==
  Spec => []DirtyMarks
<1> DEFINE Inv == ResultsInv /\ Marks(chan, log)
<1>1. Init => Inv
  <2> SUFFICES ASSUME Init
               PROVE  Inv
    OBVIOUS
  <2>1. log = <<>>
    BY DEF Init
  <2>2. DoneIn(log) = {}
    BY <2>1 DEF DoneIn
  <2>3. QED  BY <2>2, ResultsStart DEF Marks
<1>2. Inv /\ [Next]_vars => Inv'
  <2> SUFFICES ASSUME Inv, [Next]_vars
               PROVE  Marks(chan', log')
    BY ResultsStep
  <2>1. ResultsInv /\ ResultsInv' /\ Marks(chan, log)
    BY ResultsStep
  <2>2. /\ ChannelOK(chan, MaxPulse) /\ maxResults \in 1 .. ResultsMax
        /\ log \in Seq(Record) /\ MaxPulse \in Nat /\ Len(log) \in Nat
        /\ ChannelOK(chan', MaxPulse) /\ Book(log', HeardOf(chan')) /\ log' \in Seq(Record)
    <3>1. TypeInv /\ TypeInv' /\ Book(log', HeardOf(chan'))
      BY <2>1 DEF ResultsInv, Progress
    <3>2. QED  BY <3>1, ResultsAssumption, LenProperties DEF TypeInv
  <2>3. ASSUME NEW shape \in Shapes, NEW datum \in {Missing} \cup Severities,
               Len(log) < MaxPulse, process(shape, datum)
        PROVE  Marks(chan', log')
    <3>1. /\ chan' = Processed(chan, Len(log) + 1, shape, datum)
          /\ log' = Append(log, [shape |-> shape, datum |-> datum])
      BY <2>3 DEF process, Processed
    <3>2. Len(log) + 1 \in 1 .. MaxPulse
      BY <2>2, <2>3
    <3>3. QED  BY <2>1, <2>2, <3>1, <3>2, ProcessedMarks
  <2>4. CASE Pulse
    <3>1. PICK shape \in Shapes :
            \/ process(shape, Missing)
            \/ shape.active /\ \E sevr \in Severities : process(shape, sevr)
      BY <2>4 DEF Pulse
    <3>2. Len(log) < MaxPulse
      BY <2>4 DEF Pulse
    <3>3. QED  BY <2>3, <3>1, <3>2
  \* A time-out leaves nothing to send.
  <2>5. CASE Flush
    <3>1. chan'.work.num = 0
      <4>1. CASE chan.work.num > 0
        <5>1. chan' = [work |-> Moved(chan), cur |-> 0, dirty |-> FALSE,
                       sent |-> Append(chan.sent, chan.work)]
          BY <2>5, <4>1 DEF Flush
        <5>2. chan'.work = Moved(chan) /\ Moved(chan).num = 0
          BY <2>2, <5>1, ChannelParts, MovedIs
        <5>3. QED  BY <5>2
      <4>2. CASE ~(chan.work.num > 0)
        <5>1. chan' = [chan EXCEPT !.dirty = FALSE]
          BY <2>5, <4>2 DEF Flush
        <5>2. chan \in Channel /\ chan.work.num \in Nat
          BY <2>2, ChannelParts
        <5>3. chan'.work = chan.work
          BY <5>1, <5>2 DEF Channel
        <5>4. QED  BY <4>2, <5>2, <5>3
      <4>3. QED  BY <4>1, <4>2
    <3>2. QED  BY <2>2, <3>1, AllOut
  <2>6. CASE SinkChange
    BY <2>1, <2>6 DEF SinkChange
  <2>7. CASE UNCHANGED vars
    BY <2>1, <2>7 DEF vars
  <2>8. QED  BY <2>4, <2>5, <2>6, <2>7 DEF Next
<1>3. Inv => DirtyMarks
  <2> SUFFICES ASSUME Marks(chan, log)
               PROVE  DirtyMarks
    OBVIOUS
  <2>1. Done = DoneIn(log) /\ \A n : Rank(n) = RankIn(log, n)
    BY DEF Done, DoneIn, Shape, Rank, RankIn
  <2>2. \A n : Behind(log, n) <=> \E k \in n .. Len(log) : Shape(k).active
    BY DEF Behind, Shape
  <2>3. QED  BY <2>1, <2>2 DEF Marks, DirtyMarks, SentNum
<1>4. QED  BY <1>1, <1>2, <1>3, PTL DEF Spec
=============================================================================
