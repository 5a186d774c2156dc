--------------------------- MODULE ChannelResults ---------------------------
(***************************************************************************)
(* How a channel turns accounted patterns into results, for one edef       *)
(* (BsaChannelImpl::process and the second half of timeout, BsaComp).      *)
(*                                                                         *)
(* An average is computed in place, in an element of a result buffer.  A   *)
(* finished buffer goes to the output; the average in progress then moves  *)
(* to a new one.  The channel's mutex is held throughout, so each call is  *)
(* one action; only the sinks change the size limit in between, under      *)
(* another mutex.                                                          *)
(*                                                                         *)
(* Pulses are numbered; the number stands for pulse id and time stamp.     *)
(* Of a datum only the severity is kept, of an average the number of data. *)
(*                                                                         *)
(* An operator whose name ends in _Fault is the operator after it, with a  *)
(* plausible bug; no specification uses it.                                *)
(***************************************************************************)
EXTENDS Integers, Sequences, SequencesExt

CONSTANTS
  ResultsMax, \* BSA_RESULTS_MAX
  Severities, \* of the data
  Invalid,    \* SEVR_INV
  Shapes,     \* what a pattern may tell the edef: [init, active, avgDone, update, limit]
  Garbage,    \* what uninitialised memory may hold: [missed, sevr]
  MaxPulse    \* bound: number of pulses

(***************************************************************************)
(* Any combination of bits is possible, none at all included: evict        *)
(* processes a pattern for lower edefs that it neither initialises nor     *)
(* activates, and an average may be done with no active pulse in it.       *)
(***************************************************************************)
ASSUME ResultsAssumption ==
  /\ ResultsMax \in Nat \ {0}
  /\ Invalid \in Nat
  /\ Severities \subseteq 0 .. Invalid
  /\ Shapes \subseteq [init : BOOLEAN, active : BOOLEAN, avgDone : BOOLEAN,
                       update : BOOLEAN, limit : 1 .. Invalid]
  /\ Garbage \subseteq [missed : Int, sevr : Int]
  /\ MaxPulse \in Nat

VARIABLES
  chan,       \* the slot: [work, cur, dirty, sent], see Init
  maxResults, \* maxResults_
  log         \* history: the pulses processed, each with its datum

vars == <<chan, maxResults, log>>

\* No datum: the pulse was missed.
Missing == -1

Unset == [count |-> -1, missed |-> -1, pid |-> -1, sevr |-> -1, rms |-> "unset"]

\* A new BsaResultItem: the results are not initialised.
NewBuffer ==
  [num |-> 0, isInit |-> FALSE, initTs |-> 0,
   results |-> [k \in 0 .. ResultsMax - 1 |-> Unset]]

\* work: the buffer slot.work_; cur: the element of it where comp_ averages;
\* sent: the buffers pushed to the output.  BsaComp's constructor only
\* clears count.
Init ==
  /\ \E g \in Garbage :
       chan = [work |-> [NewBuffer EXCEPT !.results[0] =
                 [count |-> 0, missed |-> g.missed, pid |-> 0, sevr |-> g.sevr, rms |-> "junk"]],
               cur |-> 0, dirty |-> FALSE, sent |-> <<>>]
  /\ maxResults = ResultsMax
  /\ log = <<>>

-----------------------------------------------------------------------------
(* BsaComp. *)

\* resetAvg, first half: the sum of squares becomes the rms, and the root of
\* what was never a sum of squares is no rms.
WrapUp(r) ==
  IF r.count >= 1
    THEN [r EXCEPT !.rms = CASE @ = "sum"  -> "root"
                             [] @ = "junk" -> "junk"
                             [] OTHER      -> "wrong"]
    ELSE [r EXCEPT !.rms = "nan", !.sevr = Invalid]

\* resetAvg, second half, on the next result.  The pulse id stays.
Restart(r) == [r EXCEPT !.rms = "sum", !.count = 0, !.sevr = 0, !.missed = 0]

miss(r, pid) ==
  [r EXCEPT !.pid = IF r.count = 0 THEN pid ELSE @, !.missed = @ + 1]

addData(r, pid, sevr, limit) ==
  IF sevr >= limit
    THEN [r EXCEPT !.pid = IF r.count = 0 THEN pid ELSE @]
    ELSE [r EXCEPT !.pid = pid, !.count = @ + 1,
                   !.sevr = IF sevr > @ THEN sevr ELSE @]

-----------------------------------------------------------------------------
(* process(edef, pattern, item), in its three parts. *)

\* The buffer in which comp_ wraps up its average.
Wrapped(work, cur) == [work EXCEPT !.results[cur] = WrapUp(@)]

\* INIT: results of the BSA before are sent, its last average is dropped.
Begin(c, pid) ==
  LET old  == Wrapped(c.work, c.cur)
      swap == old.num > 0
      work == IF swap THEN NewBuffer ELSE old
  IN [c EXCEPT
        !.work = [work EXCEPT !.results[0] = Restart(@), !.isInit = TRUE, !.initTs = pid],
        !.cur  = 0,
        !.sent = IF swap THEN Append(@, old) ELSE @]

Average_Fault(c, pid, datum, limit) ==
  IF datum = Missing
    THEN [c EXCEPT !.work.results[c.cur] = miss(@, pid)]
    ELSE [c EXCEPT !.work.results[c.cur] = addData(@, pid, datum, limit), !.dirty = TRUE]

\* ACTIVE: a datum or a miss.
Average(c, pid, datum, limit) ==
  [c EXCEPT
     !.work.results[c.cur] =
        IF datum = Missing THEN miss(@, pid) ELSE addData(@, pid, datum, limit),
     !.dirty = TRUE]

Swaps_Fault(num, shape) ==
  \/ shape.avgDone /\ num > maxResults
  \/ shape.update /\ num > 0

\* Whether the buffer goes out, num being the number of results it then has.
Swaps(num, shape) ==
  \/ shape.avgDone /\ num >= maxResults
  \/ shape.update /\ num > 0

\* AVG_DONE, UPDATE or ALL_DONE.
Finish(c, shape) ==
  LET num  == c.work.num + (IF shape.avgDone THEN 1 ELSE 0)
      old  == [Wrapped(c.work, c.cur) EXCEPT !.num = num]
      swap == Swaps(num, shape)
      work == IF swap THEN NewBuffer ELSE old
  IN [c EXCEPT
        !.work  = [work EXCEPT !.results[work.num] = Restart(@)],
        !.cur   = work.num,
        !.dirty = IF swap THEN FALSE ELSE @,
        !.sent  = IF swap THEN Append(@, old) ELSE @]

process(shape, datum) ==
  LET pid      == Len(log) + 1
      begun    == IF shape.init THEN Begin(chan, pid) ELSE chan
      averaged == IF shape.active THEN Average(begun, pid, datum, shape.limit) ELSE begun
  IN
  /\ chan' = IF shape.avgDone \/ shape.update THEN Finish(averaged, shape) ELSE averaged
  /\ log' = Append(log, [shape |-> shape, datum |-> datum])
  /\ UNCHANGED maxResults

\* An item is only processed for active edefs.
Pulse ==
  /\ Len(log) < MaxPulse
  /\ \E shape \in Shapes :
       \/ process(shape, Missing)
       \/ shape.active /\ \E sevr \in Severities : process(shape, sevr)

Moved_Fault(c) == [NewBuffer EXCEPT !.results[0] = Restart(c.work.results[c.cur])]

\* The average in progress, copied to a new buffer.
Moved(c) == [NewBuffer EXCEPT !.results[0] = c.work.results[c.cur]]

\* The second half of timeout: "push finished results to the output buffer
\* but keep the last ongoing computation".
Flush ==
  /\ chan.dirty
  /\ chan' = IF chan.work.num > 0
               THEN [work |-> Moved(chan), cur |-> 0, dirty |-> FALSE,
                     sent |-> Append(chan.sent, chan.work)]
               ELSE [chan EXCEPT !.dirty = FALSE]
  /\ UNCHANGED <<maxResults, log>>

\* A sink may lower the limit; when the last sink is gone it is the maximum.
SinkChange ==
  /\ maxResults' \in (1 .. maxResults - 1) \cup {ResultsMax}
  /\ UNCHANGED <<chan, log>>

Next == Pulse \/ Flush \/ SinkChange

Spec == Init /\ [][Next]_vars

-----------------------------------------------------------------------------
(* What the results should be, from the history alone. *)

Shape(n) == log[n].shape

\* A pulse ends an average, for good or because the results are called for.
Ends(n) == Shape(n).avgDone \/ Shape(n).update

\* The first pulse of the average to which pulse n belongs.
First(n) ==
  Max({1} \cup {m + 1 : m \in {k \in 1 .. n - 1 : Ends(k)}}
          \cup {m \in 1 .. n : Shape(m).init})

Members(n) == {m \in First(n) .. n : Shape(m).active}
Missed(n)  == {m \in Members(n) : log[m].datum = Missing}
Good(n)    == {m \in Members(n) : m \notin Missed(n) /\ log[m].datum < Shape(m).limit}

\* The average that is done with pulse n, and the BSA it belongs to.  The
\* pulse id is 0 when no pulse was active.
Expected(n) ==
  [bsa    |-> Max({0} \cup {m \in 1 .. n : Shape(m).init}),
   result |->
     [count  |-> Cardinality(Good(n)),
      missed |-> Cardinality(Missed(n)),
      pid    |-> Max({0} \cup (IF Good(n) # {} THEN Good(n) ELSE Members(n))),
      sevr   |-> IF Good(n) # {} THEN Max({log[m].datum : m \in Good(n)}) ELSE Invalid,
      rms    |-> IF Good(n) # {} THEN "root" ELSE "nan"]]

\* The pulses with which an average is done, and the place of each in them.
Done    == {n \in 1 .. Len(log) : Shape(n).avgDone}
Rank(n) == Cardinality({m \in Done : m <= n})

\* The first average of a channel that is created while the edef runs.
Garbled(n) == First(n) = 1 /\ ~Shape(1).init

\* What the sinks hear is the average done with pulse n, but for what comes
\* from memory left uninitialised: the pulse id of an average in which no
\* pulse was active, the missed pulses, severity and rms of a garbled one.
Agrees(heard, n) ==
  LET x == Expected(n) IN
  /\ heard.bsa = x.bsa
  /\ heard.result.count = x.result.count
  /\ Members(n) # {} => heard.result.pid = x.result.pid
  /\ \/ Garbled(n)
     \/ /\ heard.result.missed = x.result.missed
        /\ heard.result.sevr = x.result.sevr
        /\ heard.result.rms = x.result.rms

\* What the sinks learn from a sequence of buffers: OnInit tells the start of
\* a BSA, and all results up to the next OnInit belong to it.
Bsa(buffers, b) ==
  LET I == {a \in 1 .. b : buffers[a].isInit} IN
  IF I = {} THEN 0 ELSE buffers[Max(I)].initTs

Results(buffers, b) ==
  [k \in 1 .. buffers[b].num |->
     [bsa |-> Bsa(buffers, b), result |-> buffers[b].results[k - 1]]]

Heard(buffers) == FlattenSeq([b \in 1 .. Len(buffers) |-> Results(buffers, b)])

-----------------------------------------------------------------------------
(* Properties. *)

\* Type correctness.
TypeOK ==
  /\ chan.work.num \in 0 .. ResultsMax - 1
  /\ chan.work.isInit \in BOOLEAN
  /\ chan.work.initTs \in 0 .. MaxPulse
  /\ DOMAIN chan.work.results = 0 .. ResultsMax - 1
  /\ chan.dirty \in BOOLEAN
  /\ maxResults \in 1 .. ResultsMax
  /\ Len(log) <= MaxPulse

\* process and timeout hand out exactly the averages that were done, each
\* once, in order, under its own BSA and with the right content, whatever the
\* pulses and whichever way the buffers were cut.  Data rejected for their
\* severity count as neither received nor missed.
AllAverages ==
  LET heard == Heard(Append(chan.sent, chan.work)) IN
  /\ Len(heard) = Cardinality(Done)
  /\ \A n \in Done : Agrees(heard[Rank(n)], n)

\* comp_ always averages in the element of work_ after the finished results,
\* inside the array, whatever limit the sinks set, and what it works on is
\* not a result wrapped up already, nor one that was never set.
InPlace ==
  /\ chan.cur = chan.work.num
  /\ chan.cur < ResultsMax
  /\ chan.work.results[chan.cur].rms \in {"sum", "junk"}

\* A time-out looks only at marked slots.  When the mark is off, whatever the
\* pulses, every average with an active pulse at its end or after it has been
\* sent: the next time-out is never blind to it.
DirtyMarks ==
  ~chan.dirty =>
    \A n \in Done :
      (\E k \in n .. Len(log) : Shape(k).active) => Rank(n) <= Len(Heard(chan.sent))
=============================================================================
