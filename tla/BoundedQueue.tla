---------------------------- MODULE BoundedQueue ----------------------------
(***************************************************************************)
(* What the synchronised ring buffer promises: a bounded first-in first-   *)
(* out queue whose consumer never touches the last MinFill elements.  The  *)
(* consumer looks at the front element (Begin) and works on it while it is *)
(* still in the queue, then removes it.                                    *)
(***************************************************************************)
EXTENDS Integers, Sequences

CONSTANTS Capacity, MinFill

VARIABLES
  queue,  \* the elements, oldest first
  pushed, \* number of elements stored so far
  busy,   \* the consumer works on the front element
  done    \* the elements processed

Init == queue = <<>> /\ pushed = 0 /\ busy = FALSE /\ done = <<>>

Put ==
  /\ Len(queue) < Capacity
  /\ pushed' = pushed + 1
  /\ queue' = Append(queue, pushed')
  /\ UNCHANGED <<busy, done>>

Begin ==
  /\ ~busy
  /\ Len(queue) > MinFill
  /\ busy' = TRUE
  /\ UNCHANGED <<queue, pushed, done>>

Work ==
  /\ busy
  /\ Len(done) = pushed - Len(queue)
  /\ done' = Append(done, Head(queue))
  /\ UNCHANGED <<queue, pushed, busy>>

Remove ==
  /\ busy
  /\ Len(done) = pushed - Len(queue) + 1
  /\ queue' = Tail(queue)
  /\ busy' = FALSE
  /\ UNCHANGED <<pushed, done>>

Next == Put \/ Begin \/ Work \/ Remove

Spec == Init /\ [][Next]_<<queue, pushed, busy, done>>
=============================================================================
