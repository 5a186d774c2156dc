------------------------------ MODULE FreeList ------------------------------
(***************************************************************************)
(* The pool that results are allocated from (BsaFreeList.h).  Blocks are   *)
(* numbered in the order in which they were first obtained from the heap.  *)
(* Every operation holds lstMutx_ from beginning to end and is one step of *)
(* its caller.  The pool itself is destroyed when the program ends, or, if *)
(* blocks are still in use then, by whoever frees the last one.            *)
(*                                                                         *)
(* An operator whose name ends in _Fault is the operator after it, with a  *)
(* plausible bug; no specification uses it.                                *)
(***************************************************************************)
EXTENDS Integers, Sequences

CONSTANT MaxBlks \* maxBlks_; unlimited in the library

ASSUME PoolAssumption == MaxBlks \in Nat

Blocks == 1 .. MaxBlks

VARIABLES
  numBlks, \* numBlks_: blocks obtained so far
  lst,     \* the list that starts at lstHead_
  defDest, \* defDest_: the pool is to be deleted with the last free
  gone     \* the pool has been deleted

poolVars == <<numBlks, lst, defDest, gone>>

\* Blocks somebody has obtained and not freed.
Allocated == (1 .. numBlks) \ {lst[i] : i \in DOMAIN lst}

\* alloc() returns b: a block from the list, or a new one.
Alloc(b) ==
  \/ /\ lst # <<>> /\ b = Head(lst)
     /\ lst' = Tail(lst)
     /\ UNCHANGED <<numBlks, defDest, gone>>
  \/ /\ lst = <<>> /\ numBlks < MaxBlks /\ b = numBlks + 1
     /\ numBlks' = b
     /\ UNCHANGED <<lst, defDest, gone>>

Free(b) ==
  /\ lst' = <<b>> \o lst
  /\ gone' = (gone \/ (defDest /\ Len(lst') = numBlks))
  /\ UNCHANGED <<numBlks, defDest>>

Destroy_Fault ==
  /\ gone' = TRUE
  /\ UNCHANGED <<numBlks, lst, defDest>>

\* destroy(): deferred while blocks are in use.
Destroy ==
  /\ IF Len(lst) # numBlks THEN defDest' = TRUE /\ UNCHANGED gone
                           ELSE gone' = TRUE /\ UNCHANGED defDest
  /\ UNCHANGED <<numBlks, lst>>
=============================================================================
