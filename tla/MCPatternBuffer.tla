-------------------------- MODULE MCPatternBuffer --------------------------
(***************************************************************************)
(* A small instance of PatternBuffer for TLC.                              *)
(***************************************************************************)
EXTENDS PatternBuffer

NarrowMask == [e \in Edefs |-> {e}]

\* One edef in every pattern that is stored, the other in some; an edef that
\* is only initialised; a pattern that is not stored.
Masks == {[init |-> {0}, act |-> {}], [init |-> {1}, act |-> {0}],
          [init |-> {}, act |-> {}]}
=============================================================================
