----------------------------- MODULE MCBsaCore -----------------------------
(***************************************************************************)
(* Small instances of BsaCore for TLC.                                     *)
(***************************************************************************)
EXTENDS BsaCore

\* Edefs with small numbers, whose bit 1<<e is right ...
NarrowMask == [e \in Edefs |-> {e}]
\* ... and the mask on builds where 1<<32 is 1<<0.
WideMask == [e \in Edefs |-> IF e < 31 THEN {e} ELSE {e - 32} \cap Edefs]

\* Start of an acquisition while another one goes on; only the other one.
TwoEdefs == {[init |-> {0}, act |-> {0, 1}], [init |-> {}, act |-> {1}]}
ActiveOnly == {[init |-> {}, act |-> {0}]}
\* Nothing active; init only; either of two edefs.
Mixed == {[init |-> {}, act |-> {}], [init |-> {0}, act |-> {}],
          [init |-> {}, act |-> {1}], [init |-> {}, act |-> {0, 1}]}
WithWide == {[init |-> {}, act |-> {0}], [init |-> {}, act |-> {32}]}
=============================================================================
