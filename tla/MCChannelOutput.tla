-------------------------- MODULE MCChannelOutput --------------------------
(***************************************************************************)
(* Small instances of ChannelOutput for TLC.                               *)
(***************************************************************************)
EXTENDS ChannelOutput

\* Edefs with small numbers, whose bit 1<<e is right.
NarrowMask == [e \in Edefs |-> {e}]
=============================================================================
