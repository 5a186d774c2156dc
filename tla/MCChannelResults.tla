-------------------------- MODULE MCChannelResults --------------------------
(***************************************************************************)
(* A small instance of ChannelResults for TLC.                             *)
(***************************************************************************)
EXTENDS ChannelResults

shape(flags, limit) ==
  [init |-> "init" \in flags, active |-> "active" \in flags,
   avgDone |-> "avgDone" \in flags, update |-> "update" \in flags, limit |-> limit]

\* An INIT with or without data; a pulse inside and at the end of an average;
\* the same with an UPDATE; an average done, or an UPDATE, where the edef is
\* not active.  Some reject the worse of two severities.
Flags == {shape({"init"}, 2), shape({"init", "active"}, 1),
          shape({"active"}, 2), shape({"active", "avgDone"}, 1),
          shape({"active", "update"}, 2), shape({"active", "avgDone", "update"}, 2),
          shape({"avgDone"}, 2), shape({"update"}, 2),
          shape({"avgDone", "update"}, 2)}

Memory == {[missed |-> 0, sevr |-> 0], [missed |-> 9, sevr |-> 1]}
=============================================================================
