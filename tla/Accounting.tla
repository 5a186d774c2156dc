----------------------------- MODULE Accounting -----------------------------
(***************************************************************************)
(* What the channels promise, with no buffer, locks, threads or reference  *)
(* counts: for each edef a channel accounts for the patterns that involve  *)
(* the edef, all of them, in the order of their pulses, each exactly once, *)
(* with a data item or as missed.  It may look at a pattern that does not  *)
(* involve the edef, too: in its turn, at most once, and without data.  A  *)
(* pattern is forgotten only when every channel has accounted for it.      *)
(***************************************************************************)
EXTENDS Integers, Sequences

CONSTANTS Edefs, Channels

VARIABLES
  pats,  \* the patterns that arrived, each with its masks init and act
  head,  \* how many of them are forgotten
  acct   \* acct[ch][e]: what was accounted for: [pat, item]

vars == <<pats, head, acct>>

Init ==
  /\ pats = <<>>
  /\ head = 0
  /\ acct = [ch \in Channels |-> [e \in Edefs |-> <<>>]]

Involved(n) == pats[n].init \cup pats[n].act

\* The last pattern accounted for, the ones to come, and the next of them.
LastDone(ch, e) == IF acct[ch][e] = <<>> THEN 0 ELSE acct[ch][e][Len(acct[ch][e])].pat
Pending(ch, e) == {n \in LastDone(ch, e) + 1 .. Len(pats) : e \in Involved(n)}
Due(ch, e) == CHOOSE n \in Pending(ch, e) : \A m \in Pending(ch, e) : n <= m

\* The patterns before the next one that do not involve the edef.
Strays(ch, e) ==
  {n \in LastDone(ch, e) + 1 .. Len(pats) : \A m \in Pending(ch, e) : n < m}

Arrive ==
  /\ Len(pats') = Len(pats) + 1
  /\ SubSeq(pats', 1, Len(pats)) = pats
  /\ UNCHANGED <<head, acct>>

\* One channel, for one or several edefs, accounts for the next pattern or
\* looks at one before it.
Account(ch) ==
  /\ \A e \in Edefs :
       \/ acct'[ch][e] = acct[ch][e]
       \/ /\ Pending(ch, e) # {}
          /\ \E b \in BOOLEAN :
               acct'[ch][e] = Append(acct[ch][e], [pat |-> Due(ch, e), item |-> b])
       \/ \E n \in Strays(ch, e) :
            acct'[ch][e] = Append(acct[ch][e], [pat |-> n, item |-> FALSE])
  /\ \A c \in Channels \ {ch} : acct'[c] = acct[c]
  /\ UNCHANGED <<pats, head>>

Forget ==
  /\ head < Len(pats)
  /\ \A ch \in Channels : \A e \in Involved(head + 1) : LastDone(ch, e) > head
  /\ head' = head + 1
  /\ UNCHANGED <<pats, acct>>

Next == Arrive \/ (\E ch \in Channels : Account(ch)) \/ Forget

Spec == Init /\ [][Next]_vars

\* Nothing stays pending: however little data arrives, every computation of
\* the channel catches up with the patterns.
CatchesUp(ch) == \A e \in Edefs : []<>(Pending(ch, e) = {})
=============================================================================
