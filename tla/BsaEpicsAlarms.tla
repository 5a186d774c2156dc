--------------------------- MODULE BsaEpicsAlarms ---------------------------
(***************************************************************************)
(* BSA_CheckAlarms: status and severity of a value by a record's limits,   *)
(* with hysteresis around the level of the last alarm, lalm.               *)
(*                                                                         *)
(* Values and levels are integers here; only comparisons, a sum and a      *)
(* difference matter.  limits has the levels hihi, lolo, high, low, their  *)
(* severities hhsv, llsv, hsv, lsv (0 is none), hyst, and lalm.            *)
(***************************************************************************)
EXTENDS Integers

Limits ==
  [hihi : Int, lolo : Int, high : Int, low : Int,
   hhsv : Nat, llsv : Nat, hsv : Nat, lsv : Nat, hyst : Nat, lalm : Int]

\* val is at or past a level, or stays near it after an alarm of this level.
Above(val, alev, l) == val >= alev \/ (l.lalm = alev /\ val >= alev - l.hyst)
Below(val, alev, l) == val <= alev \/ (l.lalm = alev /\ val <= alev + l.hyst)

\* The first alarm that is enabled and applies: [level, severity, status].
Hihi(val, l) == l.hhsv # 0 /\ Above(val, l.hihi, l)
Lolo(val, l) == l.llsv # 0 /\ Below(val, l.lolo, l)
High(val, l) == l.hsv  # 0 /\ Above(val, l.high, l)
Low(val, l)  == l.lsv  # 0 /\ Below(val, l.low, l)

Alarm(val, l) == Hihi(val, l) \/ Lolo(val, l) \/ High(val, l) \/ Low(val, l)

First(val, l) ==
  CASE Hihi(val, l) -> [lev |-> l.hihi, sevr |-> l.hhsv, stat |-> "HIHI"]
    [] ~Hihi(val, l) /\ Lolo(val, l) -> [lev |-> l.lolo, sevr |-> l.llsv, stat |-> "LOLO"]
    [] ~Hihi(val, l) /\ ~Lolo(val, l) /\ High(val, l) ->
         [lev |-> l.high, sevr |-> l.hsv, stat |-> "HIGH"]
    [] OTHER -> [lev |-> l.low, sevr |-> l.lsv, stat |-> "LOW"]

\* The alarm is raised if it is more severe than what the caller came with;
\* otherwise all stays as it is, lalm too.  Without an alarm lalm is val.
CheckAlarms(val, l, stat, sevr) ==
  LET f == First(val, l) IN
  IF ~Alarm(val, l)
    THEN [lalm |-> val, stat |-> stat, sevr |-> sevr]
    ELSE IF f.sevr > sevr THEN [lalm |-> f.lev, stat |-> f.stat, sevr |-> f.sevr]
                          ELSE [lalm |-> l.lalm, stat |-> stat, sevr |-> sevr]
=============================================================================
