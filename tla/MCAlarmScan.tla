---------------------------- MODULE MCAlarmScan -----------------------------
(* The setups of the TLC instances of AlarmScan.                           *)
EXTENDS AlarmScan

(* Two separate buses with and without branch monitoring, and the          *)
(* redundant pair.                                                         *)
SeparateOrPaired ==
  {s \in AllSetups : s.bSPD = 1 /\ (s.mode = "S" \/ (s.mode = "H" /\ s.bQF = 1))}
TwoBuses == {s \in AllSetups : s.mode = "S" /\ s.bQF = 1}
=============================================================================
