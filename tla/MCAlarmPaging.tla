--------------------------- MODULE MCAlarmPaging ---------------------------
(* Constants of the TLC instances of AlarmPaging.                          *)
EXTENDS AlarmPaging

ZeroRelate == {Empty}
PlainTail == {Blank}
=============================================================================
