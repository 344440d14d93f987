----------------------------- MODULE MCAlarmLog -----------------------------
(* Constants of the TLC instances of AlarmLog.                             *)
EXTENDS AlarmLog

(* An FRAM that left the factory zeroed.                                   *)
ZeroRelate == {Empty}

(* Zeros behind the ring, too: a record of AUa to the search that starts   *)
(* there.                                                                  *)
PlainTail == {Blank}
=============================================================================
