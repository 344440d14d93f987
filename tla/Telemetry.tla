----------------------------- MODULE Telemetry ------------------------------
(***************************************************************************)
(* What a polled link promises: for each unit the reader knows a state the *)
(* unit had, never forgets it for an older one, and never takes one unit's *)
(* state for another's.  States are numbered as the unit goes through      *)
(* them; 0 is "not heard of yet".  The promise stands until trust is lost. *)
(***************************************************************************)
EXTENDS Naturals

CONSTANT Units
VARIABLES ver, view, trust

Init ==
  /\ ver = [u \in Units |-> 1]
  /\ view = [u \in Units |-> 0]
  /\ trust = 1

Change(u) ==
  /\ ver' = [ver EXCEPT ![u] = @ + 1]
  /\ UNCHANGED <<view, trust>>

Learn(u) ==
  /\ trust = 1
  /\ \E v \in view[u] .. ver[u] : view' = [view EXCEPT ![u] = v]
  /\ UNCHANGED <<ver, trust>>

Distrust ==
  /\ trust' = 0
  /\ UNCHANGED ver

Next == Distrust \/ \E u \in Units : Change(u) \/ Learn(u)

Spec == Init /\ [][Next]_<<ver, view, trust>>
=============================================================================
