----------------------------- MODULE MCSubLink ------------------------------
(* Constants of the TLC instance of SubLink.                               *)
EXTENDS SubLink

(* Two buses half fitted, one bus, and no branches.                        *)
ThreeSetups ==
  {[bQF |-> 1, mode |-> "S", n0 |-> 2, n1 |-> 1, used |-> 1],
   [bQF |-> 1, mode |-> "Y", n0 |-> 3, n1 |-> 0, used |-> 0],
   [bQF |-> 0, mode |-> "Y", n0 |-> 3, n1 |-> 0, used |-> 0]}
=============================================================================
