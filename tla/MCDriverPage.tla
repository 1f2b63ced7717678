---------------------------- MODULE MCDriverPage ----------------------------
(* Values of the constants for the run of DriverPage. *)
EXTENDS DriverPage, TLC

TwoOrders == 1..2

(* Nothing tells one handler of the page from another. *)
ClicksAlike == Permutations(Clicks)
=============================================================================
