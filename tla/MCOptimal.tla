------------------------------ MODULE MCOptimal ------------------------------
(* Machines for the construction of the optimal tree. *)
EXTENDS OptimalConstruction

AllMachines == [L : 0 .. 5, o : 0 .. 3, g : 0 .. 4, P : 1 .. 18]

(* A message takes one and a half sends. *)
UnevenMachines == {[L |-> 1, o |-> 1, g |-> 2, P |-> P] : P \in 10 .. 11}
=============================================================================
