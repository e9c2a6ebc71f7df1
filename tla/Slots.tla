-------------------------------- MODULE Slots ---------------------------------
(***************************************************************************)
(* What a timeline promises its node: width units, each of which takes one *)
(* operation at a time.  Operations come in the order of their starts and  *)
(* take length; one may begin whenever fewer than width others go on.      *)
(***************************************************************************)
EXTENDS Naturals, Sequences, FiniteSets

CONSTANT Time

VARIABLES
  width, length,
  starts  \* the starts of the operations so far

GoingOn(at) == {i \in DOMAIN starts : starts[i] + length > at}

Init == starts = <<>>

Begin(at) ==
  /\ \A i \in DOMAIN starts : starts[i] <= at
  /\ Cardinality(GoingOn(at)) < width
  /\ starts' = Append(starts, at)
  /\ UNCHANGED <<width, length>>

Next == \E at \in Time : Begin(at)
Spec == Init /\ [][Next]_<<width, length, starts>>
=============================================================================
