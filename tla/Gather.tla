------------------------------- MODULE Gather --------------------------------
(***************************************************************************)
(* Gather (lib/phase/gather.cpp): the traffic goes up the tree.  A node    *)
(* sends to its parent once it has heard from all of its children, counted *)
(* down in toReceive; the counter is negative once it has sent.            *)
(***************************************************************************)
EXTENDS Phase

(* The parent, if any: topology.receivers() after lookup_up().  The code   *)
(* sends to all of them; in the trees of Topology nobody has a second one. *)
Upwards(c, n) ==
  {m \in DOMAIN c.receivers : \E i \in DOMAIN c.receivers[m] : c.receivers[m][i] = n}

(* Mutant of GatherSends: the last child is not waited for. *)
GatherSendsEarly(c, n, s, at) ==
  IF s.toReceive > 1 THEN Ongoing(s)
  ELSE Outcome("DONE_PHASE",
               IF Upwards(c, n) = {} THEN <<>>
               ELSE <<SendRequest("GATHER", at, n, CHOOSE m \in Upwards(c, n) : TRUE)>>,
               [s EXCEPT !.toReceive = -1])

(* post_sends *)
GatherSends(c, n, s, at) ==
  IF s.toReceive > 0 THEN Ongoing(s)
  ELSE Outcome("DONE_PHASE",
               IF Upwards(c, n) = {} THEN <<>>
               ELSE <<SendRequest("GATHER", at, n, CHOOSE m \in Upwards(c, n) : TRUE)>>,
               [s EXCEPT !.toReceive = @ - 1])

(* The assertion of post_sends: a node that has sent is not asked again. *)
GatherFails(s, t) ==
  \/ t.type = "Init" /\ s.reached /\ s.toReceive < 0
  \/ t.type = "RecvEnd" /\ s.toReceive < 1

GatherInit(c, n, s, at) == IF s.reached THEN GatherSends(c, n, s, at) ELSE Ongoing(s)

(* Mutant of GatherRecvEnd: only the start of the phase makes a node send. *)
GatherRecvEndSilent(c, n, s, at) ==
  Ongoing([s EXCEPT !.reached = TRUE, !.toReceive = @ - 1])

GatherRecvEnd(c, n, s, at) ==
  GatherSends(c, n, [s EXCEPT !.reached = TRUE, !.toReceive = @ - 1], at)

GatherDispatch(c, n, s, t, at) ==
  CASE t.type = "Init"    -> GatherInit(c, n, s, at)
    [] t.type = "RecvEnd" -> GatherRecvEnd(c, n, s, at)
    [] OTHER              -> Ongoing(s)
=============================================================================
