------------------------------- MODULE Gossip --------------------------------
(***************************************************************************)
(* Gossip (lib/phase/gossip.cpp): until the gossip time has passed, every  *)
(* coloured node sends to one node after the other, drawn by the random    *)
(* generator.  begin is Gossip::start_time, which the first InitTask sets  *)
(* for everybody; draw is the node the generator yields.                   *)
(***************************************************************************)
EXTENDS Phase

(* ceil(2 * log2(P)) + k *)
GossipTime(P, k) ==
  k + CHOOSE e \in 0 .. 2 * P : 2 ^ e >= P * P /\ \A f \in 0 .. e - 1 : 2 ^ f < P * P

(* Mutant of GossipOver: one time unit too early. *)
GossipOverEarly(c, begin, at) == at + 1 >= begin + c.gossip

GossipOver(c, begin, at) == at >= begin + c.gossip

(* Mutant of GossipInit: every node gossips, whether it was reached or not. *)
GossipInitAll(c, n, s, at, begin) ==
  IF GossipOver(c, begin, at) THEN Outcome("DONE_PHASE", <<>>, s)
  ELSE Outcome("ONGOING",
               <<TimerRequest("INTERNAL", begin + c.gossip, n), IdleRequest(n)>>, s)

GossipInit(c, n, s, at, begin) ==
  IF GossipOver(c, begin, at) THEN Outcome("DONE_PHASE", <<>>, s)
  ELSE Outcome("ONGOING",
               <<TimerRequest("INTERNAL", begin + c.gossip, n)>>
                 \o (IF s.reached THEN <<IdleRequest(n)>> ELSE <<>>), s)

(* post_sends: the distribution leaves out the node itself. *)
GossipIdle(c, n, s, at, begin, draw) ==
  IF GossipOver(c, begin, at) THEN Outcome("DONE_PHASE", <<>>, s)
  ELSE Outcome("ONGOING", <<SendRequest("GOSSIP", at, n, draw)>>, s)

(* Only nodes coloured by gossip take part in the next phases. *)
GossipTimer(s) == Outcome(IF s.reached THEN "DONE_PHASE" ELSE "DONE_COLL", <<>>, s)

GossipRecvEnd(c, n, s, t, at, begin) ==
  LET r == [s EXCEPT !.reached = TRUE]
  IN IF t.tag # "GOSSIP" THEN Outcome("DONE_COLL", <<>>, s)
     ELSE IF GossipOver(c, begin, at) THEN Outcome("DONE_PHASE", <<>>, r)
     ELSE Outcome("ONGOING", <<IdleRequest(n)>>, r)

GossipDispatch(c, n, s, t, at, begin, draw) ==
  CASE t.type = "Init"    -> GossipInit(c, n, s, at, begin)
    [] t.type = "Idle"    -> GossipIdle(c, n, s, at, begin, draw)
    [] t.type = "Timer"   -> GossipTimer(s)
    [] t.type = "RecvEnd" -> GossipRecvEnd(c, n, s, t, at, begin)
    [] t.type = "SendEnd" -> Outcome("ONGOING", <<IdleRequest(n)>>, s)
    [] OTHER              -> Ongoing(s)
=============================================================================
