---------------------------- MODULE PhaseProofs ------------------------------
(***************************************************************************)
(* Phases that last for a given time, Exclusive and Gossip: proofs that no *)
(* node goes on before their time has passed.  Then the tree: proofs whom  *)
(* it reaches, and facts about the nodes below a node.  Last, the multiple *)
(* trees: a proof that they bear fewer failures than there are trees.      *)
(***************************************************************************)
EXTENDS DeliveryProofs

-----------------------------------------------------------------------------
(* The step of a node that is notified, in parts. *)

(* It stays as it is, but may be reached, and at most finishes. *)
Steady(n, t, asked) ==
  /\ local'[n].cur = local[n].cur
  /\ local'[n].left = local[n].left /\ local'[n].right = local[n].right
  /\ local'[n].sentLeft = local[n].sentLeft /\ local'[n].sentRight = local[n].sentRight
  /\ local'[n].reached <=> local[n].reached \/ t.type = "RecvEnd"
  /\ \A r \in asked : r.type = "Finish"

(* Its phase answers, and the combiner may move it to another phase. *)
Moves(n, t, at, asked, inner) ==
  /\ local[n].cur \in 1 .. Last /\ Proper(n, local[n], t, at, inner)
  /\ local'[n].cur = NextPhase(local[n].cur, inner.res)
  /\ local'[n].left = inner.s.left /\ local'[n].right = inner.s.right
  /\ local'[n].sentLeft = inner.s.sentLeft /\ local'[n].sentRight = inner.s.sentRight
  /\ local'[n].reached <=> t.type = "RecvEnd" \/ inner.s.reached
  /\ RangeOf(inner.reqs) \subseteq asked
  /\ local[n].cur < local'[n].cur /\ local'[n].cur <= Last => InitRequest(at, n) \in asked
  /\ \A r \in asked : \/ r \in RangeOf(inner.reqs)
                      \/ /\ r = InitRequest(at, n)
                         /\ local[n].cur < local'[n].cur /\ local'[n].cur <= Last
                      \/ r.type = "Finish"

(* Node n hears of t at the time at, and asks for tasks. *)
Hears(n, t, at, asked) ==
  /\ at = Clock(t) /\ now' = at /\ n = NotifiedNode(t) /\ n \in Live /\ Heap(t, asked)
  /\ \A r \in asked : r.sender = n
  /\ \A m \in Node : m # n => local'[m] = local[m]
  /\ start' = IF Starts(n, t) THEN StartTime(at) ELSE start

LEMMA AnswerParts ==
  ASSUME TypeOK, LocalOK, conf' = conf, NEW t \in Upcoming, NEW n, NEW out, AnswerOf(t, n, out),
         NEW draw \in Draws(n, t), RootBegins(n, t), out = CombinerDispatch(n, t, Clock(t), draw)
  PROVE  \E at \in Nat : \E asked :
           /\ Hears(n, t, at, asked)
           /\ \/ Steady(n, t, asked)
              \/ \E inner : /\ inner = PhaseDispatch(conf.phases[local[n].cur], n, local[n], t, at, draw)
                            /\ Moves(n, t, at, asked, inner)
<1>1. n \in Live /\ n \in Node /\ local' = [local EXCEPT ![n] = out.s] /\ local'[n] = out.s
  <2>1. n \in Live /\ n \in Node /\ local' = [local EXCEPT ![n] = out.s]
    BY DEF AnswerOf, Live
  <2> QED BY <2>1 DEF LocalOK
<1>2. /\ t \in Task /\ draw \in Node /\ Last \in Nat \ {0} /\ local[n] \in State
      /\ n = NotifiedNode(t)
  BY <1>1, UpcomingType, PhasesType DEF Draws, LocalOK, AnswerOf
<1>3. PICK at \in Nat : at = Clock(t)
  BY UpcomingType
<1>4. PICK asked : asked = RangeOf(Accept(n, out))
  OBVIOUS
<1>5. Hears(n, t, at, asked)
  <2>1. Heap(t, asked) /\ \A r \in asked : r.sender = n
    BY <1>4 DEF AnswerOf
  <2>2. now' = at
    BY <1>3, <2>1 DEF Heap, Pop
  <2>3. \A m \in Node : m # n => local'[m] = local[m]
    BY <1>1 DEF LocalOK
  <2>4. start' = IF Starts(n, t) THEN StartTime(at) ELSE start
    BY <1>3 DEF AnswerOf, Follow
  <2> QED BY <1>1, <1>2, <1>3, <2>1, <2>2, <2>3, <2>4 DEF Hears
<1>6. CASE t.type = "Finish" /\ out = Nothing(n, "ONGOING")
  <2>1. out.s = local[n]
    BY <1>6 DEF Nothing
  <2>2. asked = {}
    BY <1>1, <1>2, <1>3, <1>4, <1>6, Asked
  <2>3. Steady(n, t, asked)
    BY <1>1, <1>6, <2>1, <2>2 DEF Steady
  <2> QED BY <1>5, <2>3
<1>7. CASE t.type # "Finish" /\ local[n].cur > Last /\ out = Colour(t, Nothing(n, "DONE_PHASE"))
  <2>1. \A r \in asked : r.type = "Finish"
    <3>1. asked = IF Finishing(n, out) THEN {FinishRequest(n)} ELSE {}
      BY <1>1, <1>2, <1>3, <1>4, <1>7, Asked
    <3> QED BY <3>1 DEF FinishRequest
  <2>2. PICK s : s = [local[n] EXCEPT !.reached = TRUE]
    OBVIOUS
  <2>3. /\ s.cur = local[n].cur /\ s.left = local[n].left /\ s.right = local[n].right /\ s.reached
        /\ s.sentLeft = local[n].sentLeft /\ s.sentRight = local[n].sentRight
    BY <1>2, <2>2 DEF State
  <2>4. out.s = IF t.type = "RecvEnd" THEN s ELSE local[n]
    <3>0. /\ Nothing(n, "DONE_PHASE").s = local[n]
          /\ DOMAIN Nothing(n, "DONE_PHASE") = {"res", "reqs", "s", "again"}
      BY DEF Nothing
    <3>1. PICK nothing : /\ nothing = Nothing(n, "DONE_PHASE") /\ nothing.s = local[n]
                         /\ DOMAIN nothing = {"res", "reqs", "s", "again"}
      BY <3>0
    <3>2. out = IF t.type = "RecvEnd" THEN [nothing EXCEPT !.s = s] ELSE nothing
      BY <1>7, <2>2, <3>1 DEF Colour
    <3> QED BY <3>1, <3>2
  <2>5. Steady(n, t, asked)
    BY <1>1, <2>1, <2>3, <2>4 DEF Steady
  <2> QED BY <1>5, <2>5
<1>8. ASSUME NEW inner, local[n].cur \in 1 .. Last,
             inner = PhaseDispatch(conf.phases[local[n].cur], n, local[n], t, at, draw),
             Proper(n, local[n], t, at, inner), out = Colour(t, Switch(n, t, at, inner))
      PROVE  Moves(n, t, at, asked, inner)
  <2>1. inner.s \in State
    BY <1>8 DEF Proper
  <2>2. /\ out.s.cur = NextPhase(local[n].cur, inner.res)
        /\ out.res = IF out.s.cur <= Last THEN "ONGOING" ELSE inner.res
        /\ out.s.left = inner.s.left /\ out.s.right = inner.s.right /\ out.s.nowLeft = inner.s.nowLeft
        /\ out.s.sentLeft = inner.s.sentLeft /\ out.s.sentRight = inner.s.sentRight
        /\ out.s.toReceive = inner.s.toReceive
        /\ out.s.reached <=> t.type = "RecvEnd" \/ inner.s.reached
    <3>1. n \in Node /\ out = Colour(t, Switch(n, t, at, inner))
      BY <1>1, <1>8
    <3> QED BY <2>1, <3>1, SwitchState
  <2>3. asked = RangeOf(inner.reqs)
                  \cup (IF local[n].cur < out.s.cur /\ out.s.cur <= Last THEN {InitRequest(at, n)} ELSE {})
                  \cup (IF Finishing(n, out) THEN {FinishRequest(n)} ELSE {})
    <3>1. local[n].cur <= Last
      BY <1>2, <1>8
    <3> QED BY <1>1, <1>2, <1>4, <1>8, <3>1, Asked
  <2>4. FinishRequest(n).type = "Finish"
    BY DEF FinishRequest
  <2> QED BY <1>1, <1>8, <2>2, <2>3, <2>4 DEF Moves
<1>9. \/ t.type = "Finish" /\ out = Nothing(n, "ONGOING")
      \/ t.type # "Finish" /\ local[n].cur > Last /\ out = Colour(t, Nothing(n, "DONE_PHASE"))
      \/ \E inner : /\ local[n].cur \in 1 .. Last
                    /\ inner = PhaseDispatch(conf.phases[local[n].cur], n, local[n], t, at, draw)
                    /\ Proper(n, local[n], t, at, inner) /\ out = Colour(t, Switch(n, t, at, inner))
  BY <1>1, <1>2, <1>3, CombinerCases
<1> QED BY <1>5, <1>6, <1>7, <1>8, <1>9
-----------------------------------------------------------------------------
LEMMA AnswerAsks ==
  ASSUME NEW n, NEW t, NEW at, NEW asked, Steady(n, t, asked) \/ \E inner : Moves(n, t, at, asked, inner)
  PROVE  \A r \in asked : r.type \in {"SendStart", "Timer", "Init", "Idle", "Finish"}
<1>1. ASSUME NEW inner, Moves(n, t, at, asked, inner), NEW r \in asked
      PROVE  r.type \in {"SendStart", "Timer", "Init", "Idle", "Finish"}
  <2>1. \A q \in RangeOf(inner.reqs) : q \in Wish(n, at)
    <3>1. inner.reqs \in Seq(Wish(n, at))
      BY <1>1 DEF Moves, Proper
    <3> HIDE DEF Wish
    <3> QED BY <3>1 DEF RangeOf
  <2> QED BY <1>1, <2>1 DEF Moves, Wish, Demand, InitRequest
<1> QED BY <1>1 DEF Steady

-----------------------------------------------------------------------------
(* Where messages arrive: a node is headed for if a message travels to it, *)
(* or has reached it, or was lost because the node has failed.             *)
Toward(x) ==
  x \in conf.failed \/ x \in Reached \/ \E u \in queue : u.type \in MessageTypes /\ u.receiver = x
Headed == {x \in Node : Toward(x)}

(* What is headed for stays so, until it is reached or has failed. *)
LEMMA HeadedStays ==
  ASSUME TypeOK, Senders, conf' = conf, NEW t \in Upcoming, NEW asked, Heap(t, asked),
         Reached \subseteq Reached', t.type = "RecvEnd" => t.receiver \in Reached'
  PROVE  Headed \subseteq Headed'
<1>1. SUFFICES ASSUME NEW x \in Headed PROVE x \in Headed'
  OBVIOUS
<1>2. Node' = Node /\ x \in Node
  BY DEF Node, Headed
<1>3. CASE x \in conf.failed \/ x \in Reached
  BY <1>2, <1>3 DEF Headed, Toward
<1>4. ASSUME NEW u \in queue, u.type \in MessageTypes, u.receiver = x
      PROVE  Toward(x)'
  <2>1. CASE Image(u) \in Wire'
    <3>1. PICK v \in queue' : v.type \in MessageTypes /\ Image(u) = Image(v)
      BY <2>1, WireWillBe
    <3>2. v.receiver = x
      BY <1>4, <3>1 DEF Image
    <3> QED BY <3>1, <3>2 DEF Toward
  <2>2. CASE Image(u) \notin Wire'
    <3>1. PICK y \in Wire : y = Image(u) /\ y \notin Wire'
      BY <1>4, <2>2, WireIs
    <3>2. y = Image(t) /\ (t.type = "RecvEnd" \/ (t.type = "Msg" /\ t.receiver \in conf.failed))
      BY <3>1, StaysOnWire
    <3>3. t.receiver = x
      BY <1>4, <3>1, <3>2 DEF Image
    <3> QED BY <3>2, <3>3 DEF Toward
  <2> QED BY <2>1, <2>2
<1> QED BY <1>2, <1>3, <1>4 DEF Headed, Toward

LEMMA TargetsHeaded ==
  ASSUME TypeOK, conf' = conf, NEW t, NEW asked, Heap(t, asked), NEW n \in Live,
         \A r \in asked : r.sender = n, NEW r \in asked, r.type = "SendStart", r.receiver \in Node
  PROVE  r.receiver \in Headed'
<1>1. n \notin conf.failed
  BY DEF Live
<1>2. PICK u \in queue' : SameTask(u, r)
  BY <1>1 DEF Heap
<1>3. u.type \in MessageTypes /\ u.receiver = r.receiver
  BY <1>2 DEF SameTask, MessageTypes
<1>4. Node' = Node
  BY DEF Node
<1> QED BY <1>3, <1>4 DEF Headed, Toward

(* Whom the requests are for. *)
Targets(reqs) == {r.receiver : r \in {q \in RangeOf(reqs) : q.type = "SendStart"}}

-----------------------------------------------------------------------------
(* Who is done is through all phases. *)
DoneOver == \A n \in done : local[n].cur > Last

LEMMA DoneAfter ==
  ASSUME TypeOK, LocalOK, NEW n \in Node, NEW t \in Task, NEW at \in Nat, NEW draw \in Node, RootBegins(n, t),
         NEW out, out = CombinerDispatch(n, t, at, draw), Finishing(n, out)
  PROVE  out.s.cur > Last
<1>1. out.res \in {"DONE_PHASE", "DONE_COLL"}
  BY DEF Finishing
<1>2. CASE t.type = "Finish" /\ out = Nothing(n, "ONGOING")
  BY <1>1, <1>2 DEF Nothing
<1>3. CASE local[n].cur > Last /\ out = Colour(t, Nothing(n, "DONE_PHASE"))
  <2>1. local[n] \in State
    BY DEF LocalOK
  <2>2. out.s.cur = local[n].cur
    BY <1>3, <2>1 DEF Colour, Nothing, State
  <2> QED BY <1>3, <2>2
<1>4. ASSUME NEW inner, Proper(n, local[n], t, at, inner), out = Colour(t, Switch(n, t, at, inner)),
             local[n].cur \in 1 .. Last
      PROVE  out.s.cur > Last
  <2>1. inner.s \in State
    BY <1>4 DEF Proper
  <2>2. /\ out.s.cur = NextPhase(local[n].cur, inner.res)
        /\ out.res = IF out.s.cur <= Last THEN "ONGOING" ELSE inner.res
    BY <1>4, <2>1, SwitchState
  <2>3. out.s.cur \in Nat /\ Last \in Nat
    BY <1>4, <2>2, PhasesType DEF NextPhase
  <2> QED BY <1>1, <2>2, <2>3
<1> QED BY <1>2, <1>3, <1>4, CombinerCases

LEMMA StepDone ==
  ASSUME TypeOK, LocalOK, LocalOK', conf' = conf, DoneOver, NEW t \in Upcoming, NEW n \in Node, NEW out, AnswerOf(t, n, out),
         NEW draw \in Node, RootBegins(n, t), out = CombinerDispatch(n, t, Clock(t), draw)
  PROVE  DoneOver' /\ \A m \in Node : local'[m].cur \in Nat /\ local[m].cur \in Nat /\ local'[m].cur >= local[m].cur
<1>1. /\ local' = [local EXCEPT ![n] = out.s] /\ done' = IF Finishing(n, out) THEN done \cup {n} ELSE done
      /\ out.s.cur \in local[n].cur .. Last + 1
  BY DEF AnswerOf, Follow, Combined
<1>2. /\ Last' = Last /\ Last \in Nat /\ Node' = Node /\ done \subseteq Node /\ t \in Task /\ Clock(t) \in Nat
      /\ local \in [Node -> State] /\ \A m \in Node : local[m].cur \in Nat
  BY PhasesType, UpcomingType DEF Last, Node, LocalOK, State
<1>3. \A m \in Node : local'[m] = IF m = n THEN out.s ELSE local[m]
  BY <1>1, <1>2
<1>4. \A m \in Node : local'[m].cur \in Nat /\ local[m].cur \in Nat /\ local'[m].cur >= local[m].cur
  <2>1. out.s.cur \in Nat /\ out.s.cur >= local[n].cur
    BY <1>1, <1>2
  <2> QED BY <1>2, <1>3, <2>1
<1>5. Finishing(n, out) => out.s.cur > Last
  BY <1>2, DoneAfter
<1>6. ASSUME NEW m \in done'
      PROVE  local'[m].cur > Last
  <2>1. CASE m \in done
    <3>1. local[m].cur > Last /\ m \in Node
      BY <1>2, <2>1 DEF DoneOver
    <3> QED BY <1>2, <1>4, <3>1
  <2>2. CASE m \notin done
    BY <1>1, <1>3, <1>5, <1>6, <2>2
  <2> QED BY <2>1, <2>2
<1> QED BY <1>2, <1>4, <1>6 DEF DoneOver

-----------------------------------------------------------------------------
(* The clock. *)

(* While the loop runs the largest time has not come. *)
InTime == status = "running" => now < TimeMax

LEMMA ClockGoesOn ==
  ASSUME TypeOK, NoTimewarp, InTime, [OpenNext]_qvars
  PROVE  now \in Nat /\ now' \in Nat /\ now' >= now /\ InTime'
<1>1. now \in Nat /\ conf.limit \in Nat /\ conf.limit <= TimeMax /\ TimeMax \in Nat
  BY LimitAssumption, BoundsAssumption, ConfigurationsAssumption DEF TypeOK, IsConfiguration
<1>2. ASSUME NEW t, Pop(t)
      PROVE  now' \in Nat /\ now' >= now /\ conf' = conf
  BY <1>2, PopClock
<1>3. ASSUME NEW t, NEW own, NEW reqs, NEW again, Pop(t), Schedule(t, own, reqs, again)
      PROVE  InTime'
  <2>1. now' \in Nat
    BY <1>2, <1>3
  <2>2. status' = "running" => ~ (now' >= conf.limit)
    BY <1>3 DEF Schedule
  <2> QED BY <1>1, <2>1, <2>2 DEF InTime
<1>4. ASSUME NEW t \in Ready, Silent(t)
      PROVE  now' \in Nat /\ now' >= now /\ InTime'
  <2>1. CASE ThrowFinish(t)
    BY <1>2, <2>1 DEF ThrowFinish, InTime
  <2>2. CASE Passes(t)
    <3>1. PICK reqs, again : reqs = <<>> /\ again = {}
      OBVIOUS
    <3>2. Pop(t) /\ \E own, kept : Schedule(t, own, reqs, kept)
      <4>1. t \in Task
        BY ReadyType
      <4> QED BY <2>2, <3>1, <4>1, StepSchedules
    <3> QED BY <1>2, <1>3, <3>2
  <2> QED BY <1>4, <2>1, <2>2 DEF Silent, Passes
<1>5. ASSUME NEW t \in Ready, NEW how \in {"thrown", "asserted"}, Leave(t, how)
      PROVE  now' \in Nat /\ now' >= now /\ InTime'
  BY <1>2, <1>5 DEF Leave, InTime
<1>6. ASSUME NEW t \in Ready, NEW reqs \in Asks(t), React(t, reqs)
      PROVE  now' \in Nat /\ now' >= now /\ InTime'
  <2>1. PICK again : Served(t, reqs, again)
    BY <1>6 DEF React, Served
  <2>2. Pop(t) /\ \E own, kept : Schedule(t, own, reqs, kept)
    <3>1. t \in Task
      BY ReadyType
    <3> QED BY <2>1, <3>1, StepSchedules
  <2> QED BY <1>2, <1>3, <2>2
<1>7. CASE EmptyPop
  BY <1>1, <1>7 DEF EmptyPop, InTime
<1>8. CASE Stopped \/ UNCHANGED qvars
  BY <1>1, <1>8 DEF Stopped, InTime, qvars
<1> QED BY <1>1, <1>4, <1>5, <1>6, <1>7, <1>8 DEF OpenNext

-----------------------------------------------------------------------------
(* What the phases that may come before the end of a window ask for.       *)

(* The phases that wait for a time, and for how long. *)
Timed(ph) == ph.exclusive \/ ph.kind = "Gossip"
Period(ph) == IF ph.exclusive THEN conf.deadline ELSE conf.gossip

(* A tree sends along the tree, and never to the root; timers are set for  *)
(* the end of the window.                                                  *)
EarlyAsks(ph, t, at, r) ==
  /\ r.type \in {"SendStart", "Timer", "Idle"}
  /\ r.type = "SendStart" => /\ r.time = at
                             /\ \/ /\ ph.kind = "Tree" /\ r.tag = "TREE"
                                   /\ r.receiver # 0 /\ r.receiver \in ChildrenOf(r.sender)
                                \/ ph.kind = "Gossip" /\ r.tag = "GOSSIP"
  /\ r.type = "Timer" => Timed(ph) /\ t.type = "Init" /\ r.time = StartTime(at) + Period(ph)

LEMMA PostSendsAsk ==
  ASSUME NEW n, NEW at, NEW r \in RangeOf(PostSends(conf, n, at))
  PROVE  r.type = "SendStart" /\ r.tag = "TREE" /\ r.time = at /\ r.sender = n
         /\ \E i \in DOMAIN conf.receivers[n] : r.receiver = conf.receivers[n][i]
<1>1. PICK sends : sends = PostSends(conf, n, at)
  OBVIOUS
<1>2. sends = [i \in DOMAIN conf.receivers[n] |-> SendRequest("TREE", at, n, conf.receivers[n][i])]
  BY <1>1 DEF PostSends
<1>3. PICK i \in DOMAIN sends : r = sends[i]
  BY <1>1 DEF RangeOf
<1>4. i \in DOMAIN conf.receivers[n] /\ r = SendRequest("TREE", at, n, conf.receivers[n][i])
  BY <1>2, <1>3
<1> QED BY <1>4 DEF SendRequest

(* One request before the others. *)
LEMMA FirstRange ==
  ASSUME NEW S, NEW a \in Seq(S), NEW x
  PROVE  RangeOf(<<x>> \o a) = {x} \cup RangeOf(a)
<1>1. PICK T, b : T = S \cup {x} /\ b = <<x>> /\ b \in Seq(T) /\ a \in Seq(T)
  <2>1. PICK T : T = S \cup {x}
    OBVIOUS
  <2>2. <<x>> \in Seq(T) /\ a \in Seq(T)
    BY <2>1
  <2> QED BY <2>1, <2>2
<1>2. PICK c \in Seq(T), d \in Seq(T) : c = b /\ d = a
  BY <1>1
<1>3. RangeOf(c \o d) = RangeOf(c) \cup RangeOf(d)
  BY ConcatRange
<1>4. RangeOf(c) = {x}
  BY <1>1, <1>2, FewRange
<1> QED BY <1>1, <1>2, <1>3, <1>4

LEMMA TreeAsks ==
  ASSUME TypeOK, NEW ph, ph.kind = "Tree", NEW n \in Node, NEW s, NEW t, NEW at,
         NEW out, out = TreeDispatch(conf, ph, n, s, t, at)
  PROVE  /\ \A r \in RangeOf(out.reqs) : EarlyAsks(ph, t, at, r)
         /\ out.res = "DONE_COLL" => t.type = "RecvEnd" /\ t.tag # "TREE"
<1>1. \/ out.reqs = PostSends(conf, n, at) \/ out.reqs = <<>>
  BY DEF TreeDispatch, TreeInit, TreeRecvEnd, Ongoing, Outcome
<1>4. \A i \in DOMAIN conf.receivers[n] : conf.receivers[n][i] # 0
  BY CollectiveType DEF IsCollective, Node
<1>2. \A r \in RangeOf(out.reqs) : EarlyAsks(ph, t, at, r)
  BY <1>1, <1>4, PostSendsAsk, FewRange DEF EarlyAsks, ChildrenOf
<1>3. out.res = "DONE_COLL" => t.type = "RecvEnd" /\ t.tag # "TREE"
  BY DEF TreeDispatch, TreeInit, TreeRecvEnd, Ongoing, Outcome
<1> QED BY <1>2, <1>3

LEMMA GossipAsks ==
  ASSUME TypeOK, start \in Nat, NEW ph, ph.kind = "Gossip", ~ ph.exclusive, NEW n, NEW s, NEW t,
         NEW at \in Nat, NEW draw, NEW out,
         out = GossipDispatch(conf, n, s, t, at, StartTime(at), draw)
  PROVE  /\ \A r \in RangeOf(out.reqs) : EarlyAsks(ph, t, at, r)
         /\ out.res \in {"ONGOING", "DONE_PHASE", "DONE_COLL"}
         /\ out.res = "DONE_PHASE" => t.type = "Timer" \/ at >= StartTime(at) + conf.gossip
<1>1. PICK begin : begin = StartTime(at) /\ out = GossipDispatch(conf, n, s, t, at, begin, draw)
  OBVIOUS
<1>2. /\ out.res \in {"ONGOING", "DONE_PHASE", "DONE_COLL"}
      /\ out.res = "DONE_PHASE" => t.type = "Timer" \/ at >= begin + conf.gossip
  BY <1>1 DEF GossipDispatch, GossipInit, GossipIdle, GossipTimer, GossipRecvEnd, GossipOver, Ongoing,
              Outcome
<1>3. PICK timer, send, idler : /\ timer = TimerRequest("INTERNAL", begin + conf.gossip, n)
                                /\ send = SendRequest("GOSSIP", at, n, draw) /\ idler = IdleRequest(n)
  OBVIOUS
<1>4. /\ EarlyAsks(ph, t, at, send) /\ EarlyAsks(ph, t, at, idler)
      /\ t.type = "Init" => EarlyAsks(ph, t, at, timer)
  BY <1>1, <1>3 DEF EarlyAsks, Timed, Period, TimerRequest, SendRequest, IdleRequest
<1>5. \/ out.reqs \in {<<>>, <<send>>, <<idler>>}
      \/ t.type = "Init" /\ out.reqs \in {<<timer>> \o <<idler>>, <<timer>> \o <<>>}
  <2>1. CASE t.type = "Init"
    <3>1. out = GossipInit(conf, n, s, at, begin)
      BY <1>1, <2>1 DEF GossipDispatch
    <3>2. out.reqs = <<>> \/ out.reqs = <<timer>> \o (IF s.reached THEN <<idler>> ELSE <<>>)
      BY <1>3, <3>1 DEF GossipInit, Outcome
    <3> QED BY <2>1, <3>2
  <2>2. CASE t.type # "Init"
    BY <1>1, <1>3, <2>2 DEF GossipDispatch, GossipIdle, GossipTimer, GossipRecvEnd, Ongoing, Outcome
  <2> QED BY <2>1, <2>2
<1>6. RangeOf(<<timer>> \o <<idler>>) = {timer, idler} /\ RangeOf(<<timer>> \o <<>>) = {timer}
  <2>1. PICK S, a, b : a \in Seq(S) /\ b \in Seq(S) /\ a = <<idler>> /\ b = <<>>
    <3>1. <<idler>> \in Seq({idler}) /\ <<>> \in Seq({idler})
      OBVIOUS
    <3> QED BY <3>1
  <2>2. RangeOf(<<timer>> \o a) = {timer} \cup RangeOf(a) /\ RangeOf(<<timer>> \o b) = {timer} \cup RangeOf(b)
    BY <2>1, FirstRange
  <2> QED BY <2>1, <2>2, FewRange
<1>7. \A r \in RangeOf(out.reqs) : EarlyAsks(ph, t, at, r)
  <2>1. \/ RangeOf(out.reqs) \in {{}, {send}, {idler}}
        \/ t.type = "Init" /\ RangeOf(out.reqs) \in {{timer, idler}, {timer}}
    BY <1>5, <1>6, FewRange
  <2> QED BY <1>4, <2>1
<1> QED BY <1>1, <1>2, <1>7

LEMMA ExclusiveAsks ==
  ASSUME TypeOK, start \in Nat, NEW ph, ph.kind = "Tree", ph.exclusive, ~ ph.forward,
         NEW n \in Node, NEW s \in State, NEW t \in Task, NEW at \in Nat, NEW draw \in Node,
         NEW out, out = ExclusiveDispatch(ph, n, s, t, at, draw)
  PROVE  /\ \A r \in RangeOf(out.reqs) : EarlyAsks(ph, t, at, r)
         /\ out.res # "ONGOING" =>
              \/ t.type = "Init" /\ at >= StartTime(at) + conf.deadline
              \/ t.type \in {"Idle", "Timer", "RecvEnd"} /\ t.tag = "EXCLUSIVE"
              \/ t.type = "RecvEnd" /\ t.tag # "TREE"
         /\ out.res = "DONE_COLL" => t.type = "RecvEnd"
<1>1. PICK plain : /\ plain = TreeDispatch(conf, ph, n, s, t, at) /\ Proper(n, s, t, at, plain)
                   /\ plain = PlainDispatch(ph, n, s, t, at, draw)
  <2>1. Proper(n, s, t, at, PlainDispatch(ph, n, s, t, at, draw))
    BY PlainProper DEF Kinds, Stage
  <2> QED BY <2>1 DEF PlainDispatch
<1>2. /\ \A r \in RangeOf(plain.reqs) : EarlyAsks(ph, t, at, r)
      /\ plain.res = "DONE_COLL" => t.type = "RecvEnd" /\ t.tag # "TREE"
  BY <1>1, TreeAsks
<1>3. plain.res # "DONE_FORWARD"
  BY <1>1 DEF TreeDispatch, TreeInit, TreeRecvEnd, Ongoing, Outcome
<1>4. PICK inner : /\ inner = Held(plain) /\ inner.reqs = plain.reqs
                   /\ inner.res = "ONGOING" \/ (inner.res = "DONE_COLL" /\ plain.res = "DONE_COLL")
                   /\ DOMAIN inner = {"res", "reqs", "s"}
  <2>1. PICK inner : inner = Held(plain)
    OBVIOUS
  <2> QED BY <1>1, <1>3, <2>1 DEF Held, Proper, Result
<1>5. CASE t.type = "Init" /\ AbsDeadline(at) <= at
  <2>1. out.reqs = <<>> /\ out.res = "DONE_PHASE" /\ at >= StartTime(at) + conf.deadline
    <3>1. StartTime(at) + conf.deadline \in Int
      BY CollectiveType DEF StartTime
    <3> QED BY <1>5, <3>1 DEF ExclusiveDispatch, Outcome, AbsDeadline
  <2> QED BY <1>5, <2>1, FewRange
<1>6. CASE t.type = "Init" /\ ~ (AbsDeadline(at) <= at)
  <2>1. PICK timer : timer = TimerRequest("EXCLUSIVE", AbsDeadline(at), n)
    OBVIOUS
  <2>2. out = [inner EXCEPT !.reqs = <<timer>> \o @]
    BY <1>1, <1>4, <1>6, <2>1 DEF ExclusiveDispatch
  <2>3. out.reqs = <<timer>> \o inner.reqs /\ out.res = inner.res
    BY <1>4, <2>2
  <2>4. RangeOf(out.reqs) = {timer} \cup RangeOf(plain.reqs)
    <3>1. PICK S : plain.reqs \in Seq(S)
      BY <1>1 DEF Proper
    <3> QED BY <1>4, <2>3, <3>1, FirstRange
  <2>5. EarlyAsks(ph, t, at, timer)
    BY <1>6, <2>1 DEF EarlyAsks, Timed, Period, TimerRequest, AbsDeadline
  <2>6. out.res = "ONGOING"
    BY <1>2, <1>4, <1>6, <2>3
  <2> QED BY <1>2, <2>4, <2>5, <2>6
<1>7. CASE t.type # "Init"
  <2>1. \/ t.type \in {"Idle", "Timer", "RecvEnd"} /\ t.tag = "EXCLUSIVE" /\ out.reqs = <<>>
           /\ out.res = "DONE_PHASE"
        \/ t.type \in {"Idle", "Timer", "RecvEnd"} /\ t.tag # "EXCLUSIVE" /\ out = inner
        \/ out.res = "ONGOING" /\ out.reqs = <<>>
    BY <1>1, <1>4, <1>7 DEF ExclusiveDispatch, Ongoing, Outcome
  <2> QED BY <1>2, <1>4, <2>1, FewRange
<1> QED BY <1>5, <1>6, <1>7

(* Before the end of window i there are only trees, and what starts them:  *)
(* nobody gets past the window but in time, by a timer, or by a message    *)
(* from beyond.                                                            *)
EarlyFits(i, cur, t, at, inner) ==
  LET ph == conf.phases[cur]
  IN /\ \A r \in RangeOf(inner.reqs) : EarlyAsks(ph, t, at, r)
     /\ Timed(ph) => cur = i
     /\ conf.phases[i].exclusive =>
          IF cur < i
          THEN /\ inner.reqs = <<>> /\ inner.res \in {"ONGOING", "DONE_PHASE"}
               /\ inner.res = "DONE_PHASE" => t.type = "Init"
          ELSE /\ ph.kind = "Tree"
               /\ inner.res # "ONGOING" =>
                    \/ t.type = "Init" /\ at >= StartTime(at) + Period(ph)
                    \/ t.type \in {"Idle", "Timer", "RecvEnd"} /\ t.tag = "EXCLUSIVE"
                    \/ t.type = "RecvEnd" /\ t.tag # "TREE"
     /\ cur = i /\ ~ conf.phases[i].exclusive =>
          /\ inner.res \in {"ONGOING", "DONE_PHASE", "DONE_COLL"}
          /\ inner.res = "DONE_PHASE" => t.type = "Timer" \/ at >= StartTime(at) + Period(ph)

LEMMA EarlyPhase ==
  ASSUME TypeOK, LocalOK, NEW i \in 1 .. Last, Timed(conf.phases[i]), NEW cur \in 1 .. i,
         NEW ph, ph = conf.phases[cur], NEW n \in Node, NEW s \in State, NEW t \in Task, NEW at \in Nat,
         NEW draw \in Node, NEW inner, inner = PhaseDispatch(ph, n, s, t, at, draw)
  PROVE  EarlyFits(i, cur, t, at, inner)
<1>1. Last \in Nat /\ cur \in 1 .. Last /\ start \in Nat
  BY PhasesType DEF LocalOK
<1>2. PICK last : last = conf.phases[i]
  OBVIOUS
<1>3. /\ last.kind \in Kinds /\ last.exclusive \in BOOLEAN /\ (last.exclusive => last.kind = "Tree")
      /\ ph.kind \in Kinds /\ ph.exclusive \in BOOLEAN /\ (ph.exclusive => ph.kind = "Tree" /\ ~ ph.forward)
  BY <1>1, <1>2, PhasesType
<1>4. Stage[last.kind] <= 3 /\ (last.exclusive => Stage[last.kind] <= 2)
  BY <1>2, <1>3 DEF Timed, Stage
<1>5. cur < i => Stage[ph.kind] < Stage[last.kind]
  BY <1>1, <1>2, PhaseOrder
<1>6. /\ ph.kind = last.kind => cur = i
      /\ ph.exclusive => last.kind # "Gossip"
  BY <1>1, <1>2, PhaseOrder
<1>7. /\ cur < i => ph.kind \in {"DepInit", "ReductionDepInit", "Tree"} /\ ~ Timed(ph)
      /\ cur < i /\ last.exclusive => ph.kind \in {"DepInit", "ReductionDepInit"}
  <2>1. \A kind \in Kinds : /\ Stage[kind] \in 1 .. 4
                            /\ Stage[kind] < 3 => kind \in {"DepInit", "ReductionDepInit", "Tree"}
                            /\ Stage[kind] < 2 => kind \in {"DepInit", "ReductionDepInit"}
    BY DEF Kinds, Stage
  <2>2. ASSUME cur < i
        PROVE  ph.kind \in {"DepInit", "ReductionDepInit", "Tree"} /\ ~ ph.exclusive
               /\ (last.exclusive => ph.kind \in {"DepInit", "ReductionDepInit"})
    <3>1. Stage[ph.kind] \in 1 .. 4 /\ Stage[ph.kind] < Stage[last.kind] /\ Stage[last.kind] \in 1 .. 4
      BY <1>3, <1>5, <2>1, <2>2
    <3>2. Stage[ph.kind] < 3 /\ (last.exclusive => Stage[ph.kind] < 2)
      BY <1>4, <3>1
    <3>3. ph.exclusive => FALSE
      BY <1>1, <1>2, <1>3, <1>6, <2>2 DEF Timed
    <3> QED BY <1>3, <2>1, <3>2, <3>3
  <2> QED BY <2>2 DEF Timed
<1>8. CASE ph.kind \in {"DepInit", "ReductionDepInit"}
  <2>1. inner = DepInitDispatch(s, t)
    BY <1>3, <1>8 DEF PhaseDispatch, PlainDispatch
  <2>2. /\ inner.reqs = <<>> /\ inner.res \in {"ONGOING", "DONE_PHASE"}
        /\ inner.res = "DONE_PHASE" => t.type = "Init"
    BY <2>1 DEF DepInitDispatch, Ongoing, Outcome
  <2>3. cur < i /\ ~ Timed(ph)
    BY <1>1, <1>2, <1>3, <1>8 DEF Timed
  <2> QED BY <1>1, <1>2, <2>2, <2>3, FewRange DEF EarlyFits
<1>9. CASE ph.kind = "Tree" /\ ph.exclusive
  <2>1. inner = ExclusiveDispatch(ph, n, s, t, at, draw)
    BY <1>9 DEF PhaseDispatch
  <2>2. cur = i
    BY <1>1, <1>7, <1>9 DEF Timed
  <2>3. /\ \A r \in RangeOf(inner.reqs) : EarlyAsks(ph, t, at, r)
        /\ inner.res # "ONGOING" =>
             \/ t.type = "Init" /\ at >= StartTime(at) + conf.deadline
             \/ t.type \in {"Idle", "Timer", "RecvEnd"} /\ t.tag = "EXCLUSIVE"
             \/ t.type = "RecvEnd" /\ t.tag # "TREE"
    BY <1>1, <1>3, <1>9, <2>1, ExclusiveAsks
  <2>4. Period(ph) = conf.deadline
    BY <1>9 DEF Period
  <2> QED BY <1>1, <1>9, <2>2, <2>3, <2>4 DEF EarlyFits
<1>10. CASE ph.kind = "Tree" /\ ~ ph.exclusive
  <2>1. inner = TreeDispatch(conf, ph, n, s, t, at)
    BY <1>10 DEF PhaseDispatch, PlainDispatch
  <2>2. \A r \in RangeOf(inner.reqs) : EarlyAsks(ph, t, at, r)
    BY <1>10, <2>1, TreeAsks
  <2>3. ~ Timed(ph) /\ cur # i
    BY <1>10 DEF Timed
  <2>4. ~ last.exclusive
    BY <1>1, <1>7, <1>10, <2>3
  <2> QED BY <1>1, <1>2, <2>2, <2>3, <2>4 DEF EarlyFits
<1>11. CASE ph.kind = "Gossip"
  <2>1. ~ ph.exclusive /\ cur = i
    BY <1>1, <1>3, <1>7, <1>11
  <2>2. inner = GossipDispatch(conf, n, s, t, at, StartTime(at), draw)
    BY <1>11, <2>1 DEF PhaseDispatch, PlainDispatch
  <2>3. /\ \A r \in RangeOf(inner.reqs) : EarlyAsks(ph, t, at, r)
        /\ inner.res \in {"ONGOING", "DONE_PHASE", "DONE_COLL"}
        /\ inner.res = "DONE_PHASE" => t.type = "Timer" \/ at >= StartTime(at) + conf.gossip
    BY <1>1, <1>11, <2>1, <2>2, GossipAsks
  <2>4. Period(ph) = conf.gossip
    BY <2>1 DEF Period
  <2>5. ~ last.exclusive
    BY <1>2, <2>1
  <2> QED BY <1>1, <1>2, <1>11, <2>1, <2>3, <2>4, <2>5 DEF EarlyFits
<1>12. ph.kind \in {"DepInit", "ReductionDepInit", "Tree", "Gossip"}
  BY <1>1, <1>2, <1>3, <1>7 DEF Timed
<1> QED BY <1>8, <1>9, <1>10, <1>11, <1>12

-----------------------------------------------------------------------------
(***************************************************************************)
(* The windows.  A timer that waits for the end of window i is set for     *)
(* that end; who is past the window is late enough, and with it every      *)
(* message that is not the tree's, which could end an exclusive phase.     *)
(* All this depends on the start of the window being fixed when somebody   *)
(* waits for its end.                                                      *)
(***************************************************************************)
Elapsed(i) == now >= start + Period(conf.phases[i])

TimersFit(i) ==
  \A u \in queue : u.type = "Timer" /\ local[u.sender].cur <= i =>
    /\ u.time = start + Period(conf.phases[i])
    /\ start = TimeMax => now >= TimeMax

Passed(i) ==
  \A n \in Node : local[n].cur > i /\ (conf.phases[i].exclusive \/ local[n].cur <= Last) => Elapsed(i)

Foreign(i) ==
  conf.phases[i].exclusive =>
    \A u \in queue : /\ u.type \in MessageTypes /\ u.tag # "TREE" => Elapsed(i)
                     /\ u.type = "Idle" => u.tag = "INTERNAL"
                     /\ u.type = "Init" /\ local[u.sender].cur <= i => u.time = 0

Window(i) == TimersFit(i) /\ Passed(i) /\ Foreign(i)

WindowInv ==
  /\ InTime
  /\ \A i \in 1 .. Last :
       Timed(conf.phases[i]) /\ (conf.phases[i].exclusive \/ conf.P > 1) => Window(i)

LEMMA ElapsedStays ==
  ASSUME TypeOK, LocalOK, InTime, conf' = conf, now \in Nat, now' \in Nat, now' >= now,
         NEW i \in 1 .. Last, Elapsed(i), start' \in Nat,
         start' = start \/ (start = TimeMax /\ status = "running")
  PROVE  Elapsed(i)' /\ start' = start
<1>1. Period(conf.phases[i]) \in Nat /\ start \in Nat /\ TimeMax \in Nat
  BY CollectiveType, BoundsAssumption DEF Period, LocalOK
<1>2. start' = start
  BY <1>1 DEF Elapsed, InTime
<1>3. Period(conf.phases[i])' = Period(conf.phases[i])
  BY DEF Period
<1> QED BY <1>1, <1>2, <1>3 DEF Elapsed

(* What is in the heap after a step, if what was asked for fits. *)
LEMMA WindowHeap ==
  ASSUME TypeOK, LocalOK, InTime, conf' = conf, now \in Nat, now' \in Nat, now' >= now,
         NEW i \in 1 .. Last, Window(i), queue' \subseteq Task,
         NEW t \in Upcoming, NEW asked, Heap(t, asked),
         start' \in Nat, start' = start \/ (start = TimeMax /\ status = "running"),
         \A m \in Node : local'[m].cur \in Nat /\ local'[m].cur >= local[m].cur,
         \A r \in asked :
           /\ r.type \in {"SendStart", "Timer", "Init", "Idle", "Finish"} /\ r.sender \in Node
           /\ r.type = "Timer" /\ local'[r.sender].cur <= i =>
                /\ r.time = start' + Period(conf.phases[i])
                /\ start' = TimeMax => now' >= TimeMax
           /\ conf.phases[i].exclusive =>
                /\ r.type = "SendStart" /\ r.tag # "TREE" => Elapsed(i)'
                /\ r.type = "Init" /\ local'[r.sender].cur <= i => r.time = 0
  PROVE  TimersFit(i)' /\ Foreign(i)'
<1>1. /\ status = "running" /\ TimeMax \in Nat /\ start \in Nat /\ conf.phases[i]' = conf.phases[i]
      /\ Period(conf.phases[i])' = Period(conf.phases[i]) /\ t \in Ready /\ i \in Nat
  BY UpcomingType, BoundsAssumption, PhasesType DEF Heap, LocalOK, Period
<1>2. Elapsed(i) => Elapsed(i)'
  BY ElapsedStays
<1>3. \A u \in queue : u.sender \in Node /\ local[u.sender].cur \in Nat
  BY DEF TypeOK, Task, LocalOK, State
<1>4. ASSUME NEW u \in queue', u.type \in {"Timer", "Init"}
      PROVE  u \in queue \/ \E r \in asked : SameTask(u, r)
  <2>1. Origin(t, asked, u)
    BY DEF Heap
  <2>2. u \in Ready => u \in queue
    BY <1>4 DEF Ready, IdleTask
  <2>3. ~ Succeeds(t, u)
    BY <1>4 DEF Succeeds, Successors
  <2> QED BY <1>4, <2>1, <2>2, <2>3 DEF Origin
<1>5. ASSUME NEW u \in queue', u.type = "Timer", local'[u.sender].cur <= i
      PROVE  /\ u.time = start' + Period(conf.phases[i])
             /\ start' = TimeMax => now' >= TimeMax
  <2>1. CASE u \in queue
    <3>1. local[u.sender].cur <= i
      BY <1>1, <1>3, <1>5, <2>1
    <3>2. u.time = start + Period(conf.phases[i]) /\ (start = TimeMax => now >= TimeMax)
      BY <1>5, <2>1, <3>1 DEF Window, TimersFit
    <3>3. start # TimeMax
      BY <1>1, <3>2 DEF InTime
    <3> QED BY <3>2, <3>3
  <2>2. ASSUME NEW r \in asked, SameTask(u, r)
        PROVE  /\ u.time = start' + Period(conf.phases[i])
               /\ start' = TimeMax => now' >= TimeMax
    BY <1>5, <2>2 DEF SameTask
  <2> QED BY <1>4, <1>5, <2>1, <2>2
<1>6. TimersFit(i)'
  BY <1>1, <1>5 DEF TimersFit
<1>7. ASSUME conf.phases[i].exclusive, NEW u \in queue', u.type \in MessageTypes, u.tag # "TREE"
      PROVE  Elapsed(i)'
  <2>1. \/ u \in queue
        \/ t \in queue /\ t.type \in MessageTypes /\ Succeeds(t, u)
        \/ \E r \in asked : r.type = "SendStart" /\ SameTask(u, r)
    BY <1>1, <1>7, MessageOrigin
  <2> QED BY <1>2, <1>7, <2>1 DEF Window, Foreign, Succeeds, SameTask
<1>8. ASSUME conf.phases[i].exclusive, NEW u \in queue', u.type = "Idle"
      PROVE  u.tag = "INTERNAL"
  <2>1. Origin(t, asked, u)
    BY DEF Heap
  <2>2. u \in Ready => u \in queue \/ u.tag = "INTERNAL"
    BY DEF Ready, IdleTask
  <2>3. ~ Succeeds(t, u)
    BY <1>8 DEF Succeeds, Successors
  <2> QED BY <1>7, <1>8, <2>1, <2>2, <2>3 DEF Origin, Window, Foreign
<1>9. ASSUME conf.phases[i].exclusive, NEW u \in queue', u.type = "Init", local'[u.sender].cur <= i
      PROVE  u.time = 0
  <2>1. CASE u \in queue
    <3>1. local[u.sender].cur <= i
      BY <1>1, <1>3, <1>9, <2>1
    <3> QED BY <1>9, <2>1, <3>1 DEF Window, Foreign
  <2>2. ASSUME NEW r \in asked, SameTask(u, r)
        PROVE  u.time = 0
    BY <1>9, <2>2 DEF SameTask
  <2> QED BY <1>4, <1>9, <2>1, <2>2
<1>10. Foreign(i)'
  BY <1>1, <1>7, <1>8, <1>9 DEF Foreign
<1> QED BY <1>6, <1>10

LEMMA AnswerWindow ==
  ASSUME TypeOK, LocalOK, LocalOK', InTime, conf' = conf, now \in Nat, now' \in Nat, now' >= now,
         NEW i \in 1 .. Last, conf.phases[i].exclusive \/ conf.P > 1, Timed(conf.phases[i]), Window(i), queue' \subseteq Task,
         NEW t \in Upcoming, NEW n \in Node, NEW draw \in Node, NEW at \in Nat, NEW asked,
         Hears(n, t, at, asked),
         \/ Steady(n, t, asked)
         \/ \E inner : /\ inner = PhaseDispatch(conf.phases[local[n].cur], n, local[n], t, at, draw)
                       /\ Moves(n, t, at, asked, inner)
  PROVE  Window(i)'
<1>1. /\ status = "running" /\ TimeMax \in Nat /\ start \in Nat /\ start' \in Nat
      /\ conf.phases[i]' = conf.phases[i] /\ Period(conf.phases[i])' = Period(conf.phases[i])
      /\ t \in Ready /\ t \in Task /\ i \in Nat /\ Last' = Last /\ Last \in Nat /\ Node' = Node
      /\ Heap(t, asked) /\ at = Clock(t) /\ now' = at
      /\ (conf.phases[i].exclusive \/ conf.gossip > 0) /\ Period(conf.phases[i]) \in Nat
  <2>1. (conf.phases[i].exclusive \/ conf.gossip > 0) /\ Period(conf.phases[i]) \in Nat
    BY CollectiveType DEF IsCollective, Period
  <2> QED BY <2>1, UpcomingType, BoundsAssumption, PhasesType DEF Hears, Heap, LocalOK, Period, Last, Node
<1>2. start' = start \/ (start = TimeMax /\ status = "running")
  BY <1>1 DEF Hears, StartTime
<1>3. Elapsed(i) => Elapsed(i)'
  BY <1>1, <1>2, ElapsedStays
<1>4. \A m \in Node : local[m] \in State /\ local[m].cur \in Nat /\ local'[m].cur \in Nat
  BY <1>1 DEF LocalOK, State
<1>5. PICK cur \in Nat : cur = local[n].cur
  BY <1>4
<1>6. \A m \in Node : local'[m].cur >= local[m].cur
  <2>1. local'[n].cur >= cur
    BY <1>1, <1>4, <1>5 DEF Steady, Moves, NextPhase, Proper, Result
  <2> QED BY <1>4, <1>5, <2>1 DEF Hears
<1>7. ASSUME NEW inner, inner = PhaseDispatch(conf.phases[cur], n, local[n], t, at, draw),
             Moves(n, t, at, asked, inner), cur \in 1 .. i
      PROVE  EarlyFits(i, cur, t, at, inner)
  <2>1. PICK ph : ph = conf.phases[cur]
    OBVIOUS
  <2>2. inner = PhaseDispatch(ph, n, local[n], t, at, draw)
    BY <1>7, <2>1
  <2> QED BY <1>1, <1>4, <1>7, <2>1, <2>2, EarlyPhase
<1>8. Starts(n, t) => start' = StartTime(at)
  BY DEF Hears
<1>9. ASSUME cur = i, t.type = "Init"
      PROVE  start' = StartTime(at)
  BY <1>1, <1>5, <1>8, <1>9 DEF Starts, Timed, InPhase
<1>10. ASSUME cur = i, start' = StartTime(at), at >= StartTime(at) + Period(conf.phases[i])
       PROVE  Elapsed(i)'
  BY <1>1, <1>10 DEF Elapsed
<1>11. ASSUME local'[n].cur > i, conf.phases[i].exclusive \/ local'[n].cur <= Last
       PROVE  Elapsed(i)'
  <2>1. CASE cur > i
    BY <1>1, <1>3, <1>4, <1>5, <1>6, <1>11, <2>1 DEF Window, Passed
  <2>2. CASE ~ (cur > i)
    <3>1. PICK inner : /\ inner = PhaseDispatch(conf.phases[cur], n, local[n], t, at, draw)
                       /\ Moves(n, t, at, asked, inner)
      BY <1>1, <1>5, <1>11, <2>2 DEF Steady
    <3>2. cur \in 1 .. i /\ local'[n].cur = NextPhase(cur, inner.res)
      <4>1. cur \in 1 .. Last /\ local'[n].cur = NextPhase(cur, inner.res)
        BY <1>5, <3>1 DEF Moves
      <4> QED BY <1>1, <2>2, <4>1
    <3>3. /\ inner.res # "ONGOING"
          /\ inner.res # "DONE_COLL" => local'[n].cur = cur + 1
          /\ inner.res = "DONE_COLL" => local'[n].cur = Last + 1
      BY <1>1, <1>11, <3>2 DEF NextPhase
    <3>4. cur = i
      <4>1. SUFFICES ASSUME cur < i PROVE FALSE
        BY <1>1, <3>2
      <4>2. inner.res = "DONE_COLL"
        BY <1>1, <1>11, <3>2, <3>3, <4>1
      <4>3. conf.phases[i].exclusive
        BY <1>1, <1>11, <3>3, <4>2
      <4> QED BY <1>7, <3>1, <3>2, <4>1, <4>2, <4>3 DEF EarlyFits
    <3>5. ASSUME t.type = "Timer"
          PROVE  Elapsed(i)'
      <4>1. t \in queue /\ t.sender = n /\ now' = t.time
        BY <1>1, <3>5 DEF Ready, IdleTask, Hears, NotifiedNode, Clock
      <4>2. t.time = start + Period(conf.phases[i])
        <5>1. local[t.sender].cur = cur
          BY <1>5, <4>1
        <5>2. local[t.sender].cur <= i
          BY <1>1, <3>4, <5>1
        <5> QED BY <3>5, <4>1, <5>2 DEF Window, TimersFit
      <4>3. start' = start
        BY <3>5 DEF Hears, Starts
      <4> QED BY <1>1, <4>1, <4>2, <4>3 DEF Elapsed
    <3>6. CASE conf.phases[i].exclusive
      <4>1. \/ t.type = "Init" /\ at >= StartTime(at) + Period(conf.phases[i])
            \/ t.type \in {"Idle", "Timer", "RecvEnd"} /\ t.tag = "EXCLUSIVE"
            \/ t.type = "RecvEnd" /\ t.tag # "TREE"
        BY <1>1, <1>7, <3>1, <3>2, <3>3, <3>4, <3>6 DEF EarlyFits
      <4>2. t.type \in {"RecvEnd", "Idle"} /\ t \notin queue => t.type = "Idle" /\ t.tag = "INTERNAL"
        BY <1>1 DEF Ready, IdleTask
      <4>3. CASE t.type = "Init"
        BY <1>9, <1>10, <3>4, <4>1, <4>3
      <4>4. CASE t.type = "Idle"
        BY <3>6, <4>1, <4>2, <4>4 DEF Window, Foreign
      <4>5. CASE t.type = "RecvEnd"
        BY <1>3, <3>6, <4>1, <4>2, <4>5 DEF Window, Foreign, MessageTypes
      <4> QED BY <3>5, <4>1, <4>3, <4>4, <4>5
    <3>7. CASE ~ conf.phases[i].exclusive
      <4>1. inner.res = "DONE_PHASE"
        BY <1>1, <1>7, <1>11, <3>1, <3>2, <3>3, <3>4, <3>7 DEF EarlyFits
      <4>2. t.type = "Timer" \/ at >= StartTime(at) + Period(conf.phases[i])
        BY <1>7, <3>1, <3>2, <3>4, <3>7, <4>1 DEF EarlyFits
      <4>3. ASSUME t.type # "Init", at >= StartTime(at) + Period(conf.phases[i])
            PROVE  Elapsed(i)'
        <5>1. Period(conf.phases[i]) > 0
          BY <1>1, <3>7 DEF Period
        <5>2. start # TimeMax
          BY <1>1, <4>3, <5>1 DEF StartTime
        <5>3. start' = start /\ StartTime(at) = start
          BY <4>3, <5>2 DEF Hears, Starts, StartTime
        <5> QED BY <1>10, <3>4, <4>3, <5>3
      <4> QED BY <1>9, <1>10, <3>4, <3>5, <4>2, <4>3
    <3> QED BY <3>6, <3>7
  <2> QED BY <2>1, <2>2
<1>12. Passed(i)'
  <2>1. ASSUME NEW m \in Node, local'[m].cur > i, conf.phases[i].exclusive \/ local'[m].cur <= Last
        PROVE  Elapsed(i)'
    <3>1. CASE m = n
      BY <1>11, <2>1, <3>1
    <3>2. CASE m # n
      BY <1>3, <2>1, <3>2 DEF Hears, Window, Passed
    <3> QED BY <3>1, <3>2
  <2> QED BY <1>1, <2>1 DEF Passed
<1>13. ASSUME NEW r \in asked
       PROVE  /\ r.type = "Timer" /\ local'[r.sender].cur <= i =>
                   /\ r.time = start' + Period(conf.phases[i])
                   /\ start' = TimeMax => now' >= TimeMax
              /\ conf.phases[i].exclusive =>
                   /\ r.type = "SendStart" /\ r.tag # "TREE" => Elapsed(i)'
                   /\ r.type = "Init" /\ local'[r.sender].cur <= i => r.time = 0
  <2>1. r.sender = n
    BY DEF Hears
  <2>2. CASE r.type = "Finish"
    BY <2>2
  <2>3. CASE r.type # "Finish"
    <3>1. PICK inner : /\ inner = PhaseDispatch(conf.phases[cur], n, local[n], t, at, draw)
                       /\ Moves(n, t, at, asked, inner)
      BY <1>5, <2>3 DEF Steady
    <3>2. /\ cur \in 1 .. Last
          /\ r \in RangeOf(inner.reqs) \/ (r = InitRequest(at, n) /\ cur < local'[n].cur)
          /\ local'[n].cur = NextPhase(cur, inner.res)
      BY <1>5, <2>3, <3>1 DEF Moves
    <3>3. ASSUME r.type = "Timer", local'[n].cur <= i
          PROVE  /\ r.time = start' + Period(conf.phases[i])
                 /\ start' = TimeMax => now' >= TimeMax
      <4>1. r \in RangeOf(inner.reqs) /\ cur \in 1 .. i
        BY <1>1, <1>4, <1>5, <1>6, <3>2, <3>3 DEF InitRequest
      <4>2. EarlyAsks(conf.phases[cur], t, at, r)
        BY <1>7, <3>1, <4>1 DEF EarlyFits
      <4>3. cur = i /\ t.type = "Init" /\ r.time = StartTime(at) + Period(conf.phases[i])
        BY <1>7, <3>1, <3>3, <4>1, <4>2 DEF EarlyAsks, EarlyFits
      <4>4. start' = StartTime(at)
        BY <1>9, <4>3
      <4> QED BY <1>1, <4>3, <4>4 DEF StartTime
    <3>4. ASSUME conf.phases[i].exclusive, r.type = "SendStart", r.tag # "TREE"
          PROVE  Elapsed(i)'
      <4>1. r \in RangeOf(inner.reqs)
        BY <3>2, <3>4 DEF InitRequest
      <4>2. CASE cur > i
        BY <1>3, <1>5, <3>4, <4>2 DEF Window, Passed
      <4>3. CASE cur \in 1 .. i
        <5>1. EarlyAsks(conf.phases[cur], t, at, r)
          BY <1>7, <3>1, <4>1, <4>3 DEF EarlyFits
        <5>2. cur = i
          BY <1>1, <1>7, <3>1, <3>4, <4>1, <4>3, FewRange DEF EarlyFits
        <5>3. conf.phases[cur].kind = "Tree"
          BY <1>7, <1>1, <3>1, <3>4, <4>3, <5>2 DEF EarlyFits
        <5> QED BY <3>4, <5>1, <5>3 DEF EarlyAsks
      <4> QED BY <1>1, <3>2, <4>2, <4>3
    <3>5. ASSUME conf.phases[i].exclusive, r.type = "Init", local'[n].cur <= i
          PROVE  r.time = 0
      <4>1. cur \in 1 .. i
        BY <1>1, <1>4, <1>5, <1>6, <3>2, <3>5
      <4>2. r \notin RangeOf(inner.reqs)
        <5>1. EarlyAsks(conf.phases[cur], t, at, r) => r.type # "Init"
          BY DEF EarlyAsks
        <5> QED BY <1>7, <3>1, <3>5, <4>1, <5>1 DEF EarlyFits
      <4>3. r = InitRequest(at, n) /\ cur < local'[n].cur /\ cur < i
        BY <1>1, <1>4, <1>5, <3>2, <3>5, <4>1, <4>2
      <4>4. inner.res = "DONE_PHASE" /\ t.type = "Init"
        BY <1>7, <3>1, <3>2, <3>5, <4>1, <4>3 DEF NextPhase, EarlyFits
      <4>5. t \in queue /\ t.sender = n /\ at = t.time
        BY <1>1, <4>4 DEF Ready, IdleTask, Hears, NotifiedNode, Clock
      <4>6. t.time = 0
        BY <1>5, <3>5, <4>1, <4>4, <4>5 DEF Window, Foreign
      <4> QED BY <4>3, <4>5, <4>6 DEF InitRequest
    <3> QED BY <2>1, <3>3, <3>4, <3>5
  <2> QED BY <2>2, <2>3
<1>14. \A r \in asked : r.type \in {"SendStart", "Timer", "Init", "Idle", "Finish"} /\ r.sender \in Node
  BY AnswerAsks DEF Hears
<1>15. TimersFit(i)' /\ Foreign(i)'
  BY <1>1, <1>2, <1>4, <1>6, <1>13, <1>14, WindowHeap
<1> QED BY <1>12, <1>15 DEF Window


LEMMA StepWindow ==
  ASSUME TypeOK, TypeOK', LocalOK, LocalOK', StartUp, NoTimewarp, Senders, OneWait, WindowInv, [CNext]_vars
  PROVE  WindowInv'
<1>1. /\ conf' = conf /\ Last' = Last /\ Last \in Nat /\ Node' = Node /\ queue' \subseteq Task
      /\ now \in Nat /\ now' \in Nat /\ now' >= now /\ InTime /\ InTime' /\ start \in Nat /\ start' \in Nat
  <2>1. conf' = conf /\ queue' \subseteq Task'
    BY StepLocal DEF TypeOK
  <2>2. Node' = Node /\ Task' = Task
    BY <2>1 DEF Node, Task
  <2>3. [OpenNext]_qvars
    BY StepOpens
  <2>4. InTime
    BY DEF WindowInv
  <2>5. now \in Nat /\ now' \in Nat /\ now' >= now /\ InTime'
    BY <2>3, <2>4, ClockGoesOn
  <2> QED BY <2>1, <2>2, <2>4, <2>5, PhasesType DEF Last, LocalOK
<1>2. ASSUME NEW i \in 1 .. Last, conf.phases[i].exclusive \/ conf.P > 1, Timed(conf.phases[i])
      PROVE  Window(i)'
  <2>0. Window(i)
    BY <1>2 DEF WindowInv
  <2>1. CASE Rests
    <3>1. local' = local /\ queue' = queue /\ start' = start
      BY <2>1 DEF Rests, cvars
    <3>2. Elapsed(i) => Elapsed(i)'
      BY <1>1, <3>1, ElapsedStays
    <3>3. Period(conf.phases[i])' = Period(conf.phases[i]) /\ conf.phases[i]' = conf.phases[i]
      BY <1>1 DEF Period
    <3>4. start = TimeMax /\ now >= TimeMax => now' >= TimeMax
      BY <1>1, BoundsAssumption
    <3>5. TimersFit(i)'
      BY <2>0, <3>1, <3>3, <3>4 DEF Window, TimersFit
    <3>6. Passed(i)'
      BY <1>1, <2>0, <3>1, <3>2, <3>3 DEF Window, Passed
    <3>7. Foreign(i)'
      BY <2>0, <3>1, <3>2, <3>3 DEF Window, Foreign
    <3> QED BY <3>5, <3>6, <3>7 DEF Window
  <2>2. ASSUME NEW t \in Upcoming, Heap(t, {}), UNCHANGED cvars
        PROVE  Window(i)'
    <3>1. local' = local /\ start' = start
      BY <2>2 DEF cvars
    <3>2. PICK asked : asked = {} /\ Heap(t, asked)
      BY <2>2
    <3>3. \A m \in Node : local'[m].cur \in Nat /\ local'[m].cur >= local[m].cur
      BY <3>1 DEF LocalOK, State
    <3>4. TimersFit(i)' /\ Foreign(i)'
      BY <1>1, <2>0, <3>1, <3>2, <3>3, WindowHeap
    <3>5. Elapsed(i) => Elapsed(i)'
      BY <1>1, <3>1, ElapsedStays
    <3>6. Passed(i)'
      BY <1>1, <2>0, <3>1, <3>5 DEF Window, Passed
    <3> QED BY <3>4, <3>6 DEF Window
  <2>3. ASSUME NEW t \in Upcoming, NEW draw \in Draws(NotifiedNode(t), t), NEW out,
               RootBegins(NotifiedNode(t), t), t.type \in DOMAIN Priority \ {"Msg", "Failure"},
               Answers(t, NotifiedNode(t), draw, out)
        PROVE  Window(i)'
    <3>1. PICK n : n = NotifiedNode(t) /\ AnswerOf(t, n, out)
      BY <1>1, <2>3, AnswerIs
    <3>2. /\ out = CombinerDispatch(n, t, Clock(t), draw) /\ draw \in Draws(n, t)
          /\ RootBegins(n, t) /\ draw \in Node /\ n \in Node
      BY <2>3, <3>1, UpcomingType DEF Answers, Draws
    <3>3. PICK at \in Nat : \E asked :
            /\ Hears(n, t, at, asked)
            /\ \/ Steady(n, t, asked)
               \/ \E inner : /\ inner = PhaseDispatch(conf.phases[local[n].cur], n, local[n], t, at, draw)
                             /\ Moves(n, t, at, asked, inner)
      BY <1>1, <3>1, <3>2, AnswerParts
    <3>4. PICK asked :
            /\ Hears(n, t, at, asked)
            /\ \/ Steady(n, t, asked)
               \/ \E inner : /\ inner = PhaseDispatch(conf.phases[local[n].cur], n, local[n], t, at, draw)
                             /\ Moves(n, t, at, asked, inner)
      BY <3>3
    <3> QED BY <1>1, <1>2, <2>0, <3>2, <3>4, AnswerWindow
  <2> QED BY <2>1, <2>2, <2>3, StepCases
<1>3. \A i \in 1 .. Last : Timed(conf.phases[i])' <=> Timed(conf.phases[i])
  BY <1>1 DEF Timed
<1> QED BY <1>1, <1>2, <1>3 DEF WindowInv

LEMMA InitWindow ==
  ASSUME NEW first \in Nat, CStart(first)
  PROVE  WindowInv
<1>1. TypeOK /\ Last \in Nat \ {0}
  <2>1. TypeOK
    BY InitInvariant DEF CStart, IInv
  <2> QED BY <2>1, PhasesType
<1>2. InTime
  BY BoundsAssumption, LimitAssumption DEF CStart, QStart, InTime
<1>3. ASSUME NEW t \in queue
      PROVE  t.type \in {"Init", "Failure"} /\ t.time = 0
  BY <1>3 DEF CStart, QStart, AllAdmitted, Admitted
<1>4. ASSUME NEW i \in 1 .. Last
      PROVE  Window(i)
  <2>1. TimersFit(i)
    BY <1>3 DEF TimersFit
  <2>2. \A n \in Node : local[n].cur = 1
    BY DEF CStart, InitialState
  <2>3. Passed(i)
    BY <1>1, <2>2 DEF Passed
  <2>4. Foreign(i)
    BY <1>3 DEF Foreign, MessageTypes
  <2> QED BY <2>1, <2>3, <2>4 DEF Window
<1> QED BY <1>2, <1>4 DEF WindowInv

TimedInv == CompInv /\ WindowInv

LEMMA TimedInvariant == RepeatedSpec => []TimedInv
<1>1. CStarted => WindowInv
  BY InitWindow DEF CStarted
<1>2. CompInv /\ CompInv' /\ WindowInv /\ [CNext]_vars => WindowInv'
  BY StepWindow DEF CompInv, CInv, IInv
<1> QED BY <1>1, <1>2, CompletionInvariant, PTL DEF RepeatedSpec, TimedInv


-----------------------------------------------------------------------------
(* The phase a node waits in before the end of window i, and for what. *)
LEMMA StillWaiting ==
  ASSUME TypeOK, LocalOK, NoTimewarp, Guided, NEW i \in 1 .. Last, Timed(conf.phases[i]), Window(i),
         NEW n \in Live, local[n].cur \in 1 .. i, conf.phases[i].exclusive \/ local[n].cur = i,
         now > start + Period(conf.phases[i])
  PROVE  ~ conf.phases[i].exclusive /\ \E t \in queue : t.type = "Init" /\ t.sender = n
<1>1. /\ Last \in Nat /\ i \in Nat /\ n \in Node /\ now \in Nat /\ start \in Nat
      /\ Period(conf.phases[i]) \in Nat
  <2>1. Period(conf.phases[i]) \in Nat
    BY CollectiveType DEF Period
  <2>2. Last \in Nat
    BY PhasesType
  <2> QED BY <2>1, <2>2 DEF Live, LocalOK, TypeOK
<1>2. PICK cur \in 1 .. i : cur = local[n].cur
  OBVIOUS
<1>3. PICK ph, last : ph = conf.phases[cur] /\ last = conf.phases[i]
  OBVIOUS
<1>4. /\ last.kind \in Kinds /\ (last.exclusive => last.kind = "Tree")
      /\ ph.kind \in Kinds /\ ph.exclusive \in BOOLEAN /\ (ph.exclusive => ph.kind = "Tree")
  BY <1>1, <1>3, PhasesType
<1>5. /\ cur < i => Stage[ph.kind] < Stage[last.kind]
      /\ ph.kind = last.kind => cur = i
  BY <1>1, <1>3, PhaseOrder
<1>6. /\ \A kind \in Kinds : Stage[kind] < Stage["Tree"] => kind \in {"DepInit", "ReductionDepInit"}
      /\ last.exclusive => \A kind \in Kinds : kind = "Gossip" => ~ (Stage[kind] < Stage[last.kind])
  BY <1>4 DEF Kinds, Stage
<1>7. \/ ph = last
      \/ cur < i /\ last.exclusive /\ ph.kind \in {"DepInit", "ReductionDepInit"} /\ ~ ph.exclusive
  BY <1>1, <1>2, <1>3, <1>4, <1>5, <1>6
<1>8. KeepsTime(ph) /\ ~ Corrects(ph)
  BY <1>3, <1>4, <1>7 DEF KeepsTime, Timed, Corrects
<1>9. PICK u \in queue : u.sender = n /\ IsCue(ph, u)
  <2>1. Cued(n, ph)
    BY <1>1, <1>2, <1>3, <1>8 DEF Guided, Guide
  <2> QED BY <1>8, <2>1 DEF Cued
<1>10. u.type = "Init" \/ u.type = "Timer"
  BY <1>8, <1>9 DEF IsCue, Corrects
<1>11. u.time >= now
  BY <1>9, <1>10 DEF NoTimewarp, Clock
<1>12. local[u.sender].cur <= i
  BY <1>1, <1>2, <1>9
<1>13. u.type # "Timer"
  <2>1. u.type = "Timer" => u.time = start + Period(conf.phases[i])
    BY <1>9, <1>12 DEF Window, TimersFit
  <2> QED BY <1>1, <1>11, <2>1
<1>14. conf.phases[i].exclusive => u.time = 0
  BY <1>9, <1>10, <1>12, <1>13 DEF Window, Foreign
<1> QED BY <1>1, <1>9, <1>10, <1>11, <1>13, <1>14

LEMMA GossipLastsAgain == RepeatedSpec => [](conf.P > 1 => GossipWindow)
<1>1. ASSUME TimedInv, conf.P > 1
      PROVE  GossipWindow
  <2>1. TypeOK /\ LocalOK /\ NoTimewarp /\ Guided /\ Last \in Nat
    BY <1>1, PhasesType DEF TimedInv, CompInv, CInv, IInv
  <2>2. ASSUME NEW i \in 1 .. Last, conf.phases[i].kind = "Gossip", NEW n \in Live
        PROVE  /\ local[n].cur \in i + 1 .. Last => now >= start + conf.gossip
               /\ local[n].cur = i /\ now > start + conf.gossip =>
                    \E t \in queue : t.type = "Init" /\ t.sender = n
    <3>1. /\ ~ conf.phases[i].exclusive /\ Timed(conf.phases[i])
          /\ Period(conf.phases[i]) = conf.gossip /\ n \in Node
      BY <2>1, <2>2, PhasesType DEF Timed, Period, Live
    <3>2. Window(i)
      BY <1>1, <3>1 DEF TimedInv, WindowInv
    <3>3. local[n].cur \in i + 1 .. Last => now >= start + conf.gossip
      BY <2>1, <3>1, <3>2 DEF Window, Passed, Elapsed
    <3>4. ASSUME local[n].cur = i, now > start + conf.gossip
          PROVE  \E t \in queue : t.type = "Init" /\ t.sender = n
      <4>1. local[n].cur \in 1 .. i /\ now > start + Period(conf.phases[i])
        BY <2>1, <3>1, <3>4
      <4> QED BY <2>1, <3>1, <3>2, <3>4, <4>1, StillWaiting
    <3> QED BY <3>3, <3>4
  <2> QED BY <2>2 DEF GossipWindow
<1> QED BY <1>1, TimedInvariant, PTL

(***************************************************************************)
(* Nobody leaves the gossip before its time has passed, and nobody who is  *)
(* alive stays in it longer, on every machine of several nodes.            *)
(***************************************************************************)
THEOREM GossipLasts == CSpec => [](conf.P > 1 => GossipWindow)
BY OneCollective, GossipLastsAgain, PTL

LEMMA BarrierHoldsAgain == RepeatedSpec => []ExclusiveBarrier
<1>1. ASSUME TimedInv
      PROVE  ExclusiveBarrier
  <2>1. TypeOK /\ LocalOK /\ NoTimewarp /\ Guided /\ Last \in Nat
    BY <1>1, PhasesType DEF TimedInv, CompInv, CInv, IInv
  <2>2. ASSUME NEW i \in 1 .. Last, conf.phases[i].exclusive
        PROVE  LET past == {n \in Node : local[n].cur > i}
               IN /\ past # {} => now >= start + conf.deadline
                  /\ now > start + conf.deadline => Live \subseteq past
    <3>1. Timed(conf.phases[i]) /\ Period(conf.phases[i]) = conf.deadline
      BY <2>2 DEF Timed, Period
    <3>2. Window(i)
      BY <1>1, <2>2, <3>1 DEF TimedInv, WindowInv
    <3>3. \A n \in Node : local[n].cur > i => now >= start + conf.deadline
      BY <2>2, <3>1, <3>2 DEF Window, Passed, Elapsed
    <3>4. ASSUME NEW n \in Live, now > start + conf.deadline
          PROVE  n \in Node /\ local[n].cur > i
      <4>1. n \in Node /\ local[n].cur \in Nat \ {0}
        BY <2>1 DEF Live, LocalOK, State
      <4>2. now > start + Period(conf.phases[i])
        BY <3>1, <3>4
      <4>3. ~ (local[n].cur \in 1 .. i)
        BY <2>1, <2>2, <3>1, <3>2, <4>2, StillWaiting
      <4> QED BY <2>1, <4>1, <4>3
    <3> QED BY <3>3, <3>4
  <2> QED BY <2>2 DEF ExclusiveBarrier
<1> QED BY <1>1, TimedInvariant, PTL

(***************************************************************************)
(* An exclusive phase is a barrier: nobody leaves it before the deadline,  *)
(* and everybody alive is past it afterwards.                              *)
(***************************************************************************)
THEOREM BarrierHolds == CSpec => []ExclusiveBarrier
BY OneCollective, BarrierHoldsAgain, PTL

-----------------------------------------------------------------------------
(* Waves: what one gets by adding the children of all members, again and   *)
(* again.  After as many times as there are nodes nothing is new.          *)
Grown(kids, S) == S \cup UNION {kids[m] : m \in S}
Rooted(kids, S) == \A m \in S : kids[m] \subseteq S
IsWave(P, first, kids, f) == f = [i \in 0 .. P |-> IF i = 0 THEN first ELSE Grown(kids, f[i - 1])]
Unfolds(P, N, first, kids, f) ==
  /\ f[0] = first
  /\ \A i \in 0 .. P : i < P /\ f[i] \subseteq N => f[i + 1] = Grown(kids, f[i])

(* The least set that holds the first ones and the children of its members. *)
Closure(N, first, kids, S) ==
  /\ S \subseteq N /\ first \subseteq S /\ Rooted(kids, S)
  /\ \A T \in SUBSET N : first \subseteq T /\ Rooted(kids, T) => S \subseteq T

LEMMA WaveExists ==
  ASSUME NEW N, NEW P \in Nat, NEW first \in SUBSET N, NEW kids \in [N -> SUBSET N]
  PROVE  \E f \in [0 .. P -> SUBSET N] : IsWave(P, first, kids, f)
<1> DEFINE Good(j, g) == /\ g[0] = first
                         /\ \A i \in 1 .. j : i <= P => g[i] = Grown(kids, g[i - 1])
           good == {j \in 0 .. P + 1 : \E g \in [0 .. P -> SUBSET N] : Good(j, g)}
<1>1. 0 \in good
  <2>1. [i \in 0 .. P |-> first] \in [0 .. P -> SUBSET N] /\ Good(0, [i \in 0 .. P |-> first])
    OBVIOUS
  <2> HIDE DEF Good
  <2>2. \E g \in [0 .. P -> SUBSET N] : Good(0, g)
    BY <2>1
  <2> QED BY <2>2
<1>2. ASSUME NEW j \in 0 .. P, j \in good PROVE j + 1 \in good
  <2>1. PICK g \in [0 .. P -> SUBSET N] : Good(j, g)
    BY <1>2
  <2>2. CASE j = P
    <3>1. \A i \in 1 .. j + 1 : i <= P => i \in 1 .. j
      BY <2>2
    <3>2. Good(j + 1, g)
      BY <2>1, <3>1
    <3> HIDE DEF Good
    <3> QED BY <3>2
  <2>3. CASE j < P
    <3>1. PICK more : more = Grown(kids, g[j])
      OBVIOUS
    <3>2. more \in SUBSET N
      <4>1. g[j] \in SUBSET N
        BY <2>3
      <4> QED BY <3>1, <4>1 DEF Grown
    <3> DEFINE h == [i \in 0 .. P |-> IF i = j + 1 THEN more ELSE g[i]]
    <3>3. h \in [0 .. P -> SUBSET N]
      BY <3>2
    <3>4. h[0] = first
      BY <2>1
    <3>5. ASSUME NEW i \in 1 .. j + 1, i <= P PROVE h[i] = Grown(kids, h[i - 1])
      <4>1. CASE i = j + 1
        <5>1. h[i] = more /\ i - 1 = j /\ h[j] = g[j]
          BY <2>3, <4>1
        <5> HIDE DEF h
        <5> QED BY <3>1, <4>1, <5>1
      <4>2. CASE i # j + 1
        <5>1. i \in 1 .. j /\ h[i] = g[i] /\ h[i - 1] = g[i - 1]
          BY <2>3, <4>2
        <5> HIDE DEF h
        <5> QED BY <2>1, <3>5, <5>1
      <4> QED BY <4>1, <4>2
    <3> HIDE DEF h
    <3>6. Good(j + 1, h)
      BY <3>4, <3>5
    <3> HIDE DEF Good
    <3>7. \E x \in [0 .. P -> SUBSET N] : Good(j + 1, x)
      BY <3>3, <3>6
    <3> QED BY <3>7
  <2>4. j = P \/ j < P
    OBVIOUS
  <2> HIDE DEF good
  <2> QED BY <2>2, <2>3, <2>4
<1>3. P \in good
  <2> HIDE DEF good
  <2>1. \A i \in 0 .. P : i \in good
    BY <1>1, <1>2, UpTo
  <2> QED BY <2>1
<1>4. PICK g \in [0 .. P -> SUBSET N] : Good(P, g)
  BY <1>3
<1>5. g = [i \in 0 .. P |-> IF i = 0 THEN first ELSE Grown(kids, g[i - 1])]
  <2>1. ASSUME NEW i \in 0 .. P
        PROVE  g[i] = IF i = 0 THEN first ELSE Grown(kids, g[i - 1])
    <3>1. i # 0 => i \in 1 .. P /\ i <= P
      OBVIOUS
    <3> QED BY <1>4, <3>1
  <2> QED BY <2>1
<1> QED BY <1>5 DEF IsWave

(* A wave stays among the nodes. *)
LEMMA WaveType ==
  ASSUME NEW N, NEW P \in Nat, NEW first \in SUBSET N, NEW kids \in [N -> SUBSET N], NEW f,
         Unfolds(P, N, first, kids, f)
  PROVE  \A i \in 0 .. P : f[i] \subseteq N
<1> USE DEF Unfolds
<1> DEFINE good == {i \in 0 .. P + 1 : i <= P => f[i] \subseteq N}
<1>1. 0 \in good
  OBVIOUS
<1>2. ASSUME NEW i \in 0 .. P, i \in good PROVE i + 1 \in good
  <2>1. CASE i < P
    <3>1. f[i] \subseteq N /\ f[i + 1] = Grown(kids, f[i])
      BY <1>2, <2>1
    <3>2. f[i + 1] \subseteq N
      BY <3>1 DEF Grown
    <3> QED BY <3>2
  <2> QED BY <2>1
<1>3. \A i \in 0 .. P : i \in good
  <2> HIDE DEF good
  <2> QED BY <1>1, <1>2, UpTo
<1> QED BY <1>3

(* In the end it holds the children of all its members, and no more than   *)
(* it must.                                                                *)
LEMMA WaveEnds ==
  ASSUME NEW N, IsFiniteSet(N), NEW P \in Nat, Cardinality(N) <= P, NEW first \in SUBSET N,
         NEW kids \in [N -> SUBSET N], NEW f,
         Unfolds(P, N, first, kids, f)
  PROVE  Closure(N, first, kids, f[P])
<1> USE DEF Unfolds
<1>1. \A i \in 0 .. P : f[i] \subseteq N
  BY WaveType
<1>2. \A i \in 0 .. P : i < P => f[i + 1] = Grown(kids, f[i])
  BY <1>1
<1>3. ASSUME NEW i \in 0 .. P
      PROVE  IsFiniteSet(f[i]) /\ Cardinality(f[i]) \in Nat /\ Cardinality(f[i]) <= P
  <2>1. f[i] \subseteq N
    BY <1>1
  <2>2. IsFiniteSet(f[i]) /\ Cardinality(f[i]) <= Cardinality(N)
    BY <2>1, FS_Subset
  <2> QED BY <2>2, FS_CardinalityType
<1>4. first \subseteq f[P]
  <2> DEFINE good == {i \in 0 .. P + 1 : i <= P => first \subseteq f[i]}
  <2>1. 0 \in good
    OBVIOUS
  <2>2. ASSUME NEW i \in 0 .. P, i \in good PROVE i + 1 \in good
    <3>1. i < P => f[i + 1] = Grown(kids, f[i]) /\ first \subseteq f[i]
      BY <1>2, <2>2
    <3>2. i < P => first \subseteq f[i + 1]
      BY <3>1 DEF Grown
    <3> QED BY <3>2
  <2>3. \A i \in 0 .. P : i \in good
    <3> HIDE DEF good
    <3> QED BY <2>1, <2>2, UpTo
  <2> QED BY <2>3
<1>5. Rooted(kids, f[P])
  <2> DEFINE good == {i \in 0 .. P + 1 : i <= P => Rooted(kids, f[i]) \/ Cardinality(f[i]) >= i + 1}
  <2>1. 0 \in good
    <3>1. CASE first = {}
      BY <3>1 DEF Rooted
    <3>2. CASE first # {}
      <4>1. Cardinality(f[0]) # 0
        BY <1>3, <3>2, FS_EmptySet
      <4> QED BY <1>3, <4>1
    <3> QED BY <3>1, <3>2
  <2>2. ASSUME NEW i \in 0 .. P, i \in good PROVE i + 1 \in good
    <3>1. SUFFICES ASSUME i < P PROVE Rooted(kids, f[i + 1]) \/ Cardinality(f[i + 1]) >= i + 2
      OBVIOUS
    <3>2. f[i + 1] = Grown(kids, f[i]) /\ i + 1 \in 0 .. P
      BY <1>2, <3>1
    <3>3. CASE Rooted(kids, f[i])
      <4>1. f[i + 1] = f[i]
        BY <3>2, <3>3 DEF Rooted, Grown
      <4> QED BY <3>3, <4>1
    <3>4. CASE ~ Rooted(kids, f[i])
      <4>1. Cardinality(f[i]) >= i + 1
        BY <2>2, <3>1, <3>4
      <4>2. f[i] \subseteq f[i + 1] /\ f[i] # f[i + 1]
        BY <3>2, <3>4 DEF Rooted, Grown
      <4>3. Cardinality(f[i]) <= Cardinality(f[i + 1]) /\ (Cardinality(f[i]) = Cardinality(f[i + 1]) => f[i] = f[i + 1])
        BY <1>3, <3>2, <4>2, FS_Subset
      <4>4. Cardinality(f[i]) \in Nat /\ Cardinality(f[i + 1]) \in Nat
        BY <1>3, <3>2
      <4> QED BY <4>1, <4>2, <4>3, <4>4
    <3> QED BY <3>3, <3>4
  <2>3. \A i \in 0 .. P : i \in good
    <3> HIDE DEF good
    <3> QED BY <2>1, <2>2, UpTo
  <2>4. Rooted(kids, f[P]) \/ Cardinality(f[P]) >= P + 1
    BY <2>3
  <2> QED BY <1>3, <2>4
<1>6. ASSUME NEW T \in SUBSET N, first \subseteq T, Rooted(kids, T)
      PROVE  f[P] \subseteq T
  <2> DEFINE good == {i \in 0 .. P + 1 : i <= P => f[i] \subseteq T}
  <2>1. 0 \in good
    BY <1>6
  <2>2. ASSUME NEW i \in 0 .. P, i \in good PROVE i + 1 \in good
    <3>1. i < P => f[i + 1] = Grown(kids, f[i]) /\ f[i] \subseteq T
      BY <1>2, <2>2
    <3>2. i < P => f[i + 1] \subseteq T
      BY <1>6, <3>1 DEF Grown, Rooted
    <3> QED BY <3>2
  <2>3. \A i \in 0 .. P : i \in good
    <3> HIDE DEF good
    <3> QED BY <2>1, <2>2, UpTo
  <2> QED BY <2>3
<1>7. f[P] \subseteq N
  BY <1>1
<1> QED BY <1>4, <1>5, <1>6, <1>7 DEF Closure

LEMMA NodesFinite ==
  ASSUME TypeOK
  PROVE  IsFiniteSet(Node) /\ Cardinality(Node) = conf.P /\ conf.P \in Nat /\ 0 \in Node
<1>1. conf.P \in Nat \ {0}
  BY CollectiveType
<1>2. PICK k \in Int : k = conf.P - 1 /\ k >= 0
  BY <1>1
<1>3. IsFiniteSet(0 .. k) /\ Cardinality(0 .. k) = IF 0 > k THEN 0 ELSE (k - 0) + 1
  BY FS_Interval
<1> QED BY <1>1, <1>2, <1>3 DEF Node

LEMMA ChildrenType ==
  ASSUME TypeOK, NEW n \in Node
  PROVE  ChildrenOf(n) \subseteq Node /\ 0 \notin ChildrenOf(n) /\ n \notin ChildrenOf(n)
<1>1. conf.receivers[n] \in Seq(Node) /\ \A i \in DOMAIN conf.receivers[n] : conf.receivers[n][i] \notin {0, n}
  BY CollectiveType DEF IsCollective, Node
<1> QED BY <1>1 DEF ChildrenOf

(* The nodes below n, and n: the least set that holds n and, with every    *)
(* node, its children.                                                     *)
LEMMA SubtreeIs ==
  ASSUME TypeOK, NEW n \in Node
  PROVE  /\ Subtree(n) \subseteq Node /\ n \in Subtree(n)
         /\ \A m \in Subtree(n) : ChildrenOf(m) \subseteq Subtree(n)
         /\ \A T \in SUBSET Node : n \in T /\ (\A m \in T : ChildrenOf(m) \subseteq T) => Subtree(n) \subseteq T
<1>1. PICK P \in Nat : P = conf.P /\ 0 \in 0 .. P
  BY NodesFinite
<1>14. PICK N : N = Node
  OBVIOUS
<1>2. PICK kids : kids = [m \in N |-> ChildrenOf(m)] /\ kids \in [N -> SUBSET N]
  <2>1. [m \in N |-> ChildrenOf(m)] \in [N -> SUBSET N]
    BY <1>14, ChildrenType
  <2> QED BY <2>1
<1>3. PICK first \in SUBSET N : first = {n}
  BY <1>14
<1>4. IsFiniteSet(N) /\ Cardinality(N) <= P
  BY <1>1, <1>14, NodesFinite
<1> DEFINE Wave(f) == [i \in 0 .. P |-> IF i = 0 THEN {n} ELSE f[i - 1] \cup UNION {ChildrenOf(m) : m \in f[i - 1]}]
<1>5. \A S \in SUBSET N : S \cup UNION {ChildrenOf(m) : m \in S} = Grown(kids, S)
  BY <1>2 DEF Grown
<1>6. \E f : f = Wave(f)
  <2>1. PICK f \in [0 .. P -> SUBSET N] : IsWave(P, first, kids, f)
    BY <1>2, WaveExists
  <2>2. ASSUME NEW i \in 0 .. P
        PROVE  (IF i = 0 THEN first ELSE Grown(kids, f[i - 1]))
                 = IF i = 0 THEN {n} ELSE f[i - 1] \cup UNION {ChildrenOf(m) : m \in f[i - 1]}
    <3>1. i # 0 => f[i - 1] \in SUBSET N
      OBVIOUS
    <3> QED BY <1>3, <1>5, <3>1
  <2>3. [i \in 0 .. P |-> IF i = 0 THEN first ELSE Grown(kids, f[i - 1])] = Wave(f)
    BY <2>2
  <2> QED BY <2>1, <2>3, Zenon DEF IsWave
<1>7. PICK f : f = Wave(f) /\ Subtree(n) = f[P]
  <2>1. Subtree(n) = (CHOOSE f : f = Wave(f))[P]
    BY <1>1, Zenon DEF Subtree
  <2> HIDE DEF Wave
  <2> QED BY <1>6, <2>1, Zenon
<1>8. Unfolds(P, N, first, kids, f)
  <2>1. \A i \in 0 .. P : f[i] = IF i = 0 THEN {n} ELSE f[i - 1] \cup UNION {ChildrenOf(m) : m \in f[i - 1]}
    BY <1>7, Zenon
  <2>2. f[0] = first
    BY <1>1, <1>3, <2>1, Zenon
  <2>3. ASSUME NEW i \in 0 .. P, i < P, f[i] \subseteq N
        PROVE  f[i + 1] = Grown(kids, f[i])
    <3>1. i + 1 \in 0 .. P /\ i + 1 # 0 /\ (i + 1) - 1 = i
      BY <2>3
    <3>2. f[i + 1] = f[i] \cup UNION {ChildrenOf(m) : m \in f[i]}
      BY <2>1, <3>1
    <3> QED BY <1>5, <2>3, <3>2
  <2> QED BY <2>2, <2>3 DEF Unfolds
<1>9. /\ f[P] \subseteq N /\ first \subseteq f[P] /\ Rooted(kids, f[P])
      /\ \A T \in SUBSET N : first \subseteq T /\ Rooted(kids, T) => f[P] \subseteq T
  <2>1. Closure(N, first, kids, f[P])
    BY <1>2, <1>4, <1>8, WaveEnds
  <2> QED BY <2>1 DEF Closure
<1>10. \A T \in SUBSET N : Rooted(kids, T) <=> \A m \in T : ChildrenOf(m) \subseteq T
  BY <1>2 DEF Rooted
<1>11. Subtree(n) \in SUBSET N
  BY <1>7, <1>9
<1>12. \A m \in Subtree(n) : ChildrenOf(m) \subseteq Subtree(n)
  BY <1>7, <1>9, <1>10, <1>11
<1> QED BY <1>14, <1>3, <1>7, <1>9, <1>10, <1>11, <1>12

(* The live nodes with live ancestors only. *)
LEMMA TreeReachedIs ==
  ASSUME TypeOK
  PROVE  /\ TreeReached \subseteq Live /\ (0 \in Live => 0 \in TreeReached)
         /\ \A m \in TreeReached : ChildrenOf(m) \cap Live \subseteq TreeReached
         /\ \A T \in SUBSET Live : (0 \in Live => 0 \in T) /\ (\A m \in T : ChildrenOf(m) \cap Live \subseteq T)
                                     => TreeReached \subseteq T
<1>1. PICK P \in Nat : P = conf.P /\ 0 \in 0 .. P
  BY NodesFinite
<1>14. PICK N : N = Live
  OBVIOUS
<1>2. PICK kids : kids = [m \in N |-> ChildrenOf(m) \cap Live] /\ kids \in [N -> SUBSET N]
  <2>1. [m \in N |-> ChildrenOf(m) \cap Live] \in [N -> SUBSET N]
    BY <1>14
  <2> QED BY <2>1
<1>3. PICK first \in SUBSET N : first = {0} \cap Live
  BY <1>14
<1>4. IsFiniteSet(N) /\ Cardinality(N) <= P
  <2>1. Live \subseteq Node
    BY DEF Live
  <2>2. IsFiniteSet(Live) /\ Cardinality(Live) <= Cardinality(Node)
    BY <2>1, NodesFinite, FS_Subset
  <2> QED BY <1>1, <1>14, <2>2, NodesFinite
<1> DEFINE Wave(f) == [i \in 0 .. P |-> IF i = 0 THEN {0} \cap Live ELSE f[i - 1] \cup (Sprouts(f[i - 1]) \cap Live)]
<1>5. \A S \in SUBSET N : S \cup (Sprouts(S) \cap Live) = Grown(kids, S)
  <2>1. ASSUME NEW S \in SUBSET N
        PROVE  S \cup (Sprouts(S) \cap Live) = Grown(kids, S)
    <3>1. Sprouts(S) = UNION {ChildrenOf(m) : m \in S}
      BY DEF Sprouts, ChildrenOf
    <3>2. \A m \in S : kids[m] = ChildrenOf(m) \cap Live
      BY <1>2
    <3> QED BY <3>1, <3>2 DEF Grown
  <2> QED BY <2>1
<1>6. \E f : f = Wave(f)
  <2>1. PICK f \in [0 .. P -> SUBSET N] : IsWave(P, first, kids, f)
    BY <1>2, WaveExists
  <2>2. ASSUME NEW i \in 0 .. P
        PROVE  (IF i = 0 THEN first ELSE Grown(kids, f[i - 1]))
                 = IF i = 0 THEN {0} \cap Live ELSE f[i - 1] \cup (Sprouts(f[i - 1]) \cap Live)
    <3>1. i # 0 => f[i - 1] \in SUBSET N
      OBVIOUS
    <3> QED BY <1>3, <1>5, <3>1
  <2>3. [i \in 0 .. P |-> IF i = 0 THEN first ELSE Grown(kids, f[i - 1])] = Wave(f)
    BY <2>2
  <2> QED BY <2>1, <2>3, Zenon DEF IsWave
<1>7. PICK f : f = Wave(f) /\ TreeReached = f[P]
  <2>1. TreeReached = (CHOOSE f : f = Wave(f))[P]
    BY <1>1, Zenon DEF TreeReached
  <2> HIDE DEF Wave
  <2> QED BY <1>6, <2>1, Zenon
<1>8. Unfolds(P, N, first, kids, f)
  <2>1. \A i \in 0 .. P : f[i] = IF i = 0 THEN {0} \cap Live ELSE f[i - 1] \cup (Sprouts(f[i - 1]) \cap Live)
    BY <1>7, Zenon
  <2>2. f[0] = first
    BY <1>1, <1>3, <2>1, Zenon
  <2>3. ASSUME NEW i \in 0 .. P, i < P, f[i] \subseteq N
        PROVE  f[i + 1] = Grown(kids, f[i])
    <3>1. i + 1 \in 0 .. P /\ i + 1 # 0 /\ (i + 1) - 1 = i
      BY <2>3
    <3>2. f[i + 1] = f[i] \cup (Sprouts(f[i]) \cap Live)
      BY <2>1, <3>1
    <3> QED BY <1>5, <2>3, <3>2
  <2> QED BY <2>2, <2>3 DEF Unfolds
<1>9. /\ f[P] \subseteq N /\ first \subseteq f[P] /\ Rooted(kids, f[P])
      /\ \A T \in SUBSET N : first \subseteq T /\ Rooted(kids, T) => f[P] \subseteq T
  <2>1. Closure(N, first, kids, f[P])
    BY <1>2, <1>4, <1>8, WaveEnds
  <2> QED BY <2>1 DEF Closure
<1>10. \A T \in SUBSET N : Rooted(kids, T) <=> \A m \in T : ChildrenOf(m) \cap Live \subseteq T
  BY <1>2 DEF Rooted
<1>11. TreeReached \in SUBSET N
  BY <1>7, <1>9
<1>12. \A m \in TreeReached : ChildrenOf(m) \cap Live \subseteq TreeReached
  BY <1>7, <1>9, <1>10, <1>11
<1> QED BY <1>14, <1>3, <1>7, <1>9, <1>10, <1>11, <1>12

-----------------------------------------------------------------------------
(***************************************************************************)
(* A step of the loop in which task t is popped, seen from the node n that *)
(* hears of it: it asks for tasks, and at most moves on.  Nobody may hear  *)
(* of t; then n stays as it is.                                            *)
(***************************************************************************)
Turn(t, n, at, draw, asked) ==
  /\ n \in Node /\ at \in Nat /\ draw \in Node /\ Heap(t, asked) /\ RootBegins(n, t)
  /\ \A m \in Node : m # n => local'[m] = local[m]
  /\ \A r \in asked : r.type \in {"SendStart", "Timer", "Init", "Idle", "Finish"} /\ r.sender = n
  /\ asked # {} => n \in Live
  /\ t.type = "RecvEnd" => n = t.receiver /\ n \in Live
  /\ \A m \in Node : m \in Reached' <=> m \in Reached \/ (m = n /\ t.type = "RecvEnd")
  /\ \A m \in done' : m \in done \/ (m = n /\ local'[m].cur > Last)
  /\ \/ Steady(n, t, asked)
     \/ n \in Live /\ \E inner : /\ inner = PhaseDispatch(conf.phases[local[n].cur], n, local[n], t, at, draw)
                                 /\ Moves(n, t, at, asked, inner)

LEMMA StepTurns ==
  ASSUME TypeOK, LocalOK, StartUp, Senders, OneWait, [CNext]_vars
  PROVE  Rests \/ \E t \in Upcoming : \E n, at, draw, asked : Turn(t, n, at, draw, asked)
<1>1. conf' = conf /\ Node' = Node
  <2>1. conf' = conf
    BY StepLocal
  <2> QED BY <2>1 DEF Node
<1>2. ASSUME NEW t \in Upcoming, Passes(t), Heap(t, {}), UNCHANGED cvars
      PROVE  \E n, at, draw, asked : Turn(t, n, at, draw, asked)
  <2>1. PICK n : n = NotifiedNode(t) /\ n \in Node
    BY UpcomingType
  <2>2. PICK asked : asked = {} /\ Heap(t, asked)
    BY <1>2
  <2>3. local' = local /\ t.type \notin {"RecvEnd", "Init"}
    BY <1>2 DEF cvars, Passes, DelaySend, DelayRecv, Msg, Failure
  <2>4. Reached' = Reached
    BY <1>1, <2>3 DEF Reached
  <2>5. Steady(n, t, asked) /\ RootBegins(n, t)
    BY <2>2, <2>3 DEF Steady, RootBegins
  <2>6. PICK at \in Nat : at = 0
    OBVIOUS
  <2>7. done' = done
    BY <1>2 DEF cvars
  <2>8. Turn(t, n, at, n, asked)
    BY <2>1, <2>2, <2>3, <2>4, <2>5, <2>7 DEF Turn
  <2> QED BY <2>8
<1>3. ASSUME NEW t \in Upcoming, NEW draw \in Draws(NotifiedNode(t), t), NEW out,
             RootBegins(NotifiedNode(t), t), t.type \in DOMAIN Priority \ {"Msg", "Failure"},
             Answers(t, NotifiedNode(t), draw, out)
      PROVE  \E n, at, d, asked : Turn(t, n, at, d, asked)
  <2>1. PICK n : n = NotifiedNode(t) /\ AnswerOf(t, n, out)
    BY <1>1, <1>3, AnswerIs
  <2>2. /\ out = CombinerDispatch(n, t, Clock(t), draw) /\ draw \in Draws(n, t)
        /\ RootBegins(n, t) /\ draw \in Node /\ n \in Node
    BY <1>3, <2>1, UpcomingType DEF Answers, Draws
  <2>3. PICK at \in Nat : \E asked :
          /\ Hears(n, t, at, asked)
          /\ \/ Steady(n, t, asked)
             \/ \E inner : /\ inner = PhaseDispatch(conf.phases[local[n].cur], n, local[n], t, at, draw)
                           /\ Moves(n, t, at, asked, inner)
    BY <1>1, <2>1, <2>2, AnswerParts
  <2>4. PICK asked :
          /\ Hears(n, t, at, asked)
          /\ \/ Steady(n, t, asked)
             \/ \E inner : /\ inner = PhaseDispatch(conf.phases[local[n].cur], n, local[n], t, at, draw)
                           /\ Moves(n, t, at, asked, inner)
    BY <2>3
  <2>5. \A r \in asked : r.type \in {"SendStart", "Timer", "Init", "Idle", "Finish"} /\ r.sender = n
    BY <2>4, AnswerAsks DEF Hears
  <2>6. n \in Live /\ \A m \in Node : m \in Reached' <=> m \in Reached \/ (m = n /\ t.type = "RecvEnd")
    <3>1. /\ Reached' = (IF out.s.reached THEN Reached \cup {n} ELSE Reached)
          /\ t.type = "RecvEnd" => out.s.reached
          /\ t.type # "RecvEnd" => Reached' = Reached
          /\ n \in Live
      BY <2>1 DEF AnswerOf
    <3> QED BY <2>2, <3>1
  <2>7. t.type = "RecvEnd" => n = t.receiver
    BY <2>1 DEF NotifiedNode
  <2>8. ASSUME NEW m \in done' PROVE m \in done \/ (m = n /\ local'[m].cur > Last)
    <3>1. /\ local' = [local EXCEPT ![n] = out.s]
          /\ done' = IF Finishing(n, out) THEN done \cup {n} ELSE done
      BY <2>1 DEF AnswerOf, Follow
    <3>2. local'[n] = out.s
      BY <2>2, <3>1 DEF LocalOK
    <3>3. Finishing(n, out) => out.s.cur > Last
      BY <2>2, UpcomingType, DoneAfter
    <3> QED BY <3>1, <3>2, <3>3
  <2>9. Turn(t, n, at, draw, asked)
    BY <2>2, <2>4, <2>5, <2>6, <2>7, <2>8 DEF Turn, Hears
  <2> QED BY <2>9
<1> QED BY <1>2, <1>3, StepCases

(* What such a step leaves alone, and how far it takes the nodes. *)
LEMMA TurnKeeps ==
  ASSUME TypeOK, LocalOK, LocalOK', Senders, conf' = conf, NEW t \in Upcoming, NEW n, NEW at, NEW draw, NEW asked,
         Turn(t, n, at, draw, asked)
  PROVE  /\ Last' = Last /\ Node' = Node /\ Live' = Live /\ Reached \subseteq Reached' /\ Headed \subseteq Headed'
         /\ \A m : ChildrenOf(m)' = ChildrenOf(m)
         /\ \A m \in Node : local[m] \in State /\ local'[m] \in State /\ local'[m].cur >= local[m].cur
         /\ \A r \in asked : r.type = "SendStart" /\ r.receiver \in Node => r.receiver \in Headed'
<1>1. /\ Last' = Last /\ Node' = Node /\ Live' = Live /\ \A m : ChildrenOf(m)' = ChildrenOf(m)
  BY DEF Last, Node, Live, ChildrenOf
<1>2. \A m \in Node : local[m] \in State /\ local'[m] \in State
  BY <1>1 DEF LocalOK
<1>3. Reached \subseteq Reached' /\ (t.type = "RecvEnd" => t.receiver \in Reached')
  BY DEF Turn, Reached
<1>4. Headed \subseteq Headed'
  BY <1>3, HeadedStays DEF Turn
<1>5. \A r \in asked : r.type = "SendStart" /\ r.receiver \in Node => r.receiver \in Headed'
  BY TargetsHeaded DEF Turn
<1>6. ASSUME NEW m \in Node PROVE local'[m].cur >= local[m].cur
  <2>1. local[m].cur \in Nat /\ Last \in Nat
    BY PhasesType DEF LocalOK
  <2>2. CASE m # n \/ Steady(n, t, asked)
    BY <2>1, <2>2 DEF Turn, Steady
  <2>3. ASSUME NEW inner, Moves(n, t, at, asked, inner), m = n
        PROVE  local'[m].cur >= local[m].cur
    BY <2>1, <2>3 DEF Moves, NextPhase
  <2> QED BY <2>2, <2>3 DEF Turn
<1> QED BY <1>1, <1>2, <1>3, <1>4, <1>5, <1>6

-----------------------------------------------------------------------------
(***************************************************************************)
(* Behind a tree.  Whoever is past a tree nobody waits in has been reached *)
(* and has sent to all its children, and on each of them a message is on   *)
(* its way, has arrived, or was lost because the child has failed.         *)
(***************************************************************************)
PlainAt(i) == conf.phases[i].kind = "Tree" /\ ~ conf.phases[i].exclusive

Spread ==
  \A i \in 1 .. Last : PlainAt(i) =>
    \A n \in Live : local[n].cur > i => n \in Reached /\ ChildrenOf(n) \subseteq Headed

SpreadInv == FirstReached \subseteq Reached /\ Spread /\ DoneOver

LEMMA TreeLeaves ==
  ASSUME NEW ph, ph.kind = "Tree", ~ ph.exclusive, NEW n, NEW s, NEW t, NEW at, NEW draw, NEW out,
         out = PhaseDispatch(ph, n, s, t, at, draw), out.res # "ONGOING"
  PROVE  out.reqs = PostSends(conf, n, at) /\ out.s.reached
<1>1. out = TreeDispatch(conf, ph, n, s, t, at)
  BY DEF PhaseDispatch, PlainDispatch
<1>2. CASE t.type = "Init"
  <2>1. out = TreeInit(conf, n, s, at)
    BY <1>1, <1>2 DEF TreeDispatch
  <2>2. s.reached
    BY <2>1 DEF TreeInit, Ongoing, Outcome
  <2> QED BY <2>1, <2>2 DEF TreeInit, Outcome
<1>3. CASE t.type = "RecvEnd"
  <2>1. out = TreeRecvEnd(conf, ph, n, s, t, at)
    BY <1>1, <1>3 DEF TreeDispatch
  <2>2. out.reqs = PostSends(conf, n, at) /\ out.s = [s EXCEPT !.reached = TRUE]
    BY <2>1 DEF TreeRecvEnd, Outcome
  <2> QED BY <2>2
<1>4. CASE t.type \notin {"Init", "RecvEnd"}
  BY <1>1, <1>4 DEF TreeDispatch, Ongoing, Outcome
<1> QED BY <1>2, <1>3, <1>4

LEMMA ChildrenPosted ==
  ASSUME NEW n, NEW at, NEW m \in ChildrenOf(n)
  PROVE  \E r \in RangeOf(PostSends(conf, n, at)) : r.type = "SendStart" /\ r.receiver = m
<1>1. PICK i \in DOMAIN conf.receivers[n] : m = conf.receivers[n][i]
  BY DEF ChildrenOf
<1>2. PICK reqs : reqs = PostSends(conf, n, at)
  OBVIOUS
<1>3. i \in DOMAIN reqs /\ reqs[i] = SendRequest("TREE", at, n, m)
  BY <1>1, <1>2 DEF PostSends
<1>4. reqs[i] \in RangeOf(reqs)
  BY <1>3 DEF RangeOf
<1> QED BY <1>2, <1>3, <1>4 DEF SendRequest

LEMMA InitSpread ==
  ASSUME NEW first \in Nat, CStart(first)
  PROVE  SpreadInv
<1>1. TypeOK /\ LocalOK /\ done = {}
  BY StartCInv DEF CStart, CInv, IInv
<1>2. ASSUME NEW n \in Node PROVE (n \in FirstReached => local[n].reached) /\ local[n].cur = 1
  <2>1. local[n] = InitialState(n \in FirstReached, Len(conf.receivers[n]))
    BY DEF CStart
  <2>2. PICK is, k : is = (n \in FirstReached) /\ k = Len(conf.receivers[n])
    OBVIOUS
  <2>3. local[n] = InitialState(is, k) /\ (n \in FirstReached => is = TRUE)
    BY <2>1, <2>2
  <2>4. local[n].reached = is /\ local[n].cur = 1
    BY <2>3 DEF InitialState
  <2> QED BY <2>3, <2>4, Zenon
<1>3. FirstReached \subseteq Node
  BY <1>1, NodesFinite DEF FirstReached
<1>4. FirstReached \subseteq Reached
  BY <1>2, <1>3 DEF Reached
<1>5. \A n \in Live : local[n].cur = 1
  BY <1>2 DEF Live
<1>6. Spread
  BY <1>1, <1>5, PhasesType DEF Spread
<1> QED BY <1>1, <1>4, <1>6 DEF SpreadInv, DoneOver

LEMMA StepSpread ==
  ASSUME TypeOK, LocalOK, LocalOK', StartUp, Senders, OneWait, SpreadInv, [CNext]_vars
  PROVE  SpreadInv'
<1>1. conf' = conf
  BY StepLocal
<1>2. FirstReached' = FirstReached
  BY <1>1 DEF FirstReached, Last, Node
<1>3. CASE Rests
  <2>1. Reached' = Reached /\ Headed' = Headed /\ Live' = Live /\ Last' = Last /\ local' = local /\ done' = done
        /\ \A m : ChildrenOf(m)' = ChildrenOf(m)
    BY <1>3 DEF Rests, cvars, Reached, Node, Headed, Toward, Live, Last, ChildrenOf
  <2> QED BY <1>1, <1>2, <2>1 DEF SpreadInv, Spread, DoneOver, PlainAt
<1>4. ASSUME NEW t \in Upcoming, NEW n, NEW at, NEW draw, NEW asked, Turn(t, n, at, draw, asked)
      PROVE  SpreadInv'
  <2>1. /\ Last' = Last /\ Node' = Node /\ Live' = Live /\ Reached \subseteq Reached' /\ Headed \subseteq Headed'
        /\ \A m : ChildrenOf(m)' = ChildrenOf(m)
        /\ \A m \in Node : local[m] \in State /\ local'[m] \in State /\ local'[m].cur >= local[m].cur
        /\ \A r \in asked : r.type = "SendStart" /\ r.receiver \in Node => r.receiver \in Headed'
    BY <1>1, <1>4, TurnKeeps
  <2>2. Last \in Nat /\ \A m \in Node : local[m].cur \in Nat /\ local'[m].cur \in Nat
    BY <2>1, PhasesType DEF LocalOK
  <2>3. ASSUME NEW i \in 1 .. Last, PlainAt(i), NEW m \in Live, local'[m].cur > i, ~ (local[m].cur > i)
        PROVE  m \in Reached' /\ ChildrenOf(m) \subseteq Headed'
    <3>1. m = n /\ m \in Node
      BY <1>4, <2>3 DEF Turn, Live
    <3>2. PICK inner : /\ inner = PhaseDispatch(conf.phases[local[n].cur], n, local[n], t, at, draw)
                       /\ Moves(n, t, at, asked, inner)
      BY <1>4, <2>3, <3>1 DEF Turn, Steady
    <3>3. local[n].cur \in 1 .. i /\ local'[n].cur = NextPhase(local[n].cur, inner.res)
      <4>1. local[n].cur \in 1 .. Last /\ local'[n].cur = NextPhase(local[n].cur, inner.res)
        BY <3>2 DEF Moves
      <4> QED BY <2>2, <2>3, <3>1, <4>1
    <3>4. CASE local[n].cur < i
      <4>1. PICK ph : ph = conf.phases[local[n].cur] /\ ph.kind \in {"DepInit", "ReductionDepInit"} /\ ~ ph.exclusive
        <5>1. PICK ph : ph = conf.phases[local[n].cur] /\ ph.kind \in Kinds /\ Stage[ph.kind] < Stage["Tree"]
                        /\ (ph.exclusive => ph.kind = "Tree")
          <6>1. local[n].cur \in 1 .. i - 1 /\ local[n].cur \in 1 .. Last
            BY <3>3, <3>4, <2>2
          <6> QED BY <2>3, <6>1, PhaseOrder, PhasesType DEF PlainAt
        <5>2. ph.kind \in {"DepInit", "ReductionDepInit"}
          BY <5>1 DEF Stage, Kinds
        <5> QED BY <5>1, <5>2
      <4>2. inner = DepInitDispatch(local[n], t)
        BY <3>2, <4>1 DEF PhaseDispatch, PlainDispatch
      <4>3. inner.res \in {"ONGOING", "DONE_PHASE"}
        BY <4>2 DEF DepInitDispatch, Outcome, Ongoing
      <4>4. local'[n].cur <= local[n].cur + 1
        BY <2>2, <3>1, <3>3, <4>3 DEF NextPhase
      <4> QED BY <2>2, <2>3, <3>1, <3>4, <4>4
    <3>5. CASE local[n].cur = i
      <4>1. inner.res # "ONGOING"
        BY <2>2, <2>3, <3>1, <3>3, <3>5 DEF NextPhase
      <4>2. inner.reqs = PostSends(conf, n, at) /\ inner.s.reached
        <5>1. PICK ph : ph = conf.phases[i]
          OBVIOUS
        <5> QED BY <2>3, <3>2, <3>5, <4>1, <5>1, TreeLeaves DEF PlainAt
      <4>3. m \in Reached'
        BY <2>1, <3>1, <3>2, <4>2 DEF Moves, Reached
      <4>4. ASSUME NEW c \in ChildrenOf(m) PROVE c \in Headed'
        <5>1. c \in Node
          BY <3>1, ChildrenType
        <5>2. PICK r \in RangeOf(inner.reqs) : r.type = "SendStart" /\ r.receiver = c
          BY <3>1, <4>2, ChildrenPosted
        <5>3. r \in asked
          BY <3>2, <5>2 DEF Moves
        <5> QED BY <2>1, <5>1, <5>2, <5>3
      <4> QED BY <4>3, <4>4
    <3> QED BY <2>2, <3>1, <3>3, <3>4, <3>5
  <2>4. Spread'
    <3>1. ASSUME NEW i \in 1 .. Last, PlainAt(i), NEW m \in Live, local'[m].cur > i
          PROVE  m \in Reached' /\ ChildrenOf(m) \subseteq Headed'
      BY <2>1, <2>3, <3>1 DEF SpreadInv, Spread
    <3>2. \A i : PlainAt(i)' <=> PlainAt(i)
      BY <1>1 DEF PlainAt
    <3>3. \A i \in 1 .. Last' : PlainAt(i)' =>
            \A m \in Live' : local'[m].cur > i => m \in Reached' /\ ChildrenOf(m)' \subseteq Headed'
      BY <2>1, <3>1, <3>2
    <3> QED BY <3>3 DEF Spread
  <2>5. DoneOver'
    <3>1. ASSUME NEW m \in done' PROVE local'[m].cur > Last'
      <4>1. m \in Node
        BY <2>1 DEF LocalOK
      <4>2. m \in done => local[m].cur > Last
        BY DEF SpreadInv, DoneOver
      <4>3. m \in done \/ local'[m].cur > Last
        BY <1>4, <3>1 DEF Turn
      <4> QED BY <2>1, <2>2, <4>1, <4>2, <4>3
    <3> QED BY <3>1 DEF DoneOver
  <2> QED BY <1>2, <2>1, <2>4, <2>5 DEF SpreadInv
<1> QED BY <1>3, <1>4, StepTurns

LEMMA SpreadInvariant == RepeatedSpec => [](CompInv /\ SpreadInv)
<1>1. CStarted => SpreadInv
  BY InitSpread DEF CStarted
<1>2. CompInv /\ SpreadInv /\ [CNext]_vars => SpreadInv'
  <2> SUFFICES ASSUME CompInv, SpreadInv, [CNext]_vars PROVE SpreadInv'
    OBVIOUS
  <2>1. TypeOK /\ LocalOK /\ StartUp /\ Senders /\ OneWait
    BY DEF CompInv, CInv, IInv
  <2>2. LocalOK'
    BY <2>1, StepLocal
  <2> QED BY <2>1, <2>2, StepSpread
<1> QED BY <1>1, <1>2, CompletionInvariant, PTL DEF RepeatedSpec

(* In the end a tree has reached everybody with live ancestors only: no    *)
(* message is underway, and nobody who was reached waits before the tree.  *)
LEMMA TreeIsReached ==
  ASSUME CompInv, SpreadInv, status = "done", NEW i \in 1 .. Last, PlainAt(i), 0 \in Live => 0 \in Reached
  PROVE  TreeReached \subseteq Reached \cap Live
<1>1. TypeOK /\ LocalOK /\ queue = {} /\ \A n \in Node : ~ pending[n]
  BY DEF CompInv, CInv, IInv, Counted
<1>2. ASSUME NEW n \in Reached \cap Live PROVE local[n].cur > i
  <2>1. n \in Node /\ local[n].cur \in Nat /\ Last \in Nat
    BY <1>1, PhasesType DEF Live, LocalOK
  <2>2. CASE n \in done
    BY <2>1, <2>2 DEF SpreadInv, DoneOver
  <2>3. CASE n \notin done
    <3>1. PICK ph : ph = conf.phases[local[n].cur]
      OBVIOUS
    <3>2. local[n].cur <= Last /\ (ph.kind # "Gather" => Cued(n, ph))
      BY <2>3, <3>1 DEF CompInv, Guided, Guide
    <3>3. ph.kind = "Gather"
      BY <1>1, <2>1, <3>2 DEF Cued
    <3>4. local[n].cur \in 1 .. Last
      BY <2>1, <3>2 DEF LocalOK, CompInv, CInv
    <3>5. local[n].cur = Last /\ i # Last
      <4>1. conf.phases[local[n].cur].kind # conf.phases[i].kind
        BY <3>1, <3>3 DEF PlainAt
      <4>2. local[n].cur = Last
        BY <1>1, <3>1, <3>3, <3>4, PhaseOrder
      <4> QED BY <4>1, <4>2
    <3> QED BY <2>1, <3>5
  <2> QED BY <2>2, <2>3
<1>3. ASSUME NEW n \in Reached \cap Live PROVE ChildrenOf(n) \cap Live \subseteq Reached \cap Live
  <2>1. ChildrenOf(n) \subseteq Headed
    BY <1>2 DEF SpreadInv, Spread
  <2> QED BY <1>1, <2>1 DEF Headed, Toward, Live
<1>4. Reached \cap Live \in SUBSET Live /\ (0 \in Live => 0 \in Reached \cap Live)
  OBVIOUS
<1> QED BY <1>1, <1>3, <1>4, TreeReachedIs

(***************************************************************************)
(* And nobody else, if there is nothing but the tree: messages are sent to *)
(* children only.                                                          *)
(***************************************************************************)
TreesOnly == \A i \in 1 .. Last : conf.phases[i].kind \in {"DepInit", "Tree"}

OnlyBelow ==
  /\ Reached \cap Live \subseteq TreeReached
  /\ \A u \in queue : u.type \in MessageTypes => u.receiver \in ChildrenOf(u.sender)

LEMMA TreeAlone ==
  ASSUME TypeOK, Options.kind = "Tree"
  PROVE  TreesOnly /\ FirstReached = {0}
<1>1. ASSUME NEW i \in 1 .. Last PROVE conf.phases[i].kind \in {"DepInit", "Tree"}
  <2>1. Last \in Nat \ {0} /\ Last \in 1 .. Last
    BY PhasesType
  <2>2. CASE i = Last
    BY <2>2 DEF Options
  <2>3. CASE i # Last
    <3>1. i \in 1 .. Last - 1
      BY <2>1, <2>3
    <3>2. PICK kind : kind = conf.phases[i].kind /\ kind \in Kinds /\ Stage[kind] < Stage["Tree"]
      BY <2>1, <3>1, PhaseOrder, PhasesType DEF Options
    <3>3. kind \in {"DepInit", "ReductionDepInit"}
      BY <3>2 DEF Kinds, Stage
    <3>4. kind # "ReductionDepInit"
      BY <3>2, PhaseOrder
    <3> QED BY <3>2, <3>3, <3>4
  <2> QED BY <2>2, <2>3
<1>2. FirstReached = {0}
  BY <1>1 DEF FirstReached
<1> QED BY <1>1, <1>2 DEF TreesOnly

LEMMA InitBelow ==
  ASSUME NEW first \in Nat, CStart(first), FirstReached = {0}
  PROVE  OnlyBelow
<1>1. TypeOK
  BY StartCInv DEF CInv, IInv
<1>2. ASSUME NEW n \in Reached \cap Live PROVE n \in TreeReached
  <2>1. n \in Node /\ local[n].reached
    BY DEF Reached
  <2>2. PICK is, k : is = (n \in FirstReached) /\ k = Len(conf.receivers[n])
    OBVIOUS
  <2>3. local[n] = InitialState(is, k) /\ (is => n = 0)
    BY <2>1, <2>2 DEF CStart
  <2>4. n = 0
    BY <2>1, <2>3 DEF InitialState
  <2> QED BY <1>1, <2>4, TreeReachedIs
<1>3. \A u \in queue : u.type \notin MessageTypes
  BY FirstTasks DEF MessageTypes
<1> QED BY <1>2, <1>3 DEF OnlyBelow

LEMMA StepBelow ==
  ASSUME TypeOK, LocalOK, LocalOK', StartUp, Senders, OneWait, TreesOnly, OnlyBelow, [CNext]_vars
  PROVE  OnlyBelow'
<1>1. conf' = conf
  BY StepLocal
<1>2. Last' = Last /\ Node' = Node /\ Live' = Live /\ TreeReached' = TreeReached /\ \A m : ChildrenOf(m)' = ChildrenOf(m)
  BY <1>1 DEF Last, Node, Live, TreeReached, Sprouts, ChildrenOf
<1>3. CASE Rests
  <2>1. Reached' = Reached /\ queue' = queue
    BY <1>3 DEF Rests, cvars, Reached, Node
  <2> QED BY <1>2, <2>1 DEF OnlyBelow
<1>4. ASSUME NEW t \in Upcoming, NEW n, NEW at, NEW draw, NEW asked, Turn(t, n, at, draw, asked)
      PROVE  OnlyBelow'
  <2>1. t \in Task /\ t \in Ready
    BY UpcomingType
  <2>2. \A r \in asked : r.type \in {"SendStart", "Timer", "Init", "Idle", "Finish"} /\ r.sender = n
    BY <1>4 DEF Turn
  <2>3. ASSUME NEW m \in Reached' \cap Live PROVE m \in TreeReached
    <3>1. CASE m \in Reached
      BY <3>1 DEF OnlyBelow
    <3>2. CASE m \notin Reached
      <4>1. t.type = "RecvEnd" /\ m = t.receiver
        BY <1>2, <1>4, <3>2 DEF Turn, Reached
      <4>2. t \in queue
        BY <2>1, <4>1 DEF Ready, IdleTask
      <4>3. t.sender \in TreeReached /\ m \in ChildrenOf(t.sender)
        BY <4>1, <4>2 DEF OnlyBelow, Senders, MessageTypes
      <4> QED BY <4>3, TreeReachedIs
    <3> QED BY <3>1, <3>2
  <2>4. ASSUME NEW r \in asked, r.type = "SendStart" PROVE r.receiver \in ChildrenOf(r.sender)
    <3>1. PICK inner : /\ inner = PhaseDispatch(conf.phases[local[n].cur], n, local[n], t, at, draw)
                       /\ Moves(n, t, at, asked, inner)
      BY <1>4, <2>4 DEF Turn, Steady
    <3>2. r \in RangeOf(inner.reqs)
      <4>1. \A x : InitRequest(at, x).type = "Init"
        BY DEF InitRequest
      <4> HIDE DEF InitRequest
      <4> QED BY <2>4, <3>1, <4>1 DEF Moves
    <3>3. PICK ph : ph = conf.phases[local[n].cur] /\ ph.kind \in {"DepInit", "Tree"}
                    /\ (ph.exclusive => ph.kind = "Tree" /\ ~ ph.forward)
      BY <3>1, PhasesType DEF Moves, TreesOnly
    <3>4. n \in Node /\ at \in Nat /\ draw \in Node /\ local[n] \in State /\ start \in Nat
      BY <1>4 DEF Turn, LocalOK
    <3>5. CASE ph.kind = "DepInit"
      <4>1. inner = DepInitDispatch(local[n], t)
        BY <3>1, <3>3, <3>5 DEF PhaseDispatch, PlainDispatch
      <4>2. inner.reqs = <<>>
        BY <4>1 DEF DepInitDispatch, Outcome, Ongoing
      <4> QED BY <3>2, <4>2 DEF RangeOf
    <3>6. CASE ph.kind = "Tree" /\ ~ ph.exclusive
      <4>1. inner = TreeDispatch(conf, ph, n, local[n], t, at)
        BY <3>1, <3>3, <3>6 DEF PhaseDispatch, PlainDispatch
      <4>2. EarlyAsks(ph, t, at, r)
        BY <3>2, <3>4, <3>6, <4>1, TreeAsks
      <4> QED BY <2>4, <3>6, <4>2 DEF EarlyAsks
    <3>7. CASE ph.kind = "Tree" /\ ph.exclusive
      <4>1. inner = ExclusiveDispatch(ph, n, local[n], t, at, draw) /\ ~ ph.forward
        BY <3>1, <3>3, <3>7 DEF PhaseDispatch
      <4>2. EarlyAsks(ph, t, at, r)
        BY <2>1, <3>2, <3>4, <3>7, <4>1, ExclusiveAsks
      <4> QED BY <2>4, <3>7, <4>2 DEF EarlyAsks
    <3> QED BY <3>3, <3>5, <3>6, <3>7
  <2>5. ASSUME NEW u \in queue', u.type \in MessageTypes PROVE u.receiver \in ChildrenOf(u.sender)
    <3>1. \/ u \in queue
          \/ t \in queue /\ t.type \in MessageTypes /\ Succeeds(t, u)
          \/ \E r \in asked : r.type = "SendStart" /\ SameTask(u, r)
      BY <1>4, <2>1, <2>2, <2>5, MessageOrigin DEF Turn
    <3> QED BY <2>4, <2>5, <3>1 DEF OnlyBelow, SameTask, Succeeds
  <2> QED BY <1>2, <2>3, <2>5 DEF OnlyBelow
<1> QED BY <1>3, <1>4, StepTurns

LEMMA BelowInvariant == RepeatedSpec => [](Options.kind = "Tree" => OnlyBelow)
<1> DEFINE Inv == Options.kind = "Tree" => OnlyBelow
<1>1. CStarted => Inv
  <2> SUFFICES ASSUME NEW first \in Nat, CStart(first), Options.kind = "Tree" PROVE OnlyBelow
    BY DEF CStarted
  <2>1. TypeOK
    BY StartCInv DEF CInv, IInv
  <2> QED BY <2>1, TreeAlone, InitBelow
<1>2. CompInv /\ Inv /\ [CNext]_vars => Inv'
  <2> SUFFICES ASSUME CompInv, Inv, [CNext]_vars, Options'.kind = "Tree" PROVE OnlyBelow'
    OBVIOUS
  <2>1. TypeOK /\ LocalOK /\ StartUp /\ Senders /\ OneWait
    BY DEF CompInv, CInv, IInv
  <2>2. LocalOK' /\ conf' = conf
    BY <2>1, StepLocal
  <2>3. Options.kind = "Tree"
    BY <2>2 DEF Options, Last
  <2> QED BY <2>1, <2>2, <2>3, TreeAlone, StepBelow
<1> QED BY <1>1, <1>2, CompletionInvariant, PTL DEF RepeatedSpec

LEMMA TreeReachesAgain == RepeatedSpec => [](~ Options.exclusive => TreeReachesBelow)
<1>1. CompInv /\ SpreadInv /\ (Options.kind = "Tree" => OnlyBelow) => (~ Options.exclusive => TreeReachesBelow)
  <2> SUFFICES ASSUME CompInv, SpreadInv, Options.kind = "Tree" => OnlyBelow, ~ Options.exclusive,
                      status = "done", Options.kind = "Tree"
      PROVE  Live \cap Reached = TreeReached
    BY DEF TreeReachesBelow
  <2>1. TypeOK
    BY DEF CompInv, CInv, IInv
  <2>2. Last \in 1 .. Last /\ PlainAt(Last)
    BY <2>1, PhasesType DEF Options, PlainAt
  <2>3. 0 \in Reached
    BY <2>1, TreeAlone DEF SpreadInv
  <2>4. TreeReached \subseteq Reached \cap Live
    BY <2>2, <2>3, TreeIsReached
  <2> QED BY <2>4 DEF OnlyBelow
<1> QED BY <1>1, SpreadInvariant, BelowInvariant, PTL

(***************************************************************************)
(* A plain tree reaches exactly the live nodes with live ancestors, for    *)
(* every tree, every failure pattern and every machine: nobody below a     *)
(* failed node is reached by other ways, and no order of the messages      *)
(* makes a node leave before it has sent to its children.                  *)
(***************************************************************************)
THEOREM TreeReaches == CSpec => [](~ Options.exclusive => TreeReachesBelow)
BY OneCollective, TreeReachesAgain, PTL

LEMMA NobodyElseReachedAgain == RepeatedSpec => [](Options.kind = "Tree" => Live \cap Reached \subseteq TreeReached)
<1>1. (Options.kind = "Tree" => OnlyBelow) => (Options.kind = "Tree" => Live \cap Reached \subseteq TreeReached)
  BY DEF OnlyBelow
<1> QED BY <1>1, BelowInvariant, PTL

(* At no time has a tree reached anybody below a failed node, be the phase *)
(* exclusive or not.                                                       *)
THEOREM NobodyElseReached == CSpec => [](Options.kind = "Tree" => Live \cap Reached \subseteq TreeReached)
BY OneCollective, NobodyElseReachedAgain, PTL

-----------------------------------------------------------------------------
(***************************************************************************)
(* Multiple trees.  Node n has the rank Rank(n, i) in tree i, and Copy is  *)
(* the way back.  As multitree.cpp says, it counts the inner nodes "assum- *)
(* ing that all the leaf nodes have higher ranks".                         *)
(***************************************************************************)
Trees == Len(TreeRoots(conf))
Rank(n, i) == ToVirtual(conf, n, TreeRoots(conf)[i])
Copy(v, i) == ToReal(conf, v, TreeRoots(conf)[i])
LeavesLast == \A v \in Node : v >= InnerCount(conf) => conf.receivers[v] = <<>>

(* Everybody is in the tree. *)
Spans == Subtree(0) = Node

(* What a node has done that was reached: it has sent to its children in   *)
(* every tree, and the root also to the roots of the trees.                *)
Fanned(n, headed) ==
  /\ \A i \in 1 .. Trees : \A v \in ChildrenOf(Rank(n, i)) : Copy(v, i) \in headed
  /\ n = 0 => TreesFit(conf) /\ \A i \in 2 .. Trees : TreeRoots(conf)[i] \in headed
FanInv == Options.kind = "MultiTree" => \A n \in Live : local[n].cur > Last => Fanned(n, Headed)

(* What is appended part after part holds every part. *)
LEMMA AppendedHolds ==
  ASSUME NEW S, NEW k \in Nat, NEW parts \in [1 .. k -> Seq(S)], NEW f,
         f = [i \in 0 .. k |-> IF i = 0 THEN <<>> ELSE f[i - 1] \o parts[i]]
  PROVE  \A i \in 1 .. k : RangeOf(parts[i]) \subseteq RangeOf(f[k])
<1> DEFINE Holds(j) == f[j] \in Seq(S) /\ \A i \in 1 .. j : RangeOf(parts[i]) \subseteq RangeOf(f[j])
           good == {j \in 0 .. k + 1 : j <= k => Holds(j)}
<1>1. ASSUME NEW i \in 0 .. k
      PROVE  f[i] = IF i = 0 THEN <<>> ELSE f[i - 1] \o parts[i]
  BY Zenon
<1>2. 0 \in good
  <2>1. f[0] = <<>> /\ 0 \in 0 .. k + 1
    BY <1>1
  <2>2. f[0] \in Seq(S)
    BY <2>1, Few
  <2> QED BY <2>1, <2>2
<1>3. ASSUME NEW j \in 0 .. k, j \in good PROVE j + 1 \in good
  <2>1. SUFFICES ASSUME j < k PROVE Holds(j + 1)
    <3> HIDE DEF Holds
    <3>1. j + 1 \in 0 .. k + 1 /\ (j + 1 <= k => j < k)
      OBVIOUS
    <3> QED BY <3>1
  <2>2. Holds(j) /\ j + 1 \in 1 .. k /\ (j + 1) - 1 = j /\ j + 1 # 0 /\ j + 1 \in 0 .. k
    BY <1>3, <2>1
  <2>3. f[j + 1] = f[j] \o parts[j + 1] /\ parts[j + 1] \in Seq(S)
    BY <1>1, <2>2
  <2>4. f[j + 1] \in Seq(S)
    BY <2>2, <2>3, Few
  <2>5. RangeOf(f[j + 1]) = RangeOf(f[j]) \cup RangeOf(parts[j + 1])
    <3>1. PICK a \in Seq(S), b \in Seq(S) : a = f[j] /\ b = parts[j + 1]
      BY <2>2, <2>3
    <3>2. RangeOf(a \o b) = RangeOf(a) \cup RangeOf(b)
      BY ConcatRange
    <3> QED BY <2>3, <3>1, <3>2
  <2>6. \A i \in 1 .. j + 1 : i \in 1 .. j \/ i = j + 1
    BY <2>2
  <2> QED BY <2>2, <2>4, <2>5, <2>6
<1>4. \A j \in 0 .. k : j \in good
  <2> HIDE DEF good
  <2> QED BY <1>2, <1>3, UpTo
<1>5. k \in 0 .. k /\ k <= k
  OBVIOUS
<1>6. Holds(k)
  BY <1>4, <1>5
<1> QED BY <1>6

LEMMA FansOut ==
  ASSUME TypeOK, NEW n \in Node, NEW at \in Nat, NEW i \in 1 .. Trees, NEW v \in ChildrenOf(Rank(n, i))
  PROVE  \E r \in RangeOf(MultiTreeSends(conf, n, at)) : r.type = "SendStart" /\ r.receiver = Copy(v, i)
<1>1. PICK k \in Nat : k = Trees
  BY TreeRootsType DEF Trees
<1> DEFINE parts == [j \in 1 .. k |-> TreeSends(conf, n, at, TreeRoots(conf)[j])]
           Sends(f) == [j \in 0 .. k |-> IF j = 0 THEN <<>> ELSE f[j - 1] \o parts[j]]
<1>2. parts \in [1 .. k -> Seq(Posts(n, at))]
  BY <1>1, TreeRootsType, TreeSendsType DEF Trees
<1>3. MultiTreeSends(conf, n, at)
        = (CHOOSE f : f = [j \in 0 .. k |-> IF j = 0 THEN <<>>
                                            ELSE f[j - 1] \o TreeSends(conf, n, at, TreeRoots(conf)[j])])[k]
  BY <1>1 DEF MultiTreeSends, Trees
<1>4. \A f : [j \in 0 .. k |-> IF j = 0 THEN <<>> ELSE f[j - 1] \o TreeSends(conf, n, at, TreeRoots(conf)[j])]
               = Sends(f)
  OBVIOUS
<1>5. \E f : f = Sends(f)
  <2> HIDE DEF parts
  <2>1. /\ \E f : f = [j \in 0 .. k |-> IF j = 0 THEN <<>> ELSE f[j - 1] \o parts[j]]
        /\ \A f : f = [j \in 0 .. k |-> IF j = 0 THEN <<>> ELSE f[j - 1] \o parts[j]]
                   => f[k] \in Seq(Posts(n, at))
    BY <1>2, Appended, Zenon
  <2> QED BY <2>1, Zenon
<1>6. \A f : f = Sends(f) => \A j \in 1 .. k : RangeOf(parts[j]) \subseteq RangeOf(f[k])
  <2> HIDE DEF parts
  <2> QED BY <1>2, AppendedHolds, Zenon
<1>7. \A j \in 1 .. k : RangeOf(parts[j]) \subseteq RangeOf(MultiTreeSends(conf, n, at))
  <2> HIDE DEF Sends, parts
  <2> QED BY <1>3, <1>4, <1>5, <1>6, Zenon
<1>8. RangeOf(TreeSends(conf, n, at, TreeRoots(conf)[i])) \subseteq RangeOf(MultiTreeSends(conf, n, at))
  BY <1>1, <1>7
<1>9. PICK j \in DOMAIN conf.receivers[Rank(n, i)] : v = conf.receivers[Rank(n, i)][j]
  BY DEF ChildrenOf
<1>10. PICK r : r = SendRequest("TREE", at, n, Copy(v, i))
  OBVIOUS
<1>11. r \in RangeOf(TreeSends(conf, n, at, TreeRoots(conf)[i]))
  <2>1. PICK sends : sends = TreeSends(conf, n, at, TreeRoots(conf)[i])
    OBVIOUS
  <2>2. j \in DOMAIN sends /\ sends[j] = r
    BY <1>9, <1>10, <2>1 DEF TreeSends, Rank, Copy
  <2> QED BY <2>1, <2>2 DEF RangeOf
<1>12. r.type = "SendStart" /\ r.receiver = Copy(v, i)
  BY <1>10 DEF SendRequest
<1> QED BY <1>8, <1>11, <1>12

(* Whoever leaves the phase has done all this. *)
LEMMA FansWhenReached ==
  ASSUME TypeOK, NEW n \in Node, NEW s \in State, NEW t, NEW at \in Nat,
         t.type = "Init" /\ s.reached => n = 0 /\ TreesFit(conf),
         t.type = "RecvEnd" => ~ s.reached /\ n # 0,
         NEW out, out = MultiTreeDispatch(conf, n, s, t, at), out.res # "ONGOING",
         NEW headed, \A r \in RangeOf(out.reqs) : r.type = "SendStart" => r.receiver \in headed
  PROVE  Fanned(n, headed)
<1>1. ASSUME RangeOf(MultiTreeSends(conf, n, at)) \subseteq RangeOf(out.reqs)
      PROVE  \A i \in 1 .. Trees : \A v \in ChildrenOf(Rank(n, i)) : Copy(v, i) \in headed
  BY <1>1, FansOut
<1>2. CASE t.type = "Init" /\ s.reached
  <2>1. n = 0 /\ TreesFit(conf)
    BY <1>2
  <2>2. PICK k \in Nat \ {0} : k = Trees
    BY TreeRootsType DEF Trees
  <2>3. PICK a : a = [i \in 1 .. k - 1 |-> SendRequest("GOSSIP", at, 0, TreeRoots(conf)[i + 1])]
    OBVIOUS
  <2>4. PICK b \in Seq(Posts(n, at)) : b = MultiTreeSends(conf, n, at)
    BY MultiTreeSendsType
  <2>5. PICK S : S = Posts(n, at) \cup {SendRequest("GOSSIP", at, 0, TreeRoots(conf)[i + 1]) : i \in 1 .. k - 1}
    OBVIOUS
  <2>6. a \in Seq(S) /\ b \in Seq(S)
    BY <2>3, <2>5
  <2>7. RangeOf(a \o b) = RangeOf(a) \cup RangeOf(b)
    BY <2>6, ConcatRange
  <2>8. out.reqs = a \o b
    BY <1>2, <2>1, <2>2, <2>3, <2>4 DEF MultiTreeDispatch, MultiTreeInit, Outcome, Trees
  <2>9. ASSUME NEW i \in 2 .. Trees
        PROVE  TreeRoots(conf)[i] \in headed
    <3>1. PICK j \in 1 .. k - 1 : j + 1 = i
      BY <2>2, <2>9
    <3>2. a[j] = SendRequest("GOSSIP", at, 0, TreeRoots(conf)[i]) /\ j \in DOMAIN a
      BY <2>3, <3>1
    <3>3. a[j] \in RangeOf(out.reqs)
      BY <2>7, <2>8, <3>2 DEF RangeOf
    <3>4. a[j].type = "SendStart" /\ a[j].receiver = TreeRoots(conf)[i]
      BY <3>2 DEF SendRequest
    <3> QED BY <3>3, <3>4
  <2> QED BY <1>1, <2>1, <2>4, <2>7, <2>8, <2>9 DEF Fanned
<1>3. CASE t.type = "RecvEnd"
  <2>1. out.reqs = MultiTreeSends(conf, n, at)
    BY <1>3 DEF MultiTreeDispatch, MultiTreeRecvEnd, Outcome
  <2> QED BY <1>1, <1>3, <2>1 DEF Fanned
<1>4. CASE t.type # "RecvEnd" /\ ~ (t.type = "Init" /\ s.reached)
  BY <1>4 DEF MultiTreeDispatch, MultiTreeInit, Ongoing, Outcome
<1> QED BY <1>2, <1>3, <1>4

LEMMA MultiTreeType ==
  ASSUME TypeOK, Options.kind = "MultiTree"
  PROVE  /\ Last \in Nat \ {0} /\ FirstReached = {0}
         /\ \A i \in 1 .. Last : /\ ~ conf.phases[i].exclusive
                                 /\ conf.phases[i].kind = IF i = Last THEN "MultiTree" ELSE "DepInit"
<1>1. Last \in Nat \ {0} /\ Last \in 1 .. Last
  BY PhasesType
<1>2. ASSUME NEW i \in 1 .. Last
      PROVE  conf.phases[i].kind = IF i = Last THEN "MultiTree" ELSE "DepInit"
  <2>1. i # Last => i \in 1 .. Last - 1
    BY <1>1
  <2> QED BY <1>1, <2>1, PhaseOrder DEF Options
<1>3. \A i \in 1 .. Last : ~ conf.phases[i].exclusive /\ conf.phases[i].kind # "ReductionDepInit"
  BY <1>2, PhasesType
<1> QED BY <1>1, <1>2, <1>3 DEF FirstReached

(* While somebody waits for its InitTask nobody is reached by a message.   *)
LEMMA LateArrivals ==
  ASSUME TypeOK, LocalOK, StartUp, Guided, SpreadInv, Options.kind = "MultiTree",
         NEW t \in Upcoming, t.type = "RecvEnd", NEW n \in Live, local[n].cur <= Last
  PROVE  local[n].cur = Last /\ n \notin Reached /\ n # 0
<1>1. t \in queue /\ ~ \E u \in queue : u.type = "Init"
  <2>1. t \in queue
    BY UpcomingType, ReadyTasks
  <2> QED BY <2>1 DEF StartUp
<1>2. PICK i \in 1 .. Last : i = local[n].cur
  BY MultiTreeType DEF LocalOK, Live
<1>3. PICK ph : ph = conf.phases[i] /\ ph.kind = (IF i = Last THEN "MultiTree" ELSE "DepInit") /\ ~ ph.exclusive
  BY MultiTreeType
<1>4. ~ Cued(n, ph)
  BY <1>1, <1>3 DEF Cued, IsCue, Corrects
<1>5. i = Last
  BY <1>2, <1>3, <1>4 DEF Guided, Guide, KeepsTime
<1>6. n \notin Reached
  <2>1. n \notin done
    BY <1>2, MultiTreeType DEF SpreadInv, DoneOver
  <2> QED BY <1>2, <1>3, <1>4, <2>1 DEF Guided, Guide
<1>7. n # 0
  BY <1>6, MultiTreeType DEF SpreadInv
<1> QED BY <1>2, <1>5, <1>6, <1>7

LEMMA FannedMore ==
  ASSUME NEW n, NEW headed, NEW more, Fanned(n, headed), headed \subseteq more
  PROVE  Fanned(n, more)
BY DEF Fanned

LEMMA TurnFans ==
  ASSUME TypeOK, LocalOK, LocalOK', StartUp, Senders, Guided, SpreadInv, conf' = conf,
         Options.kind = "MultiTree", FanInv,
         NEW t \in Upcoming, NEW n \in Live, NEW at, NEW draw, NEW asked, Turn(t, n, at, draw, asked),
         local'[n].cur > Last
  PROVE  Fanned(n, Headed')
<1>1. /\ n \in Node /\ at \in Nat /\ local[n] \in State /\ Headed \subseteq Headed'
      /\ \A r \in asked : r.type = "SendStart" /\ r.receiver \in Node => r.receiver \in Headed'
      /\ \A m \in Node : local'[m].cur >= local[m].cur
  BY TurnKeeps DEF Turn
<1>2. CASE local[n].cur > Last
  BY <1>1, <1>2, FannedMore DEF FanInv
<1>3. CASE ~ (local[n].cur > Last)
  <2>1. PICK inner : /\ inner = PhaseDispatch(conf.phases[local[n].cur], n, local[n], t, at, draw)
                     /\ Moves(n, t, at, asked, inner)
    BY <1>3 DEF Turn, Steady
  <2>2. /\ local[n].cur \in 1 .. Last /\ local'[n].cur = NextPhase(local[n].cur, inner.res)
        /\ RangeOf(inner.reqs) \subseteq asked
    BY <2>1 DEF Moves
  <2>3. PICK ph : /\ ph = conf.phases[local[n].cur] /\ ~ ph.exclusive
                  /\ ph.kind = IF local[n].cur = Last THEN "MultiTree" ELSE "DepInit"
    BY <2>2, MultiTreeType
  <2>4. local[n].cur = Last
    <3>1. SUFFICES ASSUME local[n].cur # Last PROVE FALSE
      OBVIOUS
    <3>2. inner = DepInitDispatch(local[n], t)
      BY <2>1, <2>3, <3>1 DEF PhaseDispatch, PlainDispatch
    <3>3. inner.res \in {"ONGOING", "DONE_PHASE"}
      BY <3>2 DEF DepInitDispatch, Outcome, Ongoing
    <3>4. local'[n].cur \in {local[n].cur, local[n].cur + 1}
      BY <2>2, <3>3 DEF NextPhase
    <3> QED BY <2>2, <3>1, <3>4, MultiTreeType
  <2>5. inner = MultiTreeDispatch(conf, n, local[n], t, at)
    BY <2>1, <2>3, <2>4 DEF PhaseDispatch, PlainDispatch
  <2>6. inner.res # "ONGOING"
    BY <2>2, <2>4, MultiTreeType DEF NextPhase
  <2>7. t.type = "Init" /\ local[n].reached => n = 0 /\ TreesFit(conf)
    BY <2>2, <2>3, <2>4 DEF Turn, RootBegins, InPhase
  <2>8. t.type = "RecvEnd" => ~ local[n].reached /\ n # 0
    BY <1>1, <1>3, <2>2, <2>4, LateArrivals DEF Reached
  <2>9. ASSUME NEW r \in RangeOf(inner.reqs), r.type = "SendStart" PROVE r.receiver \in Headed'
    <3>1. inner.reqs \in Seq(Posts(n, at))
      BY <1>1, <2>5, <2>7, MultiTreePosts
    <3>2. r \in Posts(n, at)
      BY <2>9, <3>1 DEF RangeOf
    <3>3. r.receiver \in Node
      BY <3>2, <2>9 DEF Posts, Wish, Demand
    <3> QED BY <1>1, <2>2, <2>9, <3>3
  <2> QED BY <1>1, <2>5, <2>6, <2>7, <2>8, <2>9, FansWhenReached
<1> QED BY <1>2, <1>3

LEMMA StepFans ==
  ASSUME TypeOK, LocalOK, LocalOK', StartUp, Senders, OneWait, Guided, SpreadInv, FanInv, [CNext]_vars
  PROVE  FanInv'
<1>1. conf' = conf
  BY StepLocal
<1>2. Last' = Last /\ Live' = Live /\ Options' = Options
  BY <1>1 DEF Options, Last, Live, Node
<1>3. SUFFICES ASSUME Options.kind = "MultiTree", NEW m \in Live, local'[m].cur > Last PROVE Fanned(m, Headed')
  <2>1. Trees' = Trees /\ TreeRoots(conf)' = TreeRoots(conf) /\ TreesFit(conf)' = TreesFit(conf)
    BY <1>1 DEF Trees, TreeRoots, TreesFit, InnerCount
  <2>2. \A n, i : Rank(n, i)' = Rank(n, i) /\ Copy(n, i)' = Copy(n, i)
    BY <1>1, <2>1 DEF Rank, Copy, ToVirtual, ToReal
  <2>3. \A v : ChildrenOf(v)' = ChildrenOf(v)
    BY <1>1 DEF ChildrenOf
  <2>4. \A n : Fanned(n, Headed') <=> Fanned(n, Headed)'
    BY <2>1, <2>2, <2>3 DEF Fanned
  <2> QED BY <1>2, <2>4 DEF FanInv
<1>4. m \in Node /\ (local[m].cur > Last => Fanned(m, Headed))
  BY <1>3 DEF FanInv, Live
<1>5. CASE Rests
  <2>1. local' = local /\ Headed' = Headed
    BY <1>5 DEF Rests, cvars, Reached, Node, Headed, Toward
  <2> QED BY <1>3, <1>4, <2>1
<1>6. ASSUME NEW t \in Upcoming, NEW n, NEW at, NEW draw, NEW asked, Turn(t, n, at, draw, asked)
      PROVE  Fanned(m, Headed')
  <2>1. CASE m = n
    BY <1>1, <1>3, <1>6, <2>1, TurnFans
  <2>2. CASE m # n
    <3>1. local'[m] = local[m]
      BY <1>4, <1>6, <2>2 DEF Turn
    <3>2. Headed \subseteq Headed'
      BY <1>1, <1>6, TurnKeeps
    <3> QED BY <1>3, <1>4, <3>1, <3>2, FannedMore
  <2> QED BY <2>1, <2>2
<1> QED BY <1>5, <1>6, StepTurns

LEMMA FanInvariant == RepeatedSpec => [](CompInv /\ SpreadInv /\ FanInv)
<1>1. CStarted => FanInv
  <2> SUFFICES ASSUME NEW first \in Nat, CStart(first), NEW n \in Live PROVE ~ (local[n].cur > Last)
    BY DEF FanInv, CStarted
  <2>1. TypeOK
    BY StartCInv DEF CInv, IInv
  <2>2. local[n] = InitialState(n \in FirstReached, Len(conf.receivers[n]))
    BY DEF CStart, Live
  <2>3. local[n].cur = 1
    BY <2>2 DEF InitialState
  <2> QED BY <2>1, <2>3, PhasesType
<1>2. CompInv /\ SpreadInv /\ FanInv /\ [CNext]_vars => FanInv'
  <2> SUFFICES ASSUME CompInv, SpreadInv, FanInv, [CNext]_vars PROVE FanInv'
    OBVIOUS
  <2>1. TypeOK /\ LocalOK /\ StartUp /\ Senders /\ OneWait /\ Guided
    BY DEF CompInv, CInv, IInv
  <2>2. LocalOK'
    BY <2>1, StepLocal
  <2> QED BY <2>1, <2>2, StepFans
<1> QED BY <1>1, <1>2, SpreadInvariant, PTL DEF RepeatedSpec

(* Fewer failures than trees leave the inner nodes of one tree alone, as   *)
(* no node is an inner node of two trees.                                  *)
Inner(i) == {Copy(v, i) : v \in 0 .. InnerCount(conf) - 1}

LEMMA InnerApart ==
  ASSUME TypeOK, TreesFit(conf)
  PROVE  /\ \A i \in 1 .. Trees : Inner(i) \subseteq Node /\ TreeRoots(conf)[i] \in Inner(i)
         /\ \A i, j \in 1 .. Trees : i # j => Inner(i) \cap Inner(j) = {}
<1>1. PICK P \in Nat \ {0}, inner \in Nat \ {0}, k \in Nat \ {0}, d \in Nat :
        P = conf.P /\ inner = InnerCount(conf) /\ inner <= P /\ k = Trees /\ d = conf.d
  <2>1. conf.P \in Nat \ {0} /\ conf.d \in Nat /\ InnerCount(conf) \in 1 .. conf.P /\ Trees \in Nat \ {0}
    BY CollectiveType, InnerCountType, TreeRootsType DEF Trees
  <2> QED BY <2>1
<1>2. PICK roots \in [1 .. k -> Nat] : roots = TreeRoots(conf)
  BY <1>1, TreeRootsType DEF Trees
<1>3. \A i \in 1 .. k : roots[i] = (i - 1) * inner
  <2>1. CASE d <= 1
    <3>1. roots = <<0>> /\ k = 1
      BY <1>1, <1>2, <2>1 DEF TreeRoots, Trees
    <3> QED BY <3>1
  <2>2. CASE d > 1
    <3>1. roots = [i \in 1 .. d |-> (i - 1) * inner]
      BY <1>1, <1>2, <2>2 DEF TreeRoots
    <3>2. k = d
      BY <1>2, <3>1
    <3> QED BY <3>1, <3>2
  <2> QED BY <2>1, <2>2
<1>4. \A i \in 1 .. k : roots[i] + inner <= P
  <2>1. roots[1] = 0
    BY <1>3
  <2> QED BY <1>1, <1>2, <2>1 DEF TreesFit, Trees
<1>5. ASSUME NEW i \in 1 .. k, NEW v \in 0 .. inner - 1
      PROVE  Copy(v, i) = v + roots[i] /\ v + roots[i] \in 0 .. P - 1
  <2>1. PICK root \in Nat : root = roots[i] /\ root + inner <= P
    BY <1>4
  <2>2. v + root \in 0 .. P - 1
    BY <2>1
  <2>3. (v + root) % P = v + root
    BY <2>2
  <2> QED BY <1>1, <1>2, <2>1, <2>2, <2>3 DEF Copy, ToReal
<1>6. ASSUME NEW i \in 1 .. k
      PROVE  Inner(i) \subseteq Node /\ roots[i] \in Inner(i)
  <2>1. 0 \in 0 .. inner - 1 /\ Copy(0, i) = roots[i]
    BY <1>5
  <2> QED BY <1>1, <1>5, <2>1 DEF Inner, Node
<1>7. ASSUME NEW i \in 1 .. k, NEW j \in 1 .. k, i < j, NEW v \in 0 .. inner - 1, NEW w \in 0 .. inner - 1
      PROVE  Copy(v, i) # Copy(w, j)
  <2>1. PICK a \in Nat, x \in Nat : a = i - 1 /\ j - 1 = a + 1 + x
    <3>1. i - 1 \in Nat /\ j - i - 1 \in Nat /\ j - 1 = (i - 1) + 1 + (j - i - 1)
      BY <1>7
    <3> QED BY <3>1
  <2>2. (a + 1 + x) * inner = a * inner + inner + x * inner /\ x * inner \in Nat /\ a * inner \in Nat
    OBVIOUS
  <2>3. roots[i] = a * inner /\ roots[j] = (a + 1 + x) * inner
    BY <1>3, <2>1
  <2>4. PICK m \in Nat, y \in Nat : m = a * inner /\ y = x * inner /\ roots[i] = m /\ roots[j] = m + inner + y
    BY <2>2, <2>3
  <2>5. v + roots[i] # w + roots[j]
    BY <2>4
  <2> QED BY <1>5, <2>5
<1>8. ASSUME NEW i \in 1 .. k, NEW j \in 1 .. k, i # j
      PROVE  Inner(i) \cap Inner(j) = {}
  <2>1. i < j \/ j < i
    BY <1>8
  <2>2. \A v, w \in 0 .. inner - 1 : Copy(v, i) # Copy(w, j)
    BY <1>7, <2>1
  <2> QED BY <1>1, <2>2 DEF Inner
<1> QED BY <1>1, <1>2, <1>6, <1>8

LEMMA TreeSpared ==
  ASSUME TypeOK, TreesFit(conf), Cardinality(conf.failed) < conf.d
  PROVE  \E i \in 1 .. Trees : Inner(i) \subseteq Live
<1>1. SUFFICES ASSUME \A i \in 1 .. Trees : ~ (Inner(i) \subseteq Live) PROVE FALSE
  OBVIOUS
<1>2. conf.failed \subseteq Node /\ IsFiniteSet(conf.failed) /\ Cardinality(conf.failed) \in Nat
  <2>1. conf.failed \subseteq Node
    BY CollectiveType DEF IsConfiguration, Node
  <2> QED BY <2>1, NodesFinite, FS_Subset, FS_CardinalityType
<1>3. Trees = conf.d /\ conf.d \in Nat \ {0}
  <2>1. conf.d \in Nat \ {0}
    BY <1>2, CollectiveType
  <2>2. CASE conf.d <= 1
    BY <2>1, <2>2 DEF Trees, TreeRoots
  <2>3. CASE conf.d > 1
    BY <2>1, <2>3 DEF Trees, TreeRoots
  <2> QED BY <2>1, <2>2, <2>3
<1>4. IsFiniteSet(1 .. Trees) /\ Cardinality(1 .. Trees) = conf.d
  BY <1>3, FS_Interval
<1>5. \A i \in 1 .. Trees : \E m \in conf.failed : m \in Inner(i)
  BY <1>1, InnerApart DEF Live
<1>6. PICK f \in [1 .. Trees -> conf.failed] : \A i \in 1 .. Trees : f[i] \in Inner(i)
  <2>1. [i \in 1 .. Trees |-> CHOOSE m \in conf.failed : m \in Inner(i)] \in [1 .. Trees -> conf.failed]
    BY <1>5
  <2>2. \A i \in 1 .. Trees : [j \in 1 .. Trees |-> CHOOSE m \in conf.failed : m \in Inner(j)][i] \in Inner(i)
    BY <1>5
  <2> QED BY <2>1, <2>2
<1>7. PICK i \in 1 .. Trees, j \in 1 .. Trees : i # j /\ f[i] = f[j]
  <2>1. Cardinality(conf.failed) < Cardinality(1 .. Trees)
    BY <1>4
  <2>2. PICK S, T : S = 1 .. Trees /\ T = conf.failed
    OBVIOUS
  <2>3. IsFiniteSet(S) /\ IsFiniteSet(T) /\ Cardinality(T) < Cardinality(S) /\ f \in [S -> T]
    BY <1>2, <1>4, <1>6, <2>1, <2>2
  <2>4. \E x, y \in S : x # y /\ f[x] = f[y]
    BY <2>3, FS_PigeonHole
  <2> QED BY <2>2, <2>4
<1> QED BY <1>6, <1>7, InnerApart

LEMMA RanksAndCopies ==
  ASSUME TypeOK, TreesFit(conf), NEW i \in 1 .. Trees
  PROVE  /\ \A n \in Node : Rank(n, i) \in Node /\ Copy(Rank(n, i), i) = n
         /\ \A v \in Node : Copy(v, i) \in Node /\ Rank(Copy(v, i), i) = v
<1>1. PICK P \in Nat \ {0} : P = conf.P /\ Node = 0 .. P - 1
  BY CollectiveType DEF Node
<1>2. PICK root \in 0 .. P - 1 : root = TreeRoots(conf)[i]
  BY <1>1, InnerApart
<1>3. ASSUME NEW n \in 0 .. P - 1
      PROVE  (((n - root + P) % P) + root) % P = n /\ (n - root + P) % P \in 0 .. P - 1
  <2>1. CASE n >= root
    <3>1. n - root \in 0 .. P - 1
      BY <2>1
    <3>2. PICK x \in 0 .. P - 1 : x = n - root
      BY <3>1
    <3>3. (x + P) % P = x
      OBVIOUS
    <3>4. x + root = n /\ n % P = n
      BY <3>2
    <3> QED BY <3>2, <3>3, <3>4
  <2>2. CASE n < root
    <3>1. n - root + P \in 0 .. P - 1
      BY <2>2
    <3>2. PICK x \in 0 .. P - 1 : x = n - root + P
      BY <3>1
    <3>3. x % P = x
      OBVIOUS
    <3>4. x + root = n + P /\ (n + P) % P = n
      BY <3>2
    <3> QED BY <3>2, <3>3, <3>4
  <2> QED BY <2>1, <2>2
<1>4. ASSUME NEW v \in 0 .. P - 1
      PROVE  (v + root) % P \in 0 .. P - 1 /\ v = (((v + root) % P) - root + P) % P
  <2>1. (v + root) % P \in 0 .. P - 1
    OBVIOUS
  <2>2. PICK n \in 0 .. P - 1 : n = (v + root) % P
    BY <2>1
  <2>3. v # (n - root + P) % P => (v + root) % P # n
    BY Shifted
  <2> QED BY <2>1, <2>2, <2>3
<1> QED BY <1>1, <1>2, <1>3, <1>4 DEF Rank, Copy, ToVirtual, ToReal

(* At the end nobody that was reached still has to fan out. *)
LEMMA EndFans ==
  ASSUME CompInv, SpreadInv, FanInv, Options.kind = "MultiTree", status = "done", NEW n \in Reached \cap Live
  PROVE  Fanned(n, Headed)
<1>1. TypeOK /\ LocalOK /\ Guided /\ Counted /\ DoneOver
  BY DEF CompInv, CInv, IInv, SpreadInv
<1>2. queue = {} /\ \A m \in Node : ~ pending[m]
  BY <1>1 DEF Counted
<1>3. n \in Node /\ local[n] \in State
  BY <1>1 DEF LocalOK, Live
<1>4. local[n].cur > Last
  <2>1. CASE n \in done
    BY <1>1, <2>1 DEF DoneOver
  <2>2. CASE n \notin done
    <3>1. PICK i \in 1 .. Last : i = local[n].cur
      BY <1>1, <1>3, <2>2 DEF Guided, Guide, LocalOK
    <3>2. conf.phases[i].kind # "Gather"
      BY <1>1, MultiTreeType
    <3>3. Cued(n, conf.phases[i])
      BY <1>1, <2>2, <3>1, <3>2 DEF Guided, Guide
    <3> QED BY <1>2, <1>3, <3>3 DEF Cued
  <2> QED BY <2>1, <2>2
<1> QED BY <1>4 DEF FanInv

(* The tree that is spared reaches the copies of all it spans. *)
LEMMA SparedSpreads ==
  ASSUME CompInv, SpreadInv, FanInv, Options.kind = "MultiTree", status = "done",
         TreesFit(conf), LeavesLast, Spans, 0 \in Live, NEW i \in 1 .. Trees, Inner(i) \subseteq Live
  PROVE  Live \subseteq Reached
<1>1. TypeOK /\ Counted /\ 0 \in Reached
  BY MultiTreeType DEF CompInv, CInv, IInv, SpreadInv
<1>2. queue = {} /\ \A m \in Node : ~ pending[m]
  BY <1>1 DEF Counted
<1>3. \A n \in Headed \cap Live : n \in Reached
  BY <1>2 DEF Headed, Toward, Live
<1>4. PICK T : T = {v \in Node : Copy(v, i) \in Live => Copy(v, i) \in Reached}
  OBVIOUS
<1>5. 0 \in T
  <2>1. PICK root : root = TreeRoots(conf)[i] /\ root \in Node /\ root \in Inner(i) /\ root \in Live
    BY <1>1, InnerApart
  <2>2. Copy(0, i) = root /\ 0 \in Node
    <3>1. conf.P \in Nat \ {0} /\ root \in 0 .. conf.P - 1
      BY <1>1, <2>1, CollectiveType DEF Node
    <3>2. (0 + root) % conf.P = root
      BY <3>1
    <3> QED BY <2>1, <3>1, <3>2 DEF Copy, ToReal, Node
  <2>3. root \in Reached
    <3>1. CASE i = 1
      <4>1. root = 0
        <5>1. PICK c \in Nat : c = InnerCount(conf)
          BY <1>1, InnerCountType
        <5>2. (1 - 1) * c = 0
          OBVIOUS
        <5>3. 1 \in 1 .. conf.d /\ conf.d > 1 => [j \in 1 .. conf.d |-> (j - 1) * c][1] = 0
          BY <5>2
        <5>4. conf.d \in Nat
          BY <1>1, CollectiveType
        <5> QED BY <2>1, <3>1, <5>1, <5>3, <5>4 DEF TreeRoots
      <4> QED BY <1>1, <4>1
    <3>2. CASE i # 1
      <4>1. i \in 2 .. Trees
        BY <3>2, <1>1, TreeRootsType DEF Trees
      <4>2. Fanned(0, Headed)
        BY <1>1, EndFans
      <4>3. root \in Headed
        BY <2>1, <4>1, <4>2 DEF Fanned
      <4> QED BY <1>3, <2>1, <4>3
    <3> QED BY <3>1, <3>2
  <2> QED BY <1>4, <2>2, <2>3
<1>6. ASSUME NEW v \in T, NEW w \in ChildrenOf(v)
      PROVE  w \in T
  <2>1. v \in Node /\ w \in Node
    BY <1>1, <1>4, ChildrenType
  <2>2. v \in 0 .. InnerCount(conf) - 1
    <3>1. conf.receivers[v] # <<>>
      BY DEF ChildrenOf
    <3>2. InnerCount(conf) \in Nat /\ conf.P \in Nat
      BY <1>1, InnerCountType, CollectiveType
    <3> QED BY <2>1, <3>1, <3>2 DEF LeavesLast, Node
  <2>3. Copy(v, i) \in Live
    BY <2>2 DEF Inner
  <2>4. Copy(v, i) \in Reached \cap Live
    BY <1>4, <2>3
  <2>5. Fanned(Copy(v, i), Headed)
    BY <2>4, EndFans
  <2>6. Rank(Copy(v, i), i) = v
    BY <1>1, <2>1, RanksAndCopies
  <2>7. Copy(w, i) \in Headed
    BY <2>5, <2>6 DEF Fanned
  <2> QED BY <1>3, <1>4, <2>1, <2>7
<1>7. Node \subseteq T
  <2>1. 0 \in Node /\ T \in SUBSET Node
    BY <1>4, <1>5
  <2>2. Subtree(0) \subseteq T
    BY <1>1, <1>5, <1>6, <2>1, SubtreeIs
  <2> QED BY <2>2 DEF Spans
<1>8. ASSUME NEW n \in Live
      PROVE  n \in Reached
  <2>1. n \in Node /\ Rank(n, i) \in Node /\ Copy(Rank(n, i), i) = n
    BY <1>1, RanksAndCopies DEF Live
  <2> QED BY <1>4, <1>7, <1>8, <2>1
<1> QED BY <1>8

LEMMA FewFailuresAgain == RepeatedSpec => [](Spans /\ LeavesLast => FewFailuresTolerated)
<1>1. CompInv /\ SpreadInv /\ FanInv => (Spans /\ LeavesLast => FewFailuresTolerated)
  <2> SUFFICES ASSUME CompInv, SpreadInv, FanInv, Spans, LeavesLast, status = "done",
                      Options.kind = "MultiTree", 0 \in Live, Cardinality(conf.failed) < conf.d
      PROVE  Live \subseteq finished
    BY DEF FewFailuresTolerated
  <2>1. TypeOK /\ 0 \in Reached
    BY MultiTreeType DEF CompInv, CInv, IInv, SpreadInv
  <2>2. TreesFit(conf)
    BY <2>1, EndFans DEF Fanned
  <2>3. PICK i \in 1 .. Trees : Inner(i) \subseteq Live
    BY <2>1, <2>2, TreeSpared
  <2>4. Live \subseteq Reached
    BY <2>2, <2>3, SparedSpreads
  <2>5. finished = Live \cap Reached
    BY EndCounts DEF StatisticsAgree
  <2> QED BY <2>4, <2>5
<1> QED BY <1>1, FanInvariant, PTL

(***************************************************************************)
(* The promise of the multiple trees, for every tree of the topology,      *)
(* every failure pattern and every machine: with a live root and fewer     *)
(* failures than trees, the inner nodes of one tree all live, its root is  *)
(* told by the first root, and what it spans is everybody.  The tree spans *)
(* the machine, and its leaves have the last ranks, as the code assumes.   *)
(***************************************************************************)
THEOREM FewFailures == CSpec => [](Spans /\ LeavesLast => FewFailuresTolerated)
BY OneCollective, FewFailuresAgain, PTL
=============================================================================
