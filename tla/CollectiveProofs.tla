-------------------------- MODULE CollectiveProofs ---------------------------
(***************************************************************************)
(* Proofs about the collectives: a phase asks for nothing the open engine  *)
(* does not expect, so all that is proved of the engine holds of every     *)
(* collective, on every command line.                                      *)
(***************************************************************************)
EXTENDS Repetitions, EngineProofs

(* What the phases keep for one node. *)
RingState == [offset : Nat, minRecv : Nat]

State == [reached : BOOLEAN, cur : Nat, left : RingState, right : RingState, nowLeft : BOOLEAN,
          sentLeft : Nat, sentRight : Nat, toReceive : Int]

(* Nodes are reached by a message only, and never forgotten. *)
Colours(t, s, out) ==
  /\ s.reached => out.s.reached
  /\ t.type # "RecvEnd" => out.s.reached = s.reached

(* What phases ask for: only the combiner asks for an InitTask, and only   *)
(* the collective for a FinishTask.                                        *)
Wish(n, at) == {r \in Demand(n, at) : r.type \notin {"Init", "Finish"}}

(***************************************************************************)
(* What every dispatch for node n returns about task t: requests for n     *)
(* that are not for the past, and a state that is still in the same phase; *)
(* only a message is handed on.                                            *)
(***************************************************************************)
Proper(n, s, t, at, out) ==
  /\ out \in [res : Result, reqs : Seq(Wish(n, at)), s : State]
  /\ out.s.cur = s.cur
  /\ out.res = "DONE_FORWARD" => t.type = "RecvEnd"
  /\ Colours(t, s, out)

-----------------------------------------------------------------------------
(* The requests of the phases. *)

LEMMA CollectiveType ==
  ASSUME TypeOK
  PROVE  /\ IsConfiguration(conf) /\ IsCollective(conf)
         /\ conf.P \in Nat \ {0} /\ conf.o \in Nat
         /\ conf.deadline \in Nat /\ conf.gossip \in Nat /\ conf.d \in Nat
         /\ conf.receivers \in [Node -> Seq(Node)]
BY ConfigurationsAssumption, CollectivesAssumption
   DEF TypeOK, IsConfiguration, IsCollective, Node

LEMMA RequestTypes ==
  ASSUME TypeOK, NEW n \in Node, NEW at \in Nat
  PROVE  /\ \A tag \in DOMAIN TagValue, m \in Node : SendRequest(tag, at, n, m) \in Wish(n, at)
         /\ \A tag \in DOMAIN TagValue, when \in Nat :
              when >= at => TimerRequest(tag, when, n) \in Wish(n, at)
         /\ InitRequest(at, n) \in Demand(n, at)
         /\ IdleRequest(n) \in Wish(n, at)
         /\ FinishRequest(n) \in Demand(n, at)
         /\ Wish(n, at) \subseteq Demand(n, at)
         /\ \A reqs \in Seq(Wish(n, at)) : reqs \in Seq(Demand(n, at))
<1>1. Wish(n, at) \subseteq Demand(n, at)
  BY DEF Wish
<1>2. \A reqs \in Seq(Wish(n, at)) : reqs \in Seq(Demand(n, at))
  <2> HIDE DEF Wish
  <2> QED BY <1>1
<1> QED BY <1>1, <1>2, BoundsAssumption
   DEF SendRequest, TimerRequest, InitRequest, IdleRequest, FinishRequest, Demand, Wish, TagValue

(* Sequences of requests. *)
LEMMA Few ==
  ASSUME NEW S
  PROVE  /\ <<>> \in Seq(S)
         /\ \A x \in S : <<x>> \in Seq(S)
         /\ \A x, y \in S : <<x, y>> \in Seq(S)
         /\ \A a \in Seq(S), x \in S : Append(a, x) \in Seq(S)
         /\ \A a, b \in Seq(S) : a \o b \in Seq(S)
OBVIOUS

(* What a phase posts: messages to somebody else. *)
Posts(n, at) == {r \in Wish(n, at) : r.type = "SendStart" /\ r.receiver # n}

LEMMA PostsType ==
  ASSUME TypeOK, NEW n \in Node, NEW at \in Nat
  PROVE  /\ \A tag \in DOMAIN TagValue, m \in Node : m # n => SendRequest(tag, at, n, m) \in Posts(n, at)
         /\ \A reqs \in Seq(Posts(n, at)) : reqs \in Seq(Wish(n, at))
<1>1. \A tag \in DOMAIN TagValue, m \in Node : m # n => SendRequest(tag, at, n, m) \in Posts(n, at)
  BY RequestTypes DEF Posts, SendRequest
<1>2. Posts(n, at) \subseteq Wish(n, at)
  BY DEF Posts
<1> HIDE DEF Posts
<1> QED BY <1>1, <1>2

LEMMA OngoingProper ==
  ASSUME NEW n, NEW s \in State, NEW t, NEW at
  PROVE  Proper(n, s, t, at, Ongoing(s))
BY Few DEF Proper, Ongoing, Outcome, Result, Colours, State

-----------------------------------------------------------------------------
(* Phase after phase. *)

LEMMA DepInitProper ==
  ASSUME NEW n, NEW s \in State, NEW t, NEW at
  PROVE  Proper(n, s, t, at, DepInitDispatch(s, t))
BY Few, OngoingProper DEF DepInitDispatch, Proper, Outcome, Result, Colours, State

LEMMA PostSendsType ==
  ASSUME TypeOK, NEW n \in Node, NEW at \in Nat
  PROVE  PostSends(conf, n, at) \in Seq(Posts(n, at))
<1>1. conf.receivers[n] \in Seq(Node)
  BY CollectiveType
<1>2. PICK k \in Nat : DOMAIN conf.receivers[n] = 1 .. k /\ conf.receivers[n] \in [1 .. k -> Node]
  BY <1>1
<1>3. "TREE" \in DOMAIN TagValue
  BY DEF TagValue
<1>4. \A i \in 1 .. k : conf.receivers[n][i] # n
  BY <1>2, CollectiveType DEF IsCollective, Node
<1>5. \A i \in 1 .. k : SendRequest("TREE", at, n, conf.receivers[n][i]) \in Posts(n, at)
  BY <1>2, <1>3, <1>4, PostsType
<1> QED BY <1>2, <1>5 DEF PostSends

LEMMA TreePosts ==
  ASSUME TypeOK, NEW ph, NEW n \in Node, NEW s \in State, NEW t, NEW at \in Nat
  PROVE  LET out == TreeDispatch(conf, ph, n, s, t, at)
         IN Proper(n, s, t, at, out) /\ out.reqs \in Seq(Posts(n, at))
<1>0. PICK sends \in Seq(Posts(n, at)) : sends = PostSends(conf, n, at) /\ sends \in Seq(Wish(n, at))
  BY PostSendsType, PostsType
<1>4. Proper(n, s, t, at, Ongoing(s)) /\ Ongoing(s).reqs \in Seq(Posts(n, at))
  BY OngoingProper, Few DEF Ongoing, Outcome
<1>1. CASE t.type = "Init"
  BY <1>0, <1>1, <1>4
     DEF TreeDispatch, TreeInit, Proper, Outcome, Result, Colours, State
<1>2. CASE t.type = "RecvEnd"
  <2>1. [s EXCEPT !.reached = TRUE] \in State /\ [s EXCEPT !.reached = TRUE].cur = s.cur
        /\ [s EXCEPT !.reached = TRUE].reached
    BY DEF State
  <2> QED BY <1>0, <1>2, <2>1
     DEF TreeDispatch, TreeRecvEnd, Proper, Outcome, Result, Colours
<1>3. CASE t.type \notin {"Init", "RecvEnd"}
  BY <1>3, <1>4 DEF TreeDispatch
<1> QED BY <1>1, <1>2, <1>3

-----------------------------------------------------------------------------
(* Correction. *)

LEMMA CorrectionInitProper ==
  ASSUME TypeOK, NEW n \in Node, NEW s \in State, NEW t, t.type = "Init", NEW at \in Nat
  PROVE  Proper(n, s, t, at, CorrectionInit(n, s))
BY Few, RequestTypes DEF CorrectionInit, Proper, Outcome, Result, Colours, State

(* The other fields of the state. *)
SameBut(s, r) ==
  /\ r \in State /\ r.cur = s.cur /\ r.reached = s.reached

LEMMA TurnedType ==
  ASSUME NEW ph, NEW s \in State
  PROVE  /\ SameBut(s, Turned(ph, s)) /\ Turned(ph, s).left = s.left /\ Turned(ph, s).right = s.right
         /\ Turned(ph, s).nowLeft = IF ph.throttled THEN ~ s.nowLeft ELSE s.nowLeft
<1>1. [s EXCEPT !.nowLeft = ~ @] \in State
  <2>1. PICK b \in BOOLEAN : b = ~ s.nowLeft
    OBVIOUS
  <2> QED BY <2>1 DEF State
<1> QED BY <1>1 DEF Turned, SameBut, State

LEMMA DirType ==
  ASSUME NEW ph, NEW s
  PROVE  Dir(ph, s) \in {"left", "right"}
BY DEF Dir

(* A ring that moves on, and one that ends at the root. *)
LEMMA RingMoves ==
  ASSUME NEW ph, NEW s \in State, NEW dir \in {"left", "right"},
         NEW moved, moved = [Turned(ph, s) EXCEPT ![dir].offset = @ + 1]
  PROVE  /\ SameBut(s, moved) /\ moved.nowLeft = Turned(ph, s).nowLeft
         /\ moved[dir] = [offset |-> s[dir].offset + 1, minRecv |-> s[dir].minRecv]
         /\ dir = "left" => moved.right = s.right
         /\ dir = "right" => moved.left = s.left
<1>1. PICK r \in State : r = Turned(ph, s)
  BY TurnedType DEF SameBut
<1>2. SameBut(s, r) /\ r.left = s.left /\ r.right = s.right
  BY <1>1, TurnedType
<1>3. CASE dir = "left"
  BY <1>1, <1>2, <1>3 DEF SameBut, State, RingState
<1>4. CASE dir = "right"
  BY <1>1, <1>2, <1>4 DEF SameBut, State, RingState
<1> QED BY <1>3, <1>4

LEMMA RingEnds ==
  ASSUME NEW ph, NEW s \in State, NEW dir \in {"left", "right"},
         NEW ended, ended = [Turned(ph, s) EXCEPT ![dir] = [offset |-> @.offset + 1, minRecv |-> 1]]
  PROVE  /\ SameBut(s, ended) /\ ended.nowLeft = Turned(ph, s).nowLeft
         /\ ended[dir] = [offset |-> s[dir].offset + 1, minRecv |-> 1]
         /\ dir = "left" => ended.right = s.right
         /\ dir = "right" => ended.left = s.left
<1>1. PICK r \in State : r = Turned(ph, s)
  BY TurnedType DEF SameBut
<1>2. SameBut(s, r) /\ r.left = s.left /\ r.right = s.right
  BY <1>1, TurnedType
<1>3. CASE dir = "left"
  BY <1>1, <1>2, <1>3 DEF SameBut, State, RingState
<1>4. CASE dir = "right"
  BY <1>1, <1>2, <1>4 DEF SameBut, State, RingState
<1> QED BY <1>3, <1>4

LEMMA BarredType ==
  ASSUME NEW ph, NEW n, NEW s \in State
  PROVE  SameBut(s, Barred(conf, ph, n, s))
<1>1. PICK dir \in {"left", "right"} : dir = Dir(ph, s)
  BY DirType
<1>2. PICK ended : ended = [Turned(ph, s) EXCEPT ![dir] = [offset |-> @.offset + 1, minRecv |-> 1]]
  OBVIOUS
<1>3. SameBut(s, s)
  BY DEF SameBut
<1>5. SameBut(s, ended)
  BY <1>2, RingEnds
<1>4. Barred(conf, ph, n, s) = IF CrossesRoot(conf, ph, n, s) THEN ended ELSE s
  BY <1>1, <1>2 DEF Barred
<1> QED BY <1>3, <1>4, <1>5

LEMMA NeighbourType ==
  ASSUME TypeOK, NEW n \in Node, NEW dir, NEW k \in Nat
  PROVE  Neighbour(conf, n, dir, k) \in Node
BY CollectiveType DEF Neighbour, Node

LEMMA PostProper ==
  ASSUME TypeOK, NEW ph, NEW n \in Node, NEW s \in State, NEW t, t.type # "RecvEnd",
         NEW at \in Nat, NEW dir \in {"left", "right"}
  PROVE  Proper(n, s, t, at, Post(conf, ph, n, s, at, dir))
<1>1. PICK moved \in State : moved = [Turned(ph, s) EXCEPT ![dir].offset = @ + 1]
  BY RingMoves DEF SameBut
<1>2. SameBut(s, moved) /\ SameBut(s, Turned(ph, s))
  BY <1>1, RingMoves, TurnedType
<1>3. moved[dir].offset \in Nat
  BY DEF State, RingState
<1>4. /\ {"RING_LEFT", "RING_RIGHT", "INTERNAL"} \subseteq DOMAIN TagValue
      /\ at + conf.o \in Nat /\ at + conf.o >= at
  BY CollectiveType DEF TagValue
<1>5. Neighbour(conf, n, dir, moved[dir].offset) \in Node
  BY <1>3, NeighbourType
<1>6. CASE ~ Active(s[dir])
  BY <1>2, <1>4, <1>6, Few, RequestTypes DEF Post, Proper, Outcome, Result, Colours, SameBut
<1>7. CASE Active(s[dir])
  <2>1. PICK tag \in DOMAIN TagValue : tag = IF dir = "left" THEN "RING_LEFT" ELSE "RING_RIGHT"
    BY <1>4
  <2>2. Post(conf, ph, n, s, at, dir)
          = Outcome("ONGOING", <<SendRequest(tag, at, n, Neighbour(conf, n, dir, moved[dir].offset))>>, moved)
    BY <1>1, <1>7, <2>1 DEF Post
  <2>3. <<SendRequest(tag, at, n, Neighbour(conf, n, dir, moved[dir].offset))>> \in Seq(Wish(n, at))
    BY <1>5, Few, RequestTypes
  <2> QED BY <1>2, <2>2, <2>3 DEF Proper, Outcome, Result, Colours, SameBut
<1> QED BY <1>6, <1>7

LEMMA PostMessageProper ==
  ASSUME TypeOK, NEW ph, NEW n \in Node, NEW s \in State, NEW t, t.type # "RecvEnd", NEW at \in Nat
  PROVE  Proper(n, s, t, at, PostMessage(conf, ph, n, s, at))
<1>1. PICK b \in State : b = Barred(conf, ph, n, Barred(conf, ph, n, s))
  BY BarredType DEF SameBut
<1>2. SameBut(s, b)
  BY <1>1, BarredType DEF SameBut
<1>3. PICK dir \in {"left", "right"} : dir = Dir(ph, b)
  BY DirType
<1>4. Proper(n, b, t, at, Post(conf, ph, n, b, at, dir))
  BY PostProper
<1>5. Proper(n, b, t, at, Outcome("DONE_PHASE", <<>>, b))
  BY Few DEF Proper, Outcome, Result, Colours, SameBut
<1>6. Proper(n, b, t, at, PostOpen(conf, ph, n, b, at))
  BY <1>3, <1>4, <1>5 DEF PostOpen
<1> QED BY <1>1, <1>2, <1>6 DEF PostMessage, Proper, Colours, SameBut

LEMMA HeardType ==
  ASSUME NEW ring \in RingState, NEW dist \in Nat
  PROVE  Heard(ring, dist) \in RingState
BY DEF Heard, RingState

LEMMA CheckedRecvEndProper ==
  ASSUME TypeOK, NEW n \in Node, NEW s \in State, NEW t \in Task, t.type = "RecvEnd", NEW at \in Nat
  PROVE  Proper(n, s, t, at, CheckedRecvEnd(conf, n, s, t))
<1>0. conf.P \in Nat \ {0} /\ n \in Int /\ t.sender \in Int
  BY CollectiveType DEF Task, Node
<1>1. PICK a \in Nat, b \in Nat : /\ a = (conf.P + n - t.sender) % conf.P
                                  /\ b = (conf.P + t.sender - n) % conf.P
  BY <1>0
<1>2. PICK left \in RingState, right \in RingState : left = Heard(s.left, a) /\ right = Heard(s.right, b)
  BY HeardType DEF State
<1> DEFINE heard == CASE t.tag = "RING_RIGHT" -> [s EXCEPT !.left = left]
                      [] t.tag = "RING_LEFT" -> [s EXCEPT !.right = right]
                      [] OTHER -> s
<1>3. heard \in State /\ heard.cur = s.cur
  <2>1. [s EXCEPT !.left = left] \in State /\ [s EXCEPT !.right = right] \in State
        /\ [s EXCEPT !.left = left].cur = s.cur /\ [s EXCEPT !.right = right].cur = s.cur
    BY DEF State
  <2> QED BY <2>1
<1>4. CheckedRecvEnd(conf, n, s, t)
        = Outcome(IF s.reached THEN "ONGOING" ELSE "DONE_PHASE", <<>>, [heard EXCEPT !.reached = TRUE])
  BY <1>1, <1>2 DEF CheckedRecvEnd
<1> HIDE DEF heard
<1>5. [heard EXCEPT !.reached = TRUE] \in State /\ [heard EXCEPT !.reached = TRUE].cur = s.cur
      /\ [heard EXCEPT !.reached = TRUE].reached
  BY <1>3 DEF State
<1>6. PICK res \in Result, r \in State :
        /\ CheckedRecvEnd(conf, n, s, t) = Outcome(res, <<>>, r)
        /\ r.cur = s.cur /\ r.reached
  BY <1>4, <1>5, Zenon DEF Result
<1> QED BY <1>6, Few DEF Proper, Outcome, Colours

LEMMA CheckedProper ==
  ASSUME TypeOK, NEW ph, NEW n \in Node, NEW s \in State, NEW t \in Task, NEW at \in Nat
  PROVE  Proper(n, s, t, at, CheckedDispatch(conf, ph, n, s, t, at))
<1>1. t.type \in {"Timer", "SendEnd"} => Proper(n, s, t, at, Outcome("ONGOING", <<IdleRequest(n)>>, s))
  BY Few, RequestTypes DEF Proper, Outcome, Result, Colours, State
<1> QED BY <1>1, CorrectionInitProper, PostMessageProper, CheckedRecvEndProper, OngoingProper
   DEF CheckedDispatch

LEMMA Distances ==
  ASSUME TypeOK
  PROVE  /\ LeftDist(conf) \in Nat /\ RightDist(conf) \in Nat
         /\ LeftDist(conf) + RightDist(conf) = conf.d
         /\ LeftDist(conf) <= RightDist(conf) /\ RightDist(conf) <= LeftDist(conf) + 1
BY CollectiveType DEF LeftDist, RightDist

LEMMA CoverOrWaitProper ==
  ASSUME TypeOK, NEW n \in Node, NEW s \in State, NEW t, NEW at \in Nat,
         NEW reqs \in Seq(Wish(n, at)), NEW r \in State, r.cur = s.cur, Colours(t, s, Ongoing(r))
  PROVE  Proper(n, s, t, at, CoverOrWait(conf, n, reqs, r))
BY Few, RequestTypes DEF CoverOrWait, Proper, Outcome, Result, Colours, Ongoing

LEMMA OpportunisticIdleProper ==
  ASSUME TypeOK, NEW ph, NEW n \in Node, NEW s \in State, NEW t, t.type # "RecvEnd", NEW at \in Nat
  PROVE  Proper(n, s, t, at, OpportunisticIdle(conf, ph, n, s, at))
<1> DEFINE goLeft == s.sentLeft < s.sentRight
           next == IF goLeft THEN [s EXCEPT !.sentLeft = @ + 1] ELSE [s EXCEPT !.sentRight = @ + 1]
           direct == IF goLeft THEN n - next.sentLeft ELSE n + next.sentRight
           m == IF ph.overRoot THEN (direct + conf.P) % conf.P ELSE direct
           send == IF m \in 0 .. conf.P - 1
                   THEN <<SendRequest(IF goLeft THEN "RING_LEFT" ELSE "RING_RIGHT", at, n, m)>>
                   ELSE <<>>
<1>1. next \in State /\ next.cur = s.cur /\ Colours(t, s, Ongoing(next))
  BY DEF State, Colours, Ongoing, Outcome
<1>2. send \in Seq(Wish(n, at))
  <2> HIDE DEF m
  <2>1. PICK tag \in DOMAIN TagValue : tag = IF goLeft THEN "RING_LEFT" ELSE "RING_RIGHT"
    BY DEF TagValue
  <2>2. m \in Node => SendRequest(tag, at, n, m) \in Wish(n, at)
    BY RequestTypes
  <2> QED BY <2>1, <2>2, Few DEF Node
<1>3. OpportunisticIdle(conf, ph, n, s, at)
        = IF s.reached THEN CoverOrWait(conf, n, send, next) ELSE Ongoing(s)
  BY DEF OpportunisticIdle
<1> HIDE DEF send, next
<1> QED BY <1>1, <1>2, <1>3, CoverOrWaitProper, OngoingProper

(* What an optimised correction makes of a message it receives. *)
Trimmed(c, n, s, t) ==
  LET r == [s EXCEPT !.reached = TRUE]
  IN CASE t.tag = "RING_RIGHT" ->
            [r EXCEPT !.sentRight = AtLeast(@, LeftDist(c) - ((n - t.sender + c.P) % c.P)),
                      !.sentLeft = LeftDist(c)]
       [] t.tag = "RING_LEFT" ->
            [r EXCEPT !.sentLeft = AtLeast(@, RightDist(c) - ((t.sender - n + c.P) % c.P)),
                      !.sentRight = RightDist(c)]
       [] OTHER -> r

LEMMA TrimmedType ==
  ASSUME TypeOK, NEW n \in Node, NEW s \in State, NEW t \in Task
  PROVE  /\ Trimmed(conf, n, s, t) \in State
         /\ Trimmed(conf, n, s, t).cur = s.cur /\ Trimmed(conf, n, s, t).reached
<1>1. conf.P \in Nat \ {0} /\ n \in Int /\ t.sender \in Int
  BY CollectiveType DEF Task, Node
<1>2. PICK a \in Int, b \in Int : /\ a = LeftDist(conf) - ((n - t.sender + conf.P) % conf.P)
                                  /\ b = RightDist(conf) - ((t.sender - n + conf.P) % conf.P)
  BY <1>1, Distances
<1>3. PICK r \in State : r = [s EXCEPT !.reached = TRUE]
  BY DEF State
<1>4. r.cur = s.cur /\ r.reached
  BY <1>3 DEF State
<1>5. AtLeast(r.sentRight, a) \in Nat /\ AtLeast(r.sentLeft, b) \in Nat
  BY DEF State, AtLeast
<1>6. PICK right \in Nat, left \in Nat : right = AtLeast(r.sentRight, a) /\ left = AtLeast(r.sentLeft, b)
  BY <1>5
<1>7. PICK ld \in Nat, rd \in Nat : ld = LeftDist(conf) /\ rd = RightDist(conf)
  BY Distances
<1>8. CASE t.tag = "RING_RIGHT"
  <2>1. Trimmed(conf, n, s, t) = [r EXCEPT !.sentRight = right, !.sentLeft = ld]
    BY <1>2, <1>3, <1>6, <1>7, <1>8 DEF Trimmed
  <2> QED BY <1>4, <2>1 DEF State
<1>9. CASE t.tag = "RING_LEFT"
  <2>1. Trimmed(conf, n, s, t) = [r EXCEPT !.sentLeft = left, !.sentRight = rd]
    BY <1>2, <1>3, <1>6, <1>7, <1>9 DEF Trimmed
  <2> QED BY <1>4, <2>1 DEF State
<1>10. CASE t.tag \notin {"RING_RIGHT", "RING_LEFT"}
  BY <1>3, <1>4, <1>10 DEF Trimmed
<1> QED BY <1>8, <1>9, <1>10

LEMMA OpportunisticProper ==
  ASSUME TypeOK, NEW ph, NEW n \in Node, NEW s \in State, NEW t \in Task, NEW at \in Nat
  PROVE  Proper(n, s, t, at, OpportunisticDispatch(conf, ph, n, s, t, at))
<1>1. CASE t.type = "RecvEnd"
  <2>1. PICK r \in State : r = [s EXCEPT !.reached = TRUE]
    BY DEF State
  <2>2. r.cur = s.cur /\ r.reached
    BY <2>1 DEF State
  <2>3. PICK z \in State : z = Trimmed(conf, n, s, t) /\ z.cur = s.cur /\ z.reached
    BY TrimmedType
  <2>4. Colours(t, s, Ongoing(r)) /\ Colours(t, s, Ongoing(z))
    BY <1>1, <2>2, <2>3 DEF Colours, Ongoing, Outcome
  <2>5. OpportunisticDispatch(conf, ph, n, s, t, at)
          = IF ph.optimised THEN CoverOrWait(conf, n, <<>>, z)
            ELSE Outcome("ONGOING", <<IdleRequest(n)>>, r)
    BY <1>1, <2>1, <2>3 DEF OpportunisticDispatch, OpportunisticRecvEnd, Trimmed
  <2>6. Proper(n, s, t, at, Outcome("ONGOING", <<IdleRequest(n)>>, r))
    BY <2>2, <2>4, Few, RequestTypes DEF Proper, Outcome, Result, Colours, Ongoing
  <2>7. Proper(n, s, t, at, CoverOrWait(conf, n, <<>>, z))
    BY <2>3, <2>4, Few, CoverOrWaitProper
  <2> QED BY <2>5, <2>6, <2>7
<1>2. CASE t.type # "RecvEnd"
  BY <1>2, CorrectionInitProper, OpportunisticIdleProper, OngoingProper DEF OpportunisticDispatch
<1> QED BY <1>1, <1>2

-----------------------------------------------------------------------------
(* Gossip and Gather. *)

LEMMA GossipProper ==
  ASSUME TypeOK, NEW n \in Node, NEW s \in State, NEW t, NEW at \in Nat,
         NEW begin \in Nat, NEW draw \in Node
  PROVE  Proper(n, s, t, at, GossipDispatch(conf, n, s, t, at, begin, draw))
<1>1. begin + conf.gossip \in Nat /\ {"GOSSIP", "INTERNAL"} \subseteq DOMAIN TagValue
  BY CollectiveType DEF TagValue
<1>2. Proper(n, s, t, at, Outcome("DONE_PHASE", <<>>, s)) \/ t.type = "RecvEnd"
  BY Few DEF Proper, Outcome, Result, Colours, State
<1>3. CASE t.type = "Init"
  <2>1. ~ GossipOver(conf, begin, at) =>
          TimerRequest("INTERNAL", begin + conf.gossip, n) \in Wish(n, at)
    BY <1>1, RequestTypes DEF GossipOver
  <2>2. PICK wish \in Seq(Wish(n, at)) : wish = IF s.reached THEN <<IdleRequest(n)>> ELSE <<>>
    BY Few, RequestTypes
  <2>3. ~ GossipOver(conf, begin, at) =>
          <<TimerRequest("INTERNAL", begin + conf.gossip, n)>> \o wish \in Seq(Wish(n, at))
    BY <2>1, Few
  <2>4. GossipDispatch(conf, n, s, t, at, begin, draw)
          = IF GossipOver(conf, begin, at) THEN Outcome("DONE_PHASE", <<>>, s)
            ELSE Outcome("ONGOING", <<TimerRequest("INTERNAL", begin + conf.gossip, n)>> \o wish, s)
    BY <1>3, <2>2 DEF GossipDispatch, GossipInit
  <2> QED BY <1>2, <1>3, <2>3, <2>4 DEF Proper, Outcome, Result, Colours
<1>4. CASE t.type = "Idle"
  <2>1. <<SendRequest("GOSSIP", at, n, draw)>> \in Seq(Wish(n, at))
    BY <1>1, Few, RequestTypes
  <2> QED BY <1>2, <1>4, <2>1 DEF GossipDispatch, GossipIdle, Proper, Outcome, Result, Colours
<1>5. CASE t.type = "Timer"
  BY <1>5, Few DEF GossipDispatch, GossipTimer, Proper, Outcome, Result, Colours
<1>6. CASE t.type = "RecvEnd"
  <2>1. PICK r \in State : r = [s EXCEPT !.reached = TRUE]
    BY DEF State
  <2>2. r.cur = s.cur /\ r.reached
    BY <2>1 DEF State
  <2>3. GossipDispatch(conf, n, s, t, at, begin, draw)
          = IF t.tag # "GOSSIP" THEN Outcome("DONE_COLL", <<>>, s)
            ELSE IF GossipOver(conf, begin, at) THEN Outcome("DONE_PHASE", <<>>, r)
            ELSE Outcome("ONGOING", <<IdleRequest(n)>>, r)
    BY <1>6, <2>1 DEF GossipDispatch, GossipRecvEnd
  <2> QED BY <1>6, <2>2, <2>3, Few, RequestTypes DEF Proper, Outcome, Result, Colours
<1>7. CASE t.type = "SendEnd"
  BY <1>7, Few, RequestTypes DEF GossipDispatch, Proper, Outcome, Result, Colours
<1>8. CASE t.type \notin {"Init", "Idle", "Timer", "RecvEnd", "SendEnd"}
  BY <1>8, OngoingProper DEF GossipDispatch
<1> QED BY <1>3, <1>4, <1>5, <1>6, <1>7, <1>8

LEMMA GatherSendsProper ==
  ASSUME TypeOK, NEW n \in Node, NEW s \in State, NEW t, NEW at \in Nat,
         NEW r \in State, r.cur = s.cur, Colours(t, s, Ongoing(r))
  PROVE  Proper(n, s, t, at, GatherSends(conf, n, r, at))
<1>1. \A m \in Upwards(conf, n) : SendRequest("GATHER", at, n, m) \in Wish(n, at)
  BY CollectiveType, RequestTypes DEF Upwards, TagValue
<1>2. PICK reqs \in Seq(Wish(n, at)) :
        reqs = IF Upwards(conf, n) = {} THEN <<>>
               ELSE <<SendRequest("GATHER", at, n, CHOOSE m \in Upwards(conf, n) : TRUE)>>
  BY <1>1, Few
<1>3. PICK sent \in State : sent = [r EXCEPT !.toReceive = @ - 1]
  <2>1. PICK k \in Int : k = r.toReceive - 1
    BY DEF State
  <2> QED BY <2>1 DEF State
<1>4. sent.cur = s.cur /\ sent.reached = r.reached
  BY <1>3 DEF State
<1>5. GatherSends(conf, n, r, at)
        = IF r.toReceive > 0 THEN Ongoing(r) ELSE Outcome("DONE_PHASE", reqs, sent)
  BY <1>2, <1>3 DEF GatherSends
<1> QED BY <1>4, <1>5, Few DEF Proper, Outcome, Result, Colours, Ongoing

LEMMA GatherProper ==
  ASSUME TypeOK, NEW n \in Node, NEW s \in State, NEW t, NEW at \in Nat
  PROVE  Proper(n, s, t, at, GatherDispatch(conf, n, s, t, at))
<1>1. Colours(t, s, Ongoing(s))
  BY DEF Colours, Ongoing, Outcome
<1>2. Proper(n, s, t, at, GatherInit(conf, n, s, at))
  BY <1>1, GatherSendsProper, OngoingProper DEF GatherInit
<1>3. CASE t.type = "RecvEnd"
  <2>1. PICK r \in State : r = [s EXCEPT !.reached = TRUE, !.toReceive = @ - 1]
    <3>1. PICK k \in Int : k = s.toReceive - 1
      BY DEF State
    <3> QED BY <3>1 DEF State
  <2>2. r.cur = s.cur /\ r.reached
    BY <2>1 DEF State
  <2>3. Colours(t, s, Ongoing(r))
    BY <1>3, <2>2 DEF Colours, Ongoing, Outcome
  <2> QED BY <1>3, <2>1, <2>2, <2>3, GatherSendsProper DEF GatherDispatch, GatherRecvEnd
<1> QED BY <1>2, <1>3, OngoingProper DEF GatherDispatch

-----------------------------------------------------------------------------
(* Multiple trees. *)

(* Induction over an interval, for a set in place of a predicate. *)
LEMMA UpTo ==
  ASSUME NEW k \in Nat, NEW good, 0 \in good, \A i \in 0 .. k : i \in good => i + 1 \in good
  PROVE  \A i \in 0 .. k : i \in good
<1> DEFINE bad == {i \in 0 .. k : i \notin good}
<1> SUFFICES ASSUME bad # {} PROVE FALSE
  OBVIOUS
<1>1. bad \in SUBSET Nat
  OBVIOUS
<1>2. PICK j \in bad : \A x \in bad : j <= x
  <2> HIDE DEF bad
  <2> QED BY <1>1, LeastNatural
<1>3. j \in 0 .. k /\ j # 0 /\ j \notin good
  OBVIOUS
<1>4. j - 1 \in 0 .. k /\ j - 1 \notin bad
  <2>1. j - 1 \in 0 .. k /\ ~ (j <= j - 1)
    BY <1>3
  <2> QED BY <1>2, <2>1
<1>5. j - 1 \in good /\ (j - 1) + 1 = j
  BY <1>3, <1>4
<1> QED BY <1>3, <1>4, <1>5

(* The sequences one gets by appending part after part. *)
LEMMA Appended ==
  ASSUME NEW S, NEW k \in Nat, NEW parts \in [1 .. k -> Seq(S)]
  PROVE  /\ \E f : f = [i \in 0 .. k |-> IF i = 0 THEN <<>> ELSE f[i - 1] \o parts[i]]
         /\ \A f : f = [i \in 0 .. k |-> IF i = 0 THEN <<>> ELSE f[i - 1] \o parts[i]]
                     => f[k] \in Seq(S)
<1> DEFINE Good(j, g) == /\ g[0] = <<>>
                         /\ \A i \in 1 .. j : i <= k => g[i] = g[i - 1] \o parts[i]
           good == {j \in 0 .. k + 1 : \E g \in [0 .. k -> Seq(S)] : Good(j, g)}
<1>1. 0 \in good
  <2>1. [i \in 0 .. k |-> <<>>] \in [0 .. k -> Seq(S)]
    BY Few
  <2>2. Good(0, [i \in 0 .. k |-> <<>>])
    OBVIOUS
  <2> HIDE DEF Good
  <2>3. \E g \in [0 .. k -> Seq(S)] : Good(0, g)
    BY <2>1, <2>2
  <2> QED BY <2>3
<1>2. ASSUME NEW j \in 0 .. k, j \in good PROVE j + 1 \in good
  <2>1. PICK g \in [0 .. k -> Seq(S)] : Good(j, g)
    BY <1>2
  <2>2. CASE j = k
    <3>1. Good(j + 1, g)
      <4>1. ASSUME NEW i \in 1 .. j + 1, i <= k PROVE i \in 1 .. j
        BY <2>2, <4>1
      <4> QED BY <2>1, <4>1
    <3> HIDE DEF Good
    <3> QED BY <3>1
  <2>3. CASE j < k
    <3> DEFINE h == [i \in 0 .. k |-> IF i = j + 1 THEN g[j] \o parts[j + 1] ELSE g[i]]
    <3>1. g[j] \in Seq(S) /\ parts[j + 1] \in Seq(S)
      BY <2>3
    <3>2. g[j] \o parts[j + 1] \in Seq(S)
      BY <3>1, Few
    <3>3. h \in [0 .. k -> Seq(S)]
      <4>1. PICK x \in Seq(S) : x = g[j] \o parts[j + 1]
        BY <3>2
      <4> QED BY <4>1
    <3>4. h[0] = <<>>
      BY <2>1
    <3>5. ASSUME NEW i \in 1 .. j + 1, i <= k PROVE h[i] = h[i - 1] \o parts[i]
      <4>1. CASE i = j + 1
        <5>1. h[i] = g[j] \o parts[j + 1] /\ i - 1 = j /\ h[j] = g[j]
          BY <2>3, <4>1
        <5> HIDE DEF h
        <5> QED BY <4>1, <5>1
      <4>2. CASE i # j + 1
        <5>1. i \in 1 .. j /\ h[i] = g[i] /\ h[i - 1] = g[i - 1]
          BY <2>3, <4>2
        <5> HIDE DEF h
        <5> QED BY <2>1, <3>5, <5>1
      <4> QED BY <4>1, <4>2
    <3> HIDE DEF h
    <3>6. Good(j + 1, h)
      BY <3>4, <3>5
    <3> HIDE DEF Good
    <3>7. \E x \in [0 .. k -> Seq(S)] : Good(j + 1, x)
      BY <3>3, <3>6
    <3> QED BY <3>7
  <2>4. j = k \/ j < k
    OBVIOUS
  <2> HIDE DEF good
  <2> QED BY <2>2, <2>3, <2>4
<1>3. k \in good
  <2> HIDE DEF good
  <2>1. \A i \in 0 .. k : i \in good
    BY <1>1, <1>2, UpTo
  <2> QED BY <2>1
<1>4. PICK g \in [0 .. k -> Seq(S)] : Good(k, g)
  BY <1>3
<1>5. g = [i \in 0 .. k |-> IF i = 0 THEN <<>> ELSE g[i - 1] \o parts[i]]
  <2>1. ASSUME NEW i \in 0 .. k
        PROVE  g[i] = IF i = 0 THEN <<>> ELSE g[i - 1] \o parts[i]
    <3>1. i # 0 => i \in 1 .. k /\ i <= k
      OBVIOUS
    <3> QED BY <1>4, <3>1
  <2> QED BY <2>1
<1>6. ASSUME NEW f, f = [i \in 0 .. k |-> IF i = 0 THEN <<>> ELSE f[i - 1] \o parts[i]]
      PROVE  f[k] \in Seq(S)
  <2> DEFINE right == {i \in 0 .. k + 1 : i <= k => f[i] \in Seq(S)}
  <2>1. ASSUME NEW i \in 0 .. k
        PROVE  f[i] = IF i = 0 THEN <<>> ELSE f[i - 1] \o parts[i]
    BY <1>6, Zenon
  <2>2. 0 \in right
    <3>1. 0 \in 0 .. k /\ 0 \in 0 .. k + 1
      OBVIOUS
    <3>2. f[0] = <<>>
      BY <2>1, <3>1
    <3> QED BY <3>1, <3>2, Few
  <2>3. ASSUME NEW i \in 0 .. k, i \in right PROVE i + 1 \in right
    <3>1. CASE i = k
      BY <3>1
    <3>2. CASE i < k
      <4>1. f[i] \in Seq(S) /\ parts[i + 1] \in Seq(S) /\ i + 1 \in 0 .. k /\ i + 1 # 0 /\ (i + 1) - 1 = i
        BY <2>3, <3>2
      <4>2. f[i + 1] = f[i] \o parts[i + 1]
        BY <2>1, <4>1
      <4>3. f[i + 1] \in Seq(S)
        BY <4>1, <4>2, Few
      <4> QED BY <4>1, <4>3
    <3> QED BY <3>1, <3>2
  <2>4. k \in right
    <3> HIDE DEF right
    <3>1. \A i \in 0 .. k : i \in right
      BY <2>2, <2>3, UpTo
    <3> QED BY <3>1
  <2> QED BY <2>4
<1> QED BY <1>5, <1>6

LEMMA InnerCountType ==
  ASSUME TypeOK
  PROVE  InnerCount(conf) \in 1 .. conf.P
<1> DEFINE S == {i \in 1 .. conf.P : i = conf.P \/ conf.receivers[i] = <<>>}
<1>1. conf.P \in Nat \ {0}
  BY CollectiveType
<1>2. S \subseteq Nat /\ conf.P \in S
  BY <1>1
<1>3. PICK i \in S : \A x \in S : i <= x
  BY <1>2, LeastNatural
<1>4. \A j \in 1 .. i - 1 : conf.receivers[j] # <<>>
  BY <1>1, <1>3
<1>5. \E x \in 1 .. conf.P : /\ x = conf.P \/ conf.receivers[x] = <<>>
                             /\ \A j \in 1 .. x - 1 : conf.receivers[j] # <<>>
  BY <1>3, <1>4
<1> QED BY <1>5 DEF InnerCount

LEMMA TreeRootsType ==
  ASSUME TypeOK
  PROVE  /\ Len(TreeRoots(conf)) \in Nat \ {0}
         /\ TreeRoots(conf) \in [1 .. Len(TreeRoots(conf)) -> Nat]
         /\ \A i \in 2 .. Len(TreeRoots(conf)) : TreeRoots(conf)[i] >= InnerCount(conf)
<1>1. PICK inner \in Nat \ {0} : inner = InnerCount(conf)
  BY InnerCountType, CollectiveType
<1>2. PICK d \in Nat : d = conf.d
  BY CollectiveType
<1>3. CASE d <= 1
  BY <1>2, <1>3 DEF TreeRoots
<1>4. CASE d > 1
  <2>1. TreeRoots(conf) = [i \in 1 .. d |-> (i - 1) * inner]
    BY <1>1, <1>2, <1>4 DEF TreeRoots
  <2>2. \A i \in 1 .. d : (i - 1) * inner \in Nat
    OBVIOUS
  <2>3. Len(TreeRoots(conf)) = d
    BY <1>4, <2>1
  <2>4. \A i \in 2 .. d : (i - 1) * inner >= inner
    <3>1. SUFFICES ASSUME NEW j \in Nat PROVE (j + 1) * inner >= inner
      OBVIOUS
    <3>2. j * inner \in Nat /\ (j + 1) * inner = j * inner + inner
      OBVIOUS
    <3> QED BY <3>2
  <2> QED BY <1>1, <1>4, <2>1, <2>2, <2>3, <2>4
<1> QED BY <1>2, <1>3, <1>4

(* Division with remainder. *)
LEMMA Divided ==
  ASSUME NEW P \in Nat \ {0}, NEW a \in Int
  PROVE  \E q \in Int : a = q * P + (a % P) /\ a % P \in 0 .. P - 1
<1>1. a = P * (a \div P) + (a % P)
  <2>1. P \in Nat /\ P > 0
    OBVIOUS
  <2> QED BY <2>1, Z3
<1>2. a \div P \in Int /\ a % P \in 0 .. P - 1
  OBVIOUS
<1>3. PICK q \in Int, m \in 0 .. P - 1 : q = a \div P /\ m = a % P
  BY <1>2
<1>4. a = P * q + m
  BY <1>1, <1>3
<1>5. a = q * P + m
  BY <1>4
<1> QED BY <1>3, <1>5

(* No multiple of P is between - P and P but 0. *)
LEMMA NoMultiple ==
  ASSUME NEW P \in Nat \ {0}, NEW x \in Int, x * P < P, x * P > - P
  PROVE  x = 0
<1>1. x = 0 \/ x >= 1 \/ x <= -1
  OBVIOUS
<1>2. \A i \in Nat : i * P >= 0
  OBVIOUS
<1>3. x >= 1 => x * P >= P
  <2>1. x >= 1 => (x - 1) \in Nat /\ (x - 1) * P = x * P - P
    OBVIOUS
  <2>2. x >= 1 => (x - 1) * P >= 0
    BY <1>2, <2>1
  <2> QED BY <2>1, <2>2
<1>4. x <= -1 => x * P <= - P
  <2>1. x <= -1 => (- x - 1) \in Nat /\ (- x - 1) * P = - (x * P) - P
    OBVIOUS
  <2>2. x <= -1 => (- x - 1) * P >= 0
    BY <1>2, <2>1
  <2> QED BY <2>1, <2>2
<1> QED BY <1>1, <1>3, <1>4

(* Different ranks are different nodes, whatever the ranks are shifted by. *)
LEMMA Shifted ==
  ASSUME NEW P \in Nat \ {0}, NEW n \in 0 .. P - 1, NEW m \in 0 .. P - 1, NEW root \in Nat,
         m # (n - root + P) % P
  PROVE  (m + root) % P # n
<1> SUFFICES ASSUME (m + root) % P = n PROVE FALSE
  OBVIOUS
<1>1. PICK q \in Int : m + root = q * P + n
  <2>1. PICK a \in Int : a = m + root
    OBVIOUS
  <2>2. PICK q \in Int : a = q * P + (a % P)
    BY Divided
  <2> QED BY <2>1, <2>2
<1>2. PICK v \in 0 .. P - 1, k \in Int : v = (n - root + P) % P /\ n - root + P = k * P + v
  <2>1. PICK a \in Int : a = n - root + P
    OBVIOUS
  <2>2. PICK k \in Int : a = k * P + (a % P) /\ a % P \in 0 .. P - 1
    BY Divided
  <2> QED BY <2>1, <2>2
<1>3. m - v = (q + k - 1) * P
  BY <1>1, <1>2
<1>4. PICK x \in Int : x = q + k - 1
  OBVIOUS
<1>5. x * P = m - v /\ x * P < P /\ x * P > - P
  BY <1>2, <1>3, <1>4
<1>6. x = 0
  BY <1>5, NoMultiple
<1> QED BY <1>2, <1>5, <1>6

(* So are two nodes less than all the way round apart. *)
LEMMA Apart ==
  ASSUME NEW P \in Nat \ {0}, NEW n \in 0 .. P - 1, NEW k \in Int, k # 0, k < P, k > - P
  PROVE  (n + k + P) % P # n
<1> SUFFICES ASSUME (n + k + P) % P = n PROVE FALSE
  OBVIOUS
<1>1. PICK a \in Int : a = n + k + P
  OBVIOUS
<1>2. PICK q \in Int : a = q * P + (a % P)
  BY Divided
<1>3. PICK x \in Int : x = q - 1
  OBVIOUS
<1>4. x * P = k
  BY <1>1, <1>2, <1>3
<1>5. x = 0
  BY <1>4, NoMultiple
<1> QED BY <1>4, <1>5

LEMMA TreeSendsType ==
  ASSUME TypeOK, NEW n \in Node, NEW at \in Nat, NEW root \in Nat
  PROVE  TreeSends(conf, n, at, root) \in Seq(Posts(n, at))
<1>1. conf.P \in Nat \ {0} /\ n \in Int
  BY CollectiveType DEF Node
<1>2. ToVirtual(conf, n, root) \in Node
  BY <1>1 DEF ToVirtual, Node
<1>3. PICK v \in Node : v = ToVirtual(conf, n, root)
  BY <1>2
<1>4. PICK k \in Nat : DOMAIN conf.receivers[v] = 1 .. k /\ conf.receivers[v] \in [1 .. k -> Node]
  <2>1. conf.receivers[v] \in Seq(Node)
    BY CollectiveType
  <2> QED BY <2>1
<1>5. \A m \in Node : m # v => ToReal(conf, m, root) \in Node /\ ToReal(conf, m, root) # n
  <2>1. \A m \in Node : ToReal(conf, m, root) \in Node
    BY <1>1 DEF ToReal, Node
  <2>2. ASSUME NEW m \in Node, m # v
        PROVE  ToReal(conf, m, root) # n
    BY <1>1, <1>3, <2>2, Shifted DEF ToReal, ToVirtual, Node
  <2> QED BY <2>1, <2>2
<1>6. \A i \in 1 .. k : conf.receivers[v][i] # v
  BY <1>4, CollectiveType DEF IsCollective, Node
<1>7. \A i \in 1 .. k : SendRequest("TREE", at, n, ToReal(conf, conf.receivers[v][i], root)) \in Posts(n, at)
  BY <1>4, <1>5, <1>6, PostsType DEF TagValue
<1> QED BY <1>3, <1>4, <1>7 DEF TreeSends

LEMMA MultiTreeSendsType ==
  ASSUME TypeOK, NEW n \in Node, NEW at \in Nat
  PROVE  MultiTreeSends(conf, n, at) \in Seq(Posts(n, at))
<1>1. PICK k \in Nat : k = Len(TreeRoots(conf))
  BY TreeRootsType
<1> DEFINE parts == [i \in 1 .. k |-> TreeSends(conf, n, at, TreeRoots(conf)[i])]
           Sends(f) == [i \in 0 .. k |-> IF i = 0 THEN <<>> ELSE f[i - 1] \o parts[i]]
<1>2. parts \in [1 .. k -> Seq(Posts(n, at))]
  BY <1>1, TreeRootsType, TreeSendsType
<1>3. MultiTreeSends(conf, n, at)
        = (CHOOSE f : f = [i \in 0 .. k |-> IF i = 0 THEN <<>>
                                            ELSE f[i - 1] \o TreeSends(conf, n, at, TreeRoots(conf)[i])])[k]
  BY <1>1 DEF MultiTreeSends
<1>4. \A f : [i \in 0 .. k |-> IF i = 0 THEN <<>> ELSE f[i - 1] \o TreeSends(conf, n, at, TreeRoots(conf)[i])]
               = Sends(f)
  OBVIOUS
<1>5. \E f : f = Sends(f)
  <2> HIDE DEF parts
  <2>1. /\ \E f : f = [i \in 0 .. k |-> IF i = 0 THEN <<>> ELSE f[i - 1] \o parts[i]]
        /\ \A f : f = [i \in 0 .. k |-> IF i = 0 THEN <<>> ELSE f[i - 1] \o parts[i]]
                   => f[k] \in Seq(Posts(n, at))
    BY <1>2, Appended, Zenon
  <2> QED BY <2>1, Zenon
<1>6. \A f : f = Sends(f) => f[k] \in Seq(Posts(n, at))
  <2> HIDE DEF parts
  <2> QED BY <1>2, Appended, Zenon
<1> HIDE DEF Sends
<1> QED BY <1>3, <1>4, <1>5, <1>6, Zenon

(* Only the root sends when it is initialised: see StartUp. *)
LEMMA MultiTreePosts ==
  ASSUME TypeOK, NEW n \in Node, NEW s \in State, NEW t, NEW at \in Nat,
         t.type = "Init" /\ s.reached => n = 0 /\ TreesFit(conf)
  PROVE  LET out == MultiTreeDispatch(conf, n, s, t, at)
         IN Proper(n, s, t, at, out) /\ out.reqs \in Seq(Posts(n, at))
<1>1. CASE t.type = "Init" /\ s.reached
  <2>1. n = 0 /\ TreesFit(conf)
    BY <1>1
  <2>2. PICK k \in Nat \ {0} : k = Len(TreeRoots(conf))
    BY TreeRootsType
  <2>3. \A i \in 1 .. k - 1 : TreeRoots(conf)[i + 1] \in Node \ {0}
    <3>1. ASSUME NEW i \in 2 .. k
          PROVE  TreeRoots(conf)[i] \in Node \ {0}
      <4>1. /\ TreeRoots(conf)[i] \in Nat /\ TreeRoots(conf)[i] + InnerCount(conf) <= conf.P
            /\ TreeRoots(conf)[i] >= InnerCount(conf)
        BY <2>1, <2>2, TreeRootsType DEF TreesFit
      <4> QED BY <4>1, InnerCountType, CollectiveType DEF Node
    <3> QED BY <3>1
  <2>4. \A i \in 1 .. k - 1 : SendRequest("GOSSIP", at, 0, TreeRoots(conf)[i + 1]) \in Posts(n, at)
    BY <2>1, <2>3, PostsType DEF TagValue
  <2>5. [i \in 1 .. k - 1 |-> SendRequest("GOSSIP", at, 0, TreeRoots(conf)[i + 1])] \in Seq(Posts(n, at))
    BY <2>4
  <2>6. MultiTreeSends(conf, 0, at) \in Seq(Posts(n, at))
    BY <2>1, MultiTreeSendsType
  <2>7. PICK reqs \in Seq(Posts(n, at)) : MultiTreeDispatch(conf, n, s, t, at) = Outcome("DONE_PHASE", reqs, s)
    BY <1>1, <2>2, <2>5, <2>6, Few DEF MultiTreeDispatch, MultiTreeInit
  <2>8. Colours(t, s, Outcome("DONE_PHASE", reqs, s)) /\ "DONE_PHASE" \in Result
    BY DEF Colours, Outcome, Result
  <2>9. reqs \in Seq(Wish(n, at))
    BY PostsType
  <2> QED BY <2>7, <2>8, <2>9 DEF Proper, Outcome
<1>2. CASE t.type = "RecvEnd"
  <2>1. PICK reqs \in Seq(Posts(n, at)) : reqs = IF s.reached THEN <<>> ELSE MultiTreeSends(conf, n, at)
    BY MultiTreeSendsType, Few
  <2>2. PICK r \in State : r = [s EXCEPT !.reached = TRUE]
    BY DEF State
  <2>3. r.cur = s.cur /\ r.reached
    BY <2>2 DEF State
  <2>4. MultiTreeDispatch(conf, n, s, t, at) = Outcome("DONE_PHASE", reqs, r)
    BY <1>2, <2>1, <2>2 DEF MultiTreeDispatch, MultiTreeRecvEnd
  <2>5. reqs \in Seq(Wish(n, at))
    BY PostsType
  <2> QED BY <1>2, <2>3, <2>4, <2>5 DEF Proper, Outcome, Result, Colours
<1>3. CASE t.type # "RecvEnd" /\ ~ (t.type = "Init" /\ s.reached)
  <2>1. MultiTreeDispatch(conf, n, s, t, at) = Ongoing(s)
    BY <1>3 DEF MultiTreeDispatch, MultiTreeInit
  <2> QED BY <2>1, OngoingProper, Few DEF Ongoing, Outcome
<1> QED BY <1>1, <1>2, <1>3

-----------------------------------------------------------------------------
(* The phase of a node, exclusive or not. *)

LEMMA PlainProper ==
  ASSUME TypeOK, start \in Nat, NEW ph, ph.kind \in Kinds, NEW n \in Node, NEW s \in State,
         NEW t \in Task, NEW at \in Nat, NEW draw \in Node,
         ph.kind = "MultiTree" /\ t.type = "Init" /\ s.reached => n = 0 /\ TreesFit(conf)
  PROVE  Proper(n, s, t, at, PlainDispatch(ph, n, s, t, at, draw))
<1>1. PICK begin \in Nat : begin = StartTime(at)
  BY DEF StartTime
<1>2. CASE ph.kind \in {"DepInit", "ReductionDepInit"}
  BY <1>2, DepInitProper DEF PlainDispatch
<1>3. CASE ph.kind = "Tree"
  BY <1>3, TreePosts DEF PlainDispatch
<1>4. CASE ph.kind = "Checked"
  BY <1>4, CheckedProper DEF PlainDispatch
<1>5. CASE ph.kind = "Opportunistic"
  BY <1>5, OpportunisticProper DEF PlainDispatch
<1>6. CASE ph.kind = "Gossip"
  BY <1>1, <1>6, GossipProper DEF PlainDispatch
<1>7. CASE ph.kind = "Gather"
  BY <1>7, GatherProper DEF PlainDispatch
<1>8. CASE ph.kind = "MultiTree"
  BY <1>8, MultiTreePosts DEF PlainDispatch
<1> QED BY <1>2, <1>3, <1>4, <1>5, <1>6, <1>7, <1>8 DEF Kinds, Stage

LEMMA ExclusiveProper ==
  ASSUME TypeOK, start \in Nat, NEW ph, ph.kind = "Tree", NEW n \in Node, NEW s \in State,
         NEW t \in Task, NEW at \in Nat, NEW draw \in Node
  PROVE  Proper(n, s, t, at, ExclusiveDispatch(ph, n, s, t, at, draw))
<1>1. PICK plain : plain = PlainDispatch(ph, n, s, t, at, draw) /\ Proper(n, s, t, at, plain)
  BY PlainProper DEF Kinds, Stage
<1>2. PICK inner : inner = Held(plain)
  OBVIOUS
<1>3. Proper(n, s, t, at, inner)
  BY <1>1, <1>2 DEF Held, Proper, Result, Colours
<1>4. PICK when \in Nat : when = AbsDeadline(at)
  BY CollectiveType DEF AbsDeadline, StartTime
<1>5. Proper(n, s, t, at, Outcome("DONE_PHASE", <<>>, s))
  BY Few DEF Proper, Outcome, Result, Colours, State
<1>7. CASE t.type = "Init"
  <2>1. when > at => TimerRequest("EXCLUSIVE", when, n) \in Wish(n, at)
    BY RequestTypes DEF TagValue
  <2>2. ASSUME when > at
        PROVE  Proper(n, s, t, at, [inner EXCEPT !.reqs = <<TimerRequest("EXCLUSIVE", when, n)>> \o @])
    <3>1. PICK reqs \in Seq(Wish(n, at)) : reqs = <<TimerRequest("EXCLUSIVE", when, n)>> \o inner.reqs
      BY <1>3, <2>1, <2>2, Few DEF Proper
    <3> QED BY <1>3, <3>1 DEF Proper, Colours
  <2>3. ExclusiveDispatch(ph, n, s, t, at, draw)
          = IF when <= at THEN Outcome("DONE_PHASE", <<>>, s)
            ELSE [inner EXCEPT !.reqs = <<TimerRequest("EXCLUSIVE", when, n)>> \o @]
    BY <1>1, <1>2, <1>4, <1>7 DEF ExclusiveDispatch
  <2> QED BY <1>5, <1>7, <2>2, <2>3
<1>8. CASE t.type \in {"Idle", "Timer", "RecvEnd"}
  BY <1>1, <1>2, <1>3, <1>5, <1>8 DEF ExclusiveDispatch
<1>9. CASE t.type \notin {"Init", "Idle", "Timer", "RecvEnd"}
  BY <1>9, OngoingProper DEF ExclusiveDispatch
<1> QED BY <1>7, <1>8, <1>9

-----------------------------------------------------------------------------
(* The combiner. *)

(* The state of the collective has its shape, and nobody is in a phase     *)
(* that does not exist: Last + 1 is to be through all of them.             *)
LocalOK ==
  /\ local \in [Node -> State] /\ \A n \in Node : local[n].cur \in 1 .. Last + 1
  /\ start \in Nat /\ colouredTime \in Nat
  /\ done \subseteq Node /\ coloured \subseteq Node

(* What Combiner::dispatch returns: the node may be in a later phase. *)
Combined(n, t, at, out) ==
  /\ out \in [res : Result, reqs : Seq(Demand(n, at)), s : State, again : SUBSET {t}]
  /\ out.s.cur \in local[n].cur .. Last + 1
  /\ out.again # {} => t.type = "RecvEnd" /\ out.s.cur > local[n].cur
  /\ Colours(t, local[n], out)

(* Only the root is reached when multiple trees begin: see StartUp. *)
RootBegins(n, t) ==
  InPhase(n, "MultiTree") /\ t.type = "Init" /\ local[n].reached => n = 0 /\ TreesFit(conf)

LEMMA PhasesType ==
  ASSUME TypeOK
  PROVE  /\ Last \in Nat \ {0}
         /\ \A i \in 1 .. Last :
              /\ conf.phases[i].kind \in Kinds /\ conf.phases[i].exclusive \in BOOLEAN
              /\ conf.phases[i].exclusive => conf.phases[i].kind = "Tree" /\ ~ conf.phases[i].forward
BY CollectiveType DEF IsCollective, Last

(* How the phases of a collective may follow each other. *)
LEMMA PhaseOrder ==
  ASSUME TypeOK, NEW i \in 1 .. Last
  PROVE  /\ conf.phases[i].kind \in {"Checked", "Opportunistic", "Gather", "MultiTree"} => i = Last
         /\ conf.phases[i].kind = "MultiTree" => \A j \in 1 .. i - 1 : conf.phases[j].kind = "DepInit"
         /\ conf.phases[i].kind = "Tree" => (conf.phases[i].forward => i < Last)
         /\ conf.phases[i].exclusive => \A j \in 1 .. Last : conf.phases[j].kind # "Gossip"
         /\ conf.phases[i].kind = "Opportunistic" => conf.d < conf.P
         /\ conf.phases[i].kind = "ReductionDepInit" => Options.kind = "Gather"
         /\ \A j \in 1 .. Last : conf.phases[i].kind = conf.phases[j].kind => i = j
         /\ \A j \in 1 .. i - 1 : Stage[conf.phases[j].kind] < Stage[conf.phases[i].kind]
<1>1. PICK c, last : c = conf /\ IsCollective(c) /\ last = Len(c.phases) /\ Last = last /\ last \in Nat
  BY CollectiveType, PhasesType DEF Last
<1>2. /\ c.phases[i].kind = "MultiTree" => \A j \in 1 .. i - 1 : c.phases[j].kind = "DepInit"
      /\ c.phases[i].kind = "Tree" => (c.phases[i].forward => i < last)
      /\ c.phases[i].exclusive => \A j \in 1 .. last : c.phases[j].kind # "Gossip"
      /\ c.phases[i].kind = "Opportunistic" => c.d < c.P
      /\ c.phases[i].kind = "ReductionDepInit" => c.phases[last].kind = "Gather"
  BY <1>1 DEF IsCollective
<1>3. \A j, k \in 1 .. last : /\ c.phases[j].kind \in Kinds
                              /\ k < j => Stage[c.phases[k].kind] < Stage[c.phases[j].kind]
  BY <1>1 DEF IsCollective
<1>4. \A kind \in Kinds : /\ Stage[kind] \in 1 .. 4
                          /\ Stage[kind] = 4 <=> kind \in {"Checked", "Opportunistic", "Gather", "MultiTree"}
  BY DEF Kinds, Stage
<1>5. c.phases[i].kind \in {"Checked", "Opportunistic", "Gather", "MultiTree"} => i = last
  BY <1>1, <1>3, <1>4
<1>6. \A j \in 1 .. last : c.phases[i].kind = c.phases[j].kind => i = j
  <2>1. SUFFICES ASSUME NEW j \in 1 .. last, c.phases[i].kind = c.phases[j].kind, i # j PROVE FALSE
    OBVIOUS
  <2>2. i < j \/ j < i
    BY <1>1, <2>1
  <2>3. Stage[c.phases[i].kind] < Stage[c.phases[j].kind] \/ Stage[c.phases[j].kind] < Stage[c.phases[i].kind]
    BY <1>1, <1>3, <2>2
  <2>4. Stage[c.phases[i].kind] \in 1 .. 4
    BY <1>1, <1>3, <1>4
  <2> QED BY <2>1, <2>3, <2>4
<1>7. \A j \in 1 .. i - 1 : Stage[c.phases[j].kind] < Stage[c.phases[i].kind]
  BY <1>1, <1>3
<1> QED BY <1>1, <1>2, <1>5, <1>6, <1>7 DEF Options

LEMMA MoveOnProper ==
  ASSUME TypeOK, LocalOK, NEW n \in Node, NEW t, NEW at \in Nat, local[n].cur <= Last,
         NEW out, Proper(n, local[n], t, at, out)
  PROVE  Combined(n, t, at, Switch(n, t, at, out))
<1>1. local[n] \in State /\ local[n].cur \in 1 .. Last /\ Last \in Nat
  BY PhasesType DEF LocalOK
<1>2. PICK cur \in Nat : cur = NextPhase(local[n].cur, out.res)
  BY <1>1 DEF NextPhase
<1>3. cur \in local[n].cur .. Last + 1 /\ (out.res = "DONE_FORWARD" => cur > local[n].cur)
  BY <1>1, <1>2 DEF NextPhase
<1>4. InitRequest(at, n) \in Demand(n, at) /\ out.reqs \in Seq(Demand(n, at))
  BY RequestTypes DEF Proper
<1>5. PICK s \in State : s = [out.s EXCEPT !.cur = cur]
  BY DEF Proper, State
<1>6. s.cur = cur /\ s.reached = out.s.reached
  BY <1>5 DEF Proper, State
<1>7. PICK reqs \in Seq(Demand(n, at)) :
        reqs = IF cur <= Last /\ cur > local[n].cur THEN Append(out.reqs, InitRequest(at, n)) ELSE out.reqs
  BY <1>4, Few DEF Proper
<1>8. PICK res \in Result : res = IF cur <= Last THEN "ONGOING" ELSE out.res
  BY DEF Proper, Result
<1>9. PICK again \in SUBSET {t} :
        again = IF cur <= Last /\ out.res = "DONE_FORWARD" THEN {t} ELSE {}
  OBVIOUS
<1>10. Switch(n, t, at, out) = [res |-> res, reqs |-> reqs, s |-> s, again |-> again]
  BY <1>2, <1>5, <1>7, <1>8, <1>9 DEF Switch, MoveOn
<1>11. Colours(t, local[n], out) /\ (out.res = "DONE_FORWARD" => t.type = "RecvEnd")
  BY DEF Proper
<1> QED BY <1>3, <1>6, <1>9, <1>10, <1>11 DEF Combined, Colours

(* What the phase of a node answers. *)
LEMMA InnerProper ==
  ASSUME TypeOK, LocalOK, NEW n \in Node, NEW t \in Task, NEW at \in Nat, NEW draw \in Node,
         RootBegins(n, t), local[n].cur <= Last
  PROVE  Proper(n, local[n], t, at, PhaseDispatch(conf.phases[local[n].cur], n, local[n], t, at, draw))
<1>1. local[n] \in State /\ local[n].cur \in 1 .. Last /\ start \in Nat
  BY PhasesType DEF LocalOK
<1>2. PICK ph : ph = conf.phases[local[n].cur]
  OBVIOUS
<1>3. /\ ph.kind \in Kinds /\ ph.exclusive \in BOOLEAN
      /\ ph.exclusive => ph.kind = "Tree"
  BY <1>1, <1>2, PhasesType
<1>4. ph.kind = "MultiTree" /\ t.type = "Init" /\ local[n].reached => n = 0 /\ TreesFit(conf)
  BY <1>2 DEF RootBegins, InPhase
<1>5. Proper(n, local[n], t, at, PhaseDispatch(ph, n, local[n], t, at, draw))
  BY <1>1, <1>3, <1>4, PlainProper, ExclusiveProper DEF PhaseDispatch
<1> QED BY <1>2, <1>5

LEMMA ForwardProper ==
  ASSUME TypeOK, LocalOK, NEW n \in Node, NEW t \in Task, NEW at \in Nat, NEW draw \in Node,
         RootBegins(n, t)
  PROVE  Combined(n, t, at, CombinerForward(n, t, at, draw))
<1>1. local[n] \in State /\ local[n].cur \in 1 .. Last + 1 /\ Last \in Nat
  BY PhasesType DEF LocalOK
<1>2. CASE local[n].cur > Last
  BY <1>1, <1>2, Few DEF CombinerForward, Nothing, Combined, Result, Colours
<1>3. CASE local[n].cur <= Last
  <2>1. PICK out : /\ out = PhaseDispatch(conf.phases[local[n].cur], n, local[n], t, at, draw)
                   /\ Proper(n, local[n], t, at, out)
    BY <1>3, InnerProper
  <2>2. CombinerForward(n, t, at, draw) = Switch(n, t, at, out)
    BY <1>1, <1>3, <2>1 DEF CombinerForward
  <2> QED BY <1>3, <2>1, <2>2, MoveOnProper
<1> QED BY <1>1, <1>2, <1>3

LEMMA CombinerProper ==
  ASSUME TypeOK, LocalOK, NEW n \in Node, NEW t \in Task, NEW at \in Nat, NEW draw \in Node,
         RootBegins(n, t)
  PROVE  LET out == CombinerDispatch(n, t, at, draw)
         IN Combined(n, t, at, out) /\ (t.type = "RecvEnd" => out.s.reached)
<1>1. PICK fwd : fwd = CombinerForward(n, t, at, draw) /\ Combined(n, t, at, fwd)
  BY ForwardProper
<1>2. local[n] \in State /\ local[n].cur \in 1 .. Last + 1 /\ Last \in Nat
  BY PhasesType DEF LocalOK
<1>3. CASE t.type = "Finish"
  BY <1>2, <1>3, Few DEF CombinerDispatch, Nothing, Combined, Result, Colours
<1>4. CASE t.type = "RecvEnd"
  <2>1. PICK s \in State : s = [fwd.s EXCEPT !.reached = TRUE]
    BY <1>1 DEF Combined, State
  <2>2. s.reached /\ s.cur = fwd.s.cur
    BY <1>1, <2>1 DEF Combined, State
  <2>3. CombinerDispatch(n, t, at, draw) = [fwd EXCEPT !.s = s]
    BY <1>1, <1>4, <2>1 DEF CombinerDispatch, Colour, Combined
  <2> QED BY <1>1, <1>4, <2>2, <2>3 DEF Combined, Colours
<1>5. CASE t.type \notin {"Finish", "RecvEnd"}
  BY <1>1, <1>5 DEF CombinerDispatch, Colour
<1> QED BY <1>3, <1>4, <1>5

(* What the collective asks for altogether is what the open engine expects. *)
LEMMA AcceptProper ==
  ASSUME TypeOK, NEW t \in Task, NEW out, Combined(NotifiedNode(t), t, Clock(t), out)
  PROVE  Accept(NotifiedNode(t), out) \in Asks(t)
BY Few, RequestTypes, ClockType DEF Accept, Asks, Combined

(* The three ways a combiner answers. *)
LEMMA CombinerCases ==
  ASSUME TypeOK, LocalOK, NEW n \in Node, NEW t \in Task, NEW at \in Nat, NEW draw \in Node,
         RootBegins(n, t)
  PROVE  LET out == CombinerDispatch(n, t, at, draw)
         IN \/ t.type = "Finish" /\ out = Nothing(n, "ONGOING")
            \/ t.type # "Finish" /\ local[n].cur > Last /\ out = Colour(t, Nothing(n, "DONE_PHASE"))
            \/ /\ t.type # "Finish" /\ local[n].cur \in 1 .. Last
               /\ \E inner : /\ inner = PhaseDispatch(conf.phases[local[n].cur], n, local[n], t, at, draw)
                             /\ Proper(n, local[n], t, at, inner)
                             /\ out = Colour(t, Switch(n, t, at, inner))
<1>1. local[n] \in State /\ local[n].cur \in 1 .. Last + 1 /\ Last \in Nat
  BY PhasesType DEF LocalOK
<1>2. CASE t.type = "Finish"
  BY <1>2 DEF CombinerDispatch
<1>3. CASE t.type # "Finish" /\ local[n].cur > Last
  BY <1>3 DEF CombinerDispatch, CombinerForward
<1>4. CASE t.type # "Finish" /\ local[n].cur <= Last
  <2>1. PICK inner : /\ inner = PhaseDispatch(conf.phases[local[n].cur], n, local[n], t, at, draw)
                     /\ Proper(n, local[n], t, at, inner)
    BY <1>4, InnerProper
  <2>2. CombinerDispatch(n, t, at, draw) = Colour(t, Switch(n, t, at, inner))
    BY <1>1, <1>4, <2>1 DEF CombinerDispatch, CombinerForward
  <2>3. local[n].cur \in 1 .. Last
    BY <1>1, <1>4
  <2> QED BY <1>4, <2>1, <2>2, <2>3
<1> QED BY <1>1, <1>2, <1>3, <1>4

(* The state of a node whose phase answered, and what is reported of it. *)
LEMMA SwitchState ==
  ASSUME TypeOK, LocalOK, NEW n \in Node, NEW t, NEW at, NEW inner, inner.s \in State,
         NEW out, out = Colour(t, Switch(n, t, at, inner))
  PROVE  /\ out.s.cur = NextPhase(local[n].cur, inner.res)
         /\ out.res = IF out.s.cur <= Last THEN "ONGOING" ELSE inner.res
         /\ out.s.left = inner.s.left /\ out.s.right = inner.s.right /\ out.s.nowLeft = inner.s.nowLeft
         /\ out.s.sentLeft = inner.s.sentLeft /\ out.s.sentRight = inner.s.sentRight
         /\ out.s.toReceive = inner.s.toReceive
         /\ out.s.reached <=> t.type = "RecvEnd" \/ inner.s.reached
<1>1. PICK cur : cur = NextPhase(local[n].cur, inner.res)
  OBVIOUS
<1>2. PICK s : s = [inner.s EXCEPT !.cur = cur]
  OBVIOUS
<1>3. /\ s.cur = cur /\ s.left = inner.s.left /\ s.right = inner.s.right /\ s.nowLeft = inner.s.nowLeft
      /\ s.sentLeft = inner.s.sentLeft /\ s.sentRight = inner.s.sentRight
      /\ s.toReceive = inner.s.toReceive /\ s.reached = inner.s.reached
      /\ DOMAIN s = DOMAIN inner.s /\ DOMAIN inner.s = {"reached", "cur", "left", "right", "nowLeft",
                                                         "sentLeft", "sentRight", "toReceive"}
  BY <1>2 DEF State
<1>4. PICK moved : moved = Switch(n, t, at, inner)
  OBVIOUS
<1>5. moved.s = s /\ moved.res = (IF cur <= Last THEN "ONGOING" ELSE inner.res)
      /\ DOMAIN moved = {"res", "reqs", "s", "again"}
  BY <1>1, <1>2, <1>4 DEF Switch, MoveOn
<1>6. CASE t.type = "RecvEnd"
  <2>1. PICK r : r = [s EXCEPT !.reached = TRUE]
    OBVIOUS
  <2>2. out = [moved EXCEPT !.s = r]
    BY <1>4, <1>5, <1>6, <2>1 DEF Colour
  <2>3. out.s = r /\ out.res = moved.res
    BY <1>5, <2>2
  <2>4. /\ r.cur = s.cur /\ r.left = s.left /\ r.right = s.right /\ r.nowLeft = s.nowLeft
        /\ r.sentLeft = s.sentLeft /\ r.sentRight = s.sentRight /\ r.toReceive = s.toReceive
        /\ r.reached
    BY <1>3, <2>1
  <2> QED BY <1>1, <1>3, <1>5, <1>6, <2>3, <2>4
<1>7. CASE t.type # "RecvEnd"
  <2>1. out = moved
    BY <1>4, <1>7 DEF Colour
  <2> QED BY <1>1, <1>3, <1>5, <1>7, <2>1
<1> QED BY <1>6, <1>7

RangeOf(reqs) == {reqs[i] : i \in DOMAIN reqs}

LEMMA AppendRange ==
  ASSUME NEW S, NEW a \in Seq(S), NEW x
  PROVE  RangeOf(Append(a, x)) = RangeOf(a) \cup {x}
<1>1. PICK k \in Nat : DOMAIN a = 1 .. k /\ Len(a) = k
  OBVIOUS
<1>2. DOMAIN Append(a, x) = 1 .. k + 1 /\ Append(a, x)[k + 1] = x
      /\ \A i \in 1 .. k : Append(a, x)[i] = a[i]
  BY <1>1
<1>3. 1 .. k + 1 = (1 .. k) \cup {k + 1}
  OBVIOUS
<1>4. ASSUME NEW b, b = Append(a, x) PROVE {b[i] : i \in DOMAIN b} = {a[i] : i \in DOMAIN a} \cup {x}
  <2>1. DOMAIN b = DOMAIN a \cup {k + 1} /\ b[k + 1] = x /\ \A i \in DOMAIN a : b[i] = a[i]
    BY <1>1, <1>2, <1>3, <1>4
  <2> QED BY <2>1, Zenon
<1> QED BY <1>4 DEF RangeOf

LEMMA ConcatRange ==
  ASSUME NEW S, NEW a \in Seq(S), NEW b \in Seq(S)
  PROVE  RangeOf(a \o b) = RangeOf(a) \cup RangeOf(b)
<1>1. PICK j \in Nat, k \in Nat : DOMAIN a = 1 .. j /\ Len(a) = j /\ DOMAIN b = 1 .. k /\ Len(b) = k
  OBVIOUS
<1>2. PICK c : c = a \o b
  OBVIOUS
<1>3. /\ DOMAIN c = 1 .. j + k
      /\ \A i \in 1 .. j + k : c[i] = IF i <= j THEN a[i] ELSE b[i - j]
  <2>1. c \in Seq(S) /\ Len(c) = j + k /\ \A i \in 1 .. j + k : c[i] = IF i <= j THEN a[i] ELSE b[i - j]
    BY <1>1, <1>2, ConcatProperties
  <2> QED BY <2>1
<1>4. ASSUME NEW i \in 1 .. j + k
      PROVE  c[i] \in RangeOf(a) \cup RangeOf(b)
  <2>1. CASE i <= j
    BY <1>1, <1>3, <2>1 DEF RangeOf
  <2>2. CASE i > j
    <3>1. i - j \in 1 .. k /\ c[i] = b[i - j]
      BY <1>3, <2>2
    <3> QED BY <1>1, <3>1 DEF RangeOf
  <2> QED BY <2>1, <2>2
<1>5. ASSUME NEW i \in 1 .. j
      PROVE  a[i] \in RangeOf(c)
  <2>1. i \in 1 .. j + k /\ c[i] = a[i]
    BY <1>3
  <2> QED BY <1>3, <2>1 DEF RangeOf
<1>6. ASSUME NEW i \in 1 .. k
      PROVE  b[i] \in RangeOf(c)
  <2>1. i + j \in 1 .. j + k /\ c[i + j] = b[i]
    BY <1>3
  <2> QED BY <1>3, <2>1 DEF RangeOf
<1>7. RangeOf(c) \subseteq RangeOf(a) \cup RangeOf(b)
  BY <1>3, <1>4 DEF RangeOf
<1>8. RangeOf(a) \subseteq RangeOf(c) /\ RangeOf(b) \subseteq RangeOf(c)
  BY <1>1, <1>5, <1>6 DEF RangeOf
<1> QED BY <1>2, <1>7, <1>8

LEMMA FewRange ==
  /\ RangeOf(<<>>) = {}
  /\ \A x : RangeOf(<<x>>) = {x}
  /\ \A x, y : RangeOf(<<x, y>>) = {x, y}
BY DEF RangeOf

(* All that is asked for when a node is notified. *)
LEMMA Asked ==
  ASSUME TypeOK, LocalOK, NEW n \in Node, NEW t \in Task, NEW at \in Nat, NEW out
  PROVE  /\ out = Nothing(n, "ONGOING") => RangeOf(Accept(n, out)) = {}
         /\ out = Colour(t, Nothing(n, "DONE_PHASE")) =>
              RangeOf(Accept(n, out)) = IF Finishing(n, out) THEN {FinishRequest(n)} ELSE {}
         /\ \A inner :
              /\ Proper(n, local[n], t, at, inner) /\ local[n].cur <= Last
              /\ out = Colour(t, Switch(n, t, at, inner))
              => RangeOf(Accept(n, out))
                   = RangeOf(inner.reqs)
                       \cup (IF local[n].cur < out.s.cur /\ out.s.cur <= Last THEN {InitRequest(at, n)} ELSE {})
                       \cup (IF Finishing(n, out) THEN {FinishRequest(n)} ELSE {})
<1>1. RangeOf(<<>>) = {} /\ RangeOf(Append(<<>>, FinishRequest(n))) = {FinishRequest(n)}
  <2>1. RangeOf(<<>>) = {} /\ <<>> \in Seq({})
    BY DEF RangeOf
  <2>2. \A x : RangeOf(Append(<<>>, x)) = RangeOf(<<>>) \cup {x}
    BY <2>1, AppendRange
  <2> QED BY <2>1, <2>2
<1>2. out = Nothing(n, "ONGOING") => Accept(n, out) = <<>>
  BY DEF Nothing, Accept, Finishing
<1>3. out = Colour(t, Nothing(n, "DONE_PHASE")) =>
        Accept(n, out) = IF Finishing(n, out) THEN Append(<<>>, FinishRequest(n)) ELSE <<>>
  BY DEF Nothing, Accept, Colour
<1>4. ASSUME NEW inner, Proper(n, local[n], t, at, inner), local[n].cur <= Last,
             out = Colour(t, Switch(n, t, at, inner))
      PROVE  RangeOf(Accept(n, out))
               = RangeOf(inner.reqs)
                   \cup (IF local[n].cur < out.s.cur /\ out.s.cur <= Last THEN {InitRequest(at, n)} ELSE {})
                   \cup (IF Finishing(n, out) THEN {FinishRequest(n)} ELSE {})
  <2>1. local[n].cur \in Nat /\ Last \in Nat /\ inner.s.cur = local[n].cur /\ inner.s \in State
    BY <1>4, PhasesType DEF LocalOK, Proper
  <2>2. PICK cur \in Nat : cur = NextPhase(local[n].cur, inner.res)
    BY <2>1 DEF NextPhase
  <2>3. PICK reqs : reqs = IF cur <= Last /\ cur > local[n].cur THEN Append(inner.reqs, InitRequest(at, n))
                           ELSE inner.reqs
    OBVIOUS
  <2>4. inner.reqs \in Seq(Demand(n, at)) /\ reqs \in Seq(Demand(n, at))
    BY <1>4, <2>3, RequestTypes, Few DEF Proper
  <2>5. RangeOf(reqs) = RangeOf(inner.reqs)
                          \cup (IF local[n].cur < cur /\ cur <= Last THEN {InitRequest(at, n)} ELSE {})
    BY <2>1, <2>2, <2>3, <2>4, AppendRange
  <2>6. out.reqs = reqs /\ out.s.cur = cur
    <3>1. Switch(n, t, at, inner).reqs = reqs /\ Switch(n, t, at, inner).s = [inner.s EXCEPT !.cur = cur]
      BY <2>2, <2>3 DEF Switch, MoveOn
    <3>2. out.reqs = Switch(n, t, at, inner).reqs
      BY <1>4 DEF Colour, Switch, MoveOn
    <3>3. out.s.cur = Switch(n, t, at, inner).s.cur
      BY <1>4, <2>1 DEF Colour, Switch, MoveOn, State
    <3>4. [inner.s EXCEPT !.cur = cur].cur = cur
      BY <2>1 DEF State
    <3> QED BY <3>1, <3>2, <3>3, <3>4
  <2>7. RangeOf(Accept(n, out)) = RangeOf(reqs) \cup (IF Finishing(n, out) THEN {FinishRequest(n)} ELSE {})
    BY <2>4, <2>6, AppendRange DEF Accept
  <2> QED BY <2>5, <2>6, <2>7
<1> QED BY <1>1, <1>2, <1>3, <1>4

-----------------------------------------------------------------------------
(* The steps of a collective. *)

(***************************************************************************)
(* Multiple trees begin when a node is initialised that is reached, which  *)
(* is the root alone: all are initialised before anything else happens,    *)
(* because an InitTask precedes every task of the messages to come.        *)
(***************************************************************************)
StartUp ==
  Options.kind = "MultiTree" /\ (\E t \in queue : t.type = "Init") =>
    /\ Reached \subseteq {0} /\ \A n \in Node : ~ pending[n]
    /\ \A t \in queue : /\ t.type \in {"Init", "SendStart", "Finish", "Failure"}
                        /\ t.type = "Init" => t.tag = "INIT" /\ t.time = 0

LEMMA UpcomingType ==
  ASSUME TypeOK, NEW t \in Upcoming
  PROVE  /\ t \in Ready /\ t \in Task /\ IsTop(t, Ready)
         /\ Clock(t) \in Nat /\ NotifiedNode(t) \in Node
BY ReadyType, ClockType DEF Upcoming

LEMMA RootBeginsAlone ==
  ASSUME TypeOK, LocalOK, StartUp, NEW t \in Ready, NotifiedNode(t) \in Node,
         ~ Refuses(NotifiedNode(t), t)
  PROVE  RootBegins(NotifiedNode(t), t)
<1> DEFINE n == NotifiedNode(t)
<1>1. SUFFICES ASSUME InPhase(n, "MultiTree"), t.type = "Init", local[n].reached
      PROVE  n = 0 /\ TreesFit(conf)
  BY DEF RootBegins
<1>2. t \in queue
  BY <1>1 DEF Ready, IdleTask
<1>3. Options.kind = "MultiTree"
  <2>1. local[n].cur \in 1 .. Last /\ conf.phases[local[n].cur].kind = "MultiTree"
    BY <1>1, PhasesType DEF InPhase, LocalOK
  <2> QED BY <2>1, PhaseOrder DEF Options
<1>4. n \in Reached
  BY <1>1 DEF Reached
<1> QED BY <1>1, <1>2, <1>3, <1>4 DEF StartUp, Refuses, TreesUnfit

(* What happens when a node is notified. *)
LEMMA NotifyStep ==
  ASSUME TypeOK, LocalOK, StartUp, NEW t \in Upcoming, Notify(t)
  PROVE  LET n == NotifiedNode(t)
         IN \E draw \in Draws(n, t) : \E out :
              /\ out = CombinerDispatch(n, t, Clock(t), draw)
              /\ Combined(n, t, Clock(t), out) /\ (t.type = "RecvEnd" => out.s.reached)
              /\ Accept(n, out) \in Asks(t)
              /\ Served(t, Accept(n, out), out.again)
              /\ Follow(n, t, out)
<1>1. t \in Ready /\ t \in Task /\ Clock(t) \in Nat /\ NotifiedNode(t) \in Node
  BY UpcomingType
<1>2. PICK n \in Node : n = NotifiedNode(t)
  BY <1>1
<1>3. RootBegins(n, t)
  BY <1>1, <1>2, RootBeginsAlone DEF Notify
<1>4. PICK draw \in Draws(n, t) : \E out : /\ out = CombinerDispatch(n, t, Clock(t), draw)
                                           /\ Serve(t, out, Accept(n, out))
  BY <1>2 DEF Notify
<1>8. PICK out : out = CombinerDispatch(n, t, Clock(t), draw) /\ Serve(t, out, Accept(n, out))
  BY <1>4
<1>5. draw \in Node
  BY <1>4 DEF Draws
<1>6. Combined(n, t, Clock(t), out) /\ (t.type = "RecvEnd" => out.s.reached)
  BY <1>1, <1>3, <1>8, <1>5, CombinerProper
<1>7. Accept(n, out) \in Asks(t)
  BY <1>1, <1>2, <1>6, AcceptProper
<1> QED BY <1>2, <1>8, <1>6, <1>7 DEF Serve, Served

(* What is in the heap after t is served: see TaskOrigin. *)
SameTask(u, r) ==
  /\ u.type = r.type /\ u.tag = r.tag /\ u.time = r.time
  /\ u.sender = r.sender /\ u.receiver = r.receiver

Origin(t, asked, u) ==
  \/ u \in Ready /\ (u # t \/ t.type = "RecvEnd")
  \/ Succeeds(t, u) /\ u \in Admitted(u)
  \/ u.type # "Idle" /\ u \in Admitted(u) /\ \E r \in asked : SameTask(u, r)
  \/ u.type = "Failure" /\ u.receiver \in conf.failed

(* A message goes on as its next task, unless its receiver has failed. *)
Continues(t) ==
  /\ t.type \in {"SendStart", "SendEnd"} /\ t.sender \notin conf.failed => \E u \in queue' : Succeeds(t, u)
  /\ t.type \in {"Msg", "RecvStart"} /\ t.receiver \notin conf.failed => \E u \in queue' : Succeeds(t, u)

(* What the timeline keeps of the end of the nodes. *)
Recorded(t) ==
  /\ finished' = finished \cup (IF t.type = "Finish" THEN {t.sender} ELSE {})
  /\ failures' = failures \cup (IF t.type = "Failure" THEN {t.receiver} ELSE {})

(* The cpus: only an operation that starts occupies one, the total time    *)
(* grows, and a FinishTask covers its node; when it is served, is the last *)
(* and asks for nothing, time stands still.                                *)
Occupied(t, n) ==
  \/ t.type = "SendStart" /\ n = t.sender
  \/ t.type = "RecvStart" /\ n = t.receiver
Booked(t, asked) ==
  /\ \A n \in Node : Occupied(t, n) \/ cpu'[n] = cpu[n]
  /\ totalTime' >= totalTime
  /\ t.type = "Finish" =>
       /\ \A k \in Thread : cpu'[t.sender][k] <= totalTime'
       /\ asked = {} /\ Delivered = {} => queue' \subseteq queue /\ UNCHANGED <<now, idle, cpu, sendGap>>

(* A single request makes a single task. *)
Added(t, u) ==
  ~ (u \in Ready /\ (u # t \/ t.type = "RecvEnd")) /\ ~ Succeeds(t, u) /\ u.type # "Failure"
Once(t, reqs) == Len(reqs) <= 1 => \A u, v \in queue' : Added(t, u) /\ Added(t, v) => u = v

(* The heap, the idle tracker and the events after t is served and         *)
(* something asked.                                                        *)
Heap(t, asked) ==
  /\ Pop(t)
  /\ \A u \in queue' : Origin(t, asked, u)
  /\ \A u \in Ready : u # t => u \in queue'
  /\ \A r \in asked : /\ r.type # "Idle" /\ r.sender \notin conf.failed
                      /\ r.type \in {"RecvStart", "Init"} => r.receiver \notin conf.failed
                      => \E u \in queue' : SameTask(u, r)
  /\ \A m \in Node : pending'[m] <=> \/ pending[m] /\ m \notin Delivered
                                     \/ \E r \in asked : r.type = "Idle" /\ r.sender = m
  /\ Continues(t) /\ Recorded(t) /\ Booked(t, asked)
  /\ status = "running" /\ status' \in {"running", "limit", "done"}
  /\ status' = "done" => queue' = {} /\ count' <= 0

LEMMA HeapStep ==
  ASSUME TypeOK, NEW t \in Ready, NEW reqs, NEW again, Len(reqs) \in Nat, DOMAIN reqs = 1 .. Len(reqs),
         Served(t, reqs, again) \/ (Passes(t) /\ reqs = <<>> /\ again = {})
  PROVE  Heap(t, RangeOf(reqs)) /\ Once(t, reqs)
<1>1. PICK own \in SUBSET Task, kept \in SUBSET {t} :
        /\ Pop(t) /\ Schedule(t, own, reqs, kept)
        /\ t.type \in DOMAIN Successors => \E u \in own : own = {u} /\ Succeeds(t, u)
  <2>1. t \in Task
    BY ReadyType
  <2>2. PICK own \in SUBSET Task, kept \in SUBSET {t} :
          /\ Schedule(t, own, reqs, kept)
          /\ kept = IF t.type = "RecvEnd" THEN again ELSE {}
          /\ IF t.type \in DOMAIN Successors THEN \E u \in own : own = {u} /\ Succeeds(t, u)
             ELSE own = {}
    BY <2>1, StepSchedules, ZenonT(60)
  <2>3. Pop(t)
    BY <2>1, StepSchedules
  <2> QED BY <2>2, <2>3
<1>2. queue' = (Ready \ {t}) \cup AllAdmitted(own) \cup Requested(reqs) \cup kept
  BY <1>1 DEF Schedule
<1>3. ASSUME NEW u \in queue'
      PROVE  Origin(t, RangeOf(reqs), u)
  <2>1. CASE \E i \in DOMAIN reqs : /\ reqs[i].type # "Idle" /\ u \in Admitted(u)
                                    /\ u = Numbered(reqs[i], FirstSeq + i - 1)
    <3>1. PICK i \in DOMAIN reqs : /\ reqs[i].type # "Idle" /\ u \in Admitted(u)
                                   /\ u = Numbered(reqs[i], FirstSeq + i - 1)
      BY <2>1
    <3>2. SameTask(u, reqs[i]) /\ reqs[i] \in RangeOf(reqs) /\ u.type = reqs[i].type
      BY <3>1 DEF SameTask, Numbered, RangeOf
    <3> QED BY <3>1, <3>2 DEF Origin
  <2>2. CASE ~ \E i \in DOMAIN reqs : /\ reqs[i].type # "Idle" /\ u \in Admitted(u)
                                      /\ u = Numbered(reqs[i], FirstSeq + i - 1)
    <3>1. \/ u \in Ready /\ (u # t \/ (t.type = "RecvEnd" /\ again = {t}))
          \/ Succeeds(t, u) /\ u \in Admitted(u)
          \/ u.type = "Failure" /\ u.receiver \in conf.failed
      BY <2>2, TaskOrigin
    <3> QED BY <3>1 DEF Origin
  <2> QED BY <2>1, <2>2
<1>4. ASSUME NEW r \in RangeOf(reqs), r.type # "Idle", r.sender \notin conf.failed,
             r.type \in {"RecvStart", "Init"} => r.receiver \notin conf.failed
      PROVE  \E u \in queue' : SameTask(u, r)
  <2>1. PICK i \in DOMAIN reqs : r = reqs[i]
    BY DEF RangeOf
  <2>2. PICK u : u = Numbered(r, FirstSeq + i - 1)
    OBVIOUS
  <2>3. SameTask(u, r) /\ u \in Admitted(u)
    BY <1>4, <2>2 DEF SameTask, Numbered, Admitted
  <2>4. u \in Requested(reqs)
    BY <1>4, <2>1, <2>2, <2>3 DEF Requested
  <2> QED BY <1>2, <2>3, <2>4
<1>5. \A m \in Node : pending'[m] <=> \/ pending[m] /\ m \notin Delivered
                                      \/ \E r \in RangeOf(reqs) : r.type = "Idle" /\ r.sender = m
  <2>1. pending' = [m \in Node |-> m \in ({n \in Node : pending[n]} \ Delivered) \cup IdleWishes(reqs)]
    BY <1>1 DEF Schedule
  <2>2. ASSUME NEW m \in Node
        PROVE  m \in IdleWishes(reqs) <=> \E r \in RangeOf(reqs) : r.type = "Idle" /\ r.sender = m
    BY DEF IdleWishes, RangeOf
  <2>3. ASSUME NEW m \in Node
        PROVE  (m \in ({n \in Node : pending[n]} \ Delivered) \cup IdleWishes(reqs))
                 <=> \/ pending[m] /\ m \notin Delivered
                     \/ \E r \in RangeOf(reqs) : r.type = "Idle" /\ r.sender = m
    BY <2>2, Zenon
  <2> QED BY <2>1, <2>3
<1>6. /\ status = "running" /\ status' \in {"running", "limit", "done"}
      /\ status' = "done" => queue' = {} /\ count' <= 0
  BY <1>1 DEF Schedule, Pop
<1>7. Continues(t)
  <2>1. ASSUME NEW u \in own, Succeeds(t, u),
               \/ t.type \in {"SendStart", "SendEnd"} /\ t.sender \notin conf.failed
               \/ t.type \in {"Msg", "RecvStart"} /\ t.receiver \notin conf.failed
        PROVE  u \in queue'
    <3>1. u \in Admitted(u)
      BY <2>1 DEF Admitted, Succeeds, Successors
    <3>2. u \in AllAdmitted(own)
      BY <3>1 DEF AllAdmitted
    <3> QED BY <1>2, <3>2
  <2>2. t.type \in {"SendStart", "SendEnd", "Msg", "RecvStart"} => \E u \in own : Succeeds(t, u)
    BY <1>1 DEF Successors
  <2> QED BY <2>1, <2>2 DEF Continues
<1>8. Recorded(t)
  BY DEF Recorded, Served, Passes, SendStart, RecvStart, SendEnd, Idle, Timer, Init, Finish, RecvEnd,
         DelaySend, DelayRecv, Msg, Failure, Reschedule, Pass, timeline
<1>9. Booked(t, RangeOf(reqs))
  <2>1. /\ cpu \in [Node -> [Thread -> Nat]] /\ totalTime \in Nat /\ t \in Task
        /\ pending \in [Node -> BOOLEAN] /\ wasIdle \in [Node -> Int] /\ count \in Int /\ t.time \in Nat
    BY ReadyType DEF TypeOK, Task
  <2>2. CASE t.type = "SendStart"
    <3>1. Occupy(t.sender) \/ cpu' = cpu
      BY <2>2 DEF Served, Passes, SendStart, RecvStart, SendEnd, Idle, Timer, Init, Finish, RecvEnd,
                  DelaySend, DelayRecv, Msg, Failure, Reschedule, timeline
    <3>2. totalTime' = totalTime
      BY <2>2 DEF Served, Passes, SendStart, RecvStart, SendEnd, Idle, Timer, Init, Finish, RecvEnd,
                  DelaySend, DelayRecv, Msg, Failure, Reschedule, timeline
    <3>3. \A n \in Node : n = t.sender \/ cpu'[n] = cpu[n]
      BY <2>1, <3>1 DEF Occupy
    <3> QED BY <2>1, <2>2, <3>2, <3>3 DEF Booked, Occupied
  <2>3. CASE t.type = "RecvStart"
    <3>1. Occupy(t.receiver) \/ cpu' = cpu
      BY <2>3 DEF Served, Passes, SendStart, RecvStart, SendEnd, Idle, Timer, Init, Finish, RecvEnd,
                  DelaySend, DelayRecv, Msg, Failure, Reschedule, timeline
    <3>2. totalTime' = totalTime
      BY <2>3 DEF Served, Passes, SendStart, RecvStart, SendEnd, Idle, Timer, Init, Finish, RecvEnd,
                  DelaySend, DelayRecv, Msg, Failure, Reschedule, timeline
    <3>3. \A n \in Node : n = t.receiver \/ cpu'[n] = cpu[n]
      BY <2>1, <3>1 DEF Occupy
    <3> QED BY <2>1, <2>3, <3>2, <3>3 DEF Booked, Occupied
  <2>4. CASE t.type = "Finish"
    <3>1. Finish(t, reqs)
      BY <2>4 DEF Served, Passes, SendStart, RecvStart, SendEnd, Idle, Timer, Init, RecvEnd,
                  DelaySend, DelayRecv, Msg, Failure, Pass
    <3>2. /\ cpu' = cpu /\ sendGap' = sendGap /\ now' = now /\ Schedule(t, {}, reqs, {})
          /\ MarkIdle(t, {}) /\ Clock(t) = now
      BY <2>4, <3>1 DEF Finish, Pop, Clock
    <3>3. PICK k \in Thread : /\ \A j \in Thread : cpu[t.sender][j] <= cpu[t.sender][k]
                             /\ totalTime' = LaterOf(totalTime, cpu[t.sender][k])
      BY <3>1 DEF Finish
    <3>4. t.sender \in Node
      BY <2>1 DEF Task
    <3>5. totalTime' >= totalTime /\ \A j \in Thread : cpu[t.sender][j] <= totalTime'
      <4>1. PICK most \in [Thread -> Nat] : most = cpu[t.sender]
        BY <2>1, <3>4
      <4>2. totalTime' = LaterOf(totalTime, most[k]) /\ \A j \in Thread : most[j] <= most[k]
        BY <3>3, <4>1
      <4> QED BY <2>1, <4>1, <4>2 DEF LaterOf
    <3>6. ASSUME RangeOf(reqs) = {}, Delivered = {}
          PROVE  queue' \subseteq queue /\ UNCHANGED <<now, idle, cpu, sendGap>>
      <4>1. DOMAIN reqs = {}
        BY <3>6 DEF RangeOf
      <4>2. Requested(reqs) = {} /\ IdleWishes(reqs) = {} /\ AllAdmitted({}) = {}
        BY <4>1 DEF Requested, IdleWishes, AllAdmitted
      <4>3. Ready = queue
        BY <3>6 DEF Ready
      <4>4. queue' \subseteq queue
        BY <3>2, <4>2, <4>3 DEF Schedule
      <4>5. pending' = pending
        <5>1. pending' = [n \in Node |-> n \in {m \in Node : pending[m]}]
          BY <3>2, <3>6, <4>2 DEF Schedule
        <5>2. \A n \in Node : pending'[n] = pending[n]
          <6> SUFFICES ASSUME NEW n \in Node PROVE pending'[n] = pending[n]
            OBVIOUS
          <6>1. pending'[n] = (n \in {m \in Node : pending[m]})
            BY <5>1
          <6>2. pending[n] \in BOOLEAN
            BY <2>1
          <6> QED BY <6>1, <6>2
        <5> QED BY <2>1, <5>1, <5>2
      <4>6. count' = count
        <5>1. count' = count - Cardinality({}) + Cardinality({})
          BY <3>2, <3>6, <4>2 DEF Schedule
        <5> QED BY <2>1, <5>1, FS_EmptySet
      <4>7. wasIdle' = wasIdle
        BY <2>1, <3>2 DEF MarkIdle
      <4> QED BY <3>2, <4>4, <4>5, <4>6, <4>7 DEF idle
    <3> QED BY <2>4, <3>2, <3>5, <3>6 DEF Booked, Occupied
  <2>5. CASE t.type \notin {"SendStart", "RecvStart", "Finish"}
    <3>1. cpu' = cpu /\ (totalTime' = totalTime \/ totalTime' = LaterOf(totalTime, t.time))
      BY <2>5 DEF Served, Passes, SendStart, RecvStart, SendEnd, Idle, Timer, Init, Finish, RecvEnd,
                  DelaySend, DelayRecv, Msg, Failure, Pass, timeline
    <3>2. totalTime' >= totalTime
      BY <2>1, <3>1 DEF LaterOf
    <3> QED BY <2>5, <3>1, <3>2 DEF Booked
  <2> QED BY <2>2, <2>3, <2>4, <2>5
<1>10. Once(t, reqs)
  <2>1. SUFFICES ASSUME Len(reqs) <= 1, NEW u \in queue', NEW v \in queue', Added(t, u), Added(t, v)
        PROVE  u = v
    BY DEF Once
  <2>2. /\ \E i \in DOMAIN reqs : u = Numbered(reqs[i], FirstSeq + i - 1)
        /\ \E i \in DOMAIN reqs : v = Numbered(reqs[i], FirstSeq + i - 1)
    BY <2>1, TaskOrigin DEF Added
  <2>3. \A i \in DOMAIN reqs : i = 1
    BY <2>1
  <2> QED BY <2>2, <2>3
<1> QED BY <1>1, <1>2, <1>3, <1>4, <1>5, <1>6, <1>7, <1>8, <1>9, <1>10 DEF Heap

(* The other steps leave the heap, the idle tracker and the events alone;  *)
(* at most they leave the loop.                                            *)
Rests ==
  /\ UNCHANGED <<conf, queue, pending, cpu, finished, failures, totalTime, cvars>>
  /\ (status' = status /\ UNCHANGED qvars) \/ status' \in {"thrown", "asserted", "aborted"}

(***************************************************************************)
(* The steps of a collective: the loop waits or ends; a task passes that   *)
(* nobody is notified of; or a node is notified, and the combiner answers. *)
(***************************************************************************)
Traced(t, reqs, again) ==
  \A u \in queue' :
    \/ u \in Ready /\ (u # t \/ (t.type = "RecvEnd" /\ again = {t}))
    \/ Succeeds(t, u)
    \/ \E i \in DOMAIN reqs : u = Numbered(reqs[i], FirstSeq + i - 1)
    \/ u.type = "Failure"

Answers(t, n, draw, out) ==
  /\ out = CombinerDispatch(n, t, Clock(t), draw)
  /\ Combined(n, t, Clock(t), out) /\ (t.type = "RecvEnd" => out.s.reached)
  /\ Follow(n, t, out)
  /\ Heap(t, RangeOf(Accept(n, out))) /\ Once(t, Accept(n, out))
  /\ Traced(t, Accept(n, out), out.again)

(* Whatever happens in a collective happens in the open engine. *)
LEMMA StepOpens ==
  ASSUME TypeOK, LocalOK, StartUp, [CNext]_vars
  PROVE  [OpenNext]_qvars
<1>1. ASSUME NEW t \in Upcoming, Notify(t)
      PROVE  OpenNext
  <2>1. PICK out : /\ Combined(NotifiedNode(t), t, Clock(t), out)
                   /\ Accept(NotifiedNode(t), out) \in Asks(t)
                   /\ Served(t, Accept(NotifiedNode(t), out), out.again)
    BY <1>1, NotifyStep
  <2>2. PICK reqs \in Asks(t), again \in SUBSET {t} : Served(t, reqs, again)
    BY <2>1 DEF Combined
  <2>3. t \in Ready /\ React(t, reqs)
    BY <2>2, UpcomingType DEF Served, React
  <2> QED BY <2>3 DEF OpenNext
<1>2. ASSUME NEW t \in Upcoming, LeavePhase(t)
      PROVE  OpenNext
  BY <1>2, UpcomingType DEF LeavePhase, OpenNext
<1>3. ASSUME NEW t \in Upcoming, Silent(t)
      PROVE  OpenNext
  BY <1>3, UpcomingType DEF OpenNext
<1> QED BY <1>1, <1>2, <1>3 DEF CNext, Take, OpenNext, vars

LEMMA StepCases ==
  ASSUME TypeOK, LocalOK, StartUp, [CNext]_vars
  PROVE  \/ Rests
         \/ \E t \in Upcoming : Passes(t) /\ Heap(t, {}) /\ UNCHANGED cvars
         \/ \E t \in Upcoming : \E draw \in Draws(NotifiedNode(t), t) : \E out :
              /\ RootBegins(NotifiedNode(t), t) /\ t.type \in DOMAIN Priority \ {"Msg", "Failure"}
              /\ Answers(t, NotifiedNode(t), draw, out)
<1>1. ASSUME NEW t \in Upcoming, Notify(t)
      PROVE  \E draw \in Draws(NotifiedNode(t), t) : \E out :
               /\ RootBegins(NotifiedNode(t), t) /\ t.type \in DOMAIN Priority \ {"Msg", "Failure"}
               /\ Answers(t, NotifiedNode(t), draw, out)
  <2>1. PICK n : n = NotifiedNode(t)
    OBVIOUS
  <2>2. PICK draw \in Draws(n, t) : \E out :
               /\ out = CombinerDispatch(n, t, Clock(t), draw)
               /\ Combined(n, t, Clock(t), out) /\ (t.type = "RecvEnd" => out.s.reached)
               /\ Accept(n, out) \in Asks(t)
               /\ Served(t, Accept(n, out), out.again)
               /\ Follow(n, t, out)
    BY <1>1, <2>1, NotifyStep
  <2>3. PICK out :
               /\ out = CombinerDispatch(n, t, Clock(t), draw)
               /\ Combined(n, t, Clock(t), out) /\ (t.type = "RecvEnd" => out.s.reached)
               /\ Accept(n, out) \in Asks(t)
               /\ Served(t, Accept(n, out), out.again)
               /\ Follow(n, t, out)
    BY <2>2
  <2>4. t \in Ready /\ n \in Node
    BY <2>1, UpcomingType
  <2>5. RootBegins(n, t)
    BY <1>1, <2>1, <2>4, RootBeginsAlone DEF Notify
  <2>6. PICK reqs : reqs = Accept(n, out)
    OBVIOUS
  <2>7. Len(reqs) \in Nat /\ DOMAIN reqs = 1 .. Len(reqs)
    BY <2>3, <2>6, AskType
  <2>8. Heap(t, RangeOf(reqs)) /\ Once(t, reqs)
    BY <2>3, <2>4, <2>6, <2>7, HeapStep
  <2>9. t.type \in DOMAIN Priority \ {"Msg", "Failure"}
    BY <2>3 DEF Served, SendStart, RecvStart, SendEnd, Idle, Timer, Init, Finish, RecvEnd, Priority
  <2>10. Traced(t, reqs, out.again)
    BY <2>3, <2>4, <2>6, TaskOrigin DEF Traced
  <2>11. Answers(t, n, draw, out)
    BY <2>3, <2>6, <2>8, <2>10 DEF Answers
  <2> QED BY <2>1, <2>5, <2>9, <2>11
<1>2. ASSUME NEW t \in Upcoming, LeavePhase(t)
      PROVE  Rests
  BY <1>2 DEF LeavePhase, Leave, Pop, timeline, Rests
<1>3. ASSUME NEW t \in Upcoming, Silent(t), UNCHANGED cvars
      PROVE  Rests \/ (Passes(t) /\ Heap(t, {}))
  <2>1. CASE ThrowFinish(t)
    BY <1>3, <2>1 DEF ThrowFinish, Pop, Rests, idle, timeline
  <2>2. CASE Passes(t)
    <3>1. PICK reqs : reqs = <<>> /\ Len(reqs) = 0 /\ DOMAIN reqs = 1 .. 0
      OBVIOUS
    <3>2. RangeOf(reqs) = {}
      BY <3>1 DEF RangeOf
    <3>3. Heap(t, RangeOf(reqs))
      <4>1. t \in Ready /\ Len(reqs) \in Nat /\ DOMAIN reqs = 1 .. Len(reqs)
        BY <3>1, UpcomingType
      <4>2. PICK again : again = {}
        OBVIOUS
      <4> QED BY <2>2, <3>1, <4>1, <4>2, HeapStep
    <3> QED BY <2>2, <3>2, <3>3
  <2> QED BY <1>3, <2>1, <2>2 DEF Silent, Passes
<1>4. CASE (EmptyPop \/ Stopped \/ UNCHANGED qvars) /\ UNCHANGED cvars
  BY <1>4 DEF EmptyPop, Stopped, qvars, idle, timeline, Rests
<1>5. \/ \E t \in Upcoming : Notify(t) \/ LeavePhase(t) \/ (Silent(t) /\ UNCHANGED cvars)
      \/ (EmptyPop \/ Stopped \/ UNCHANGED qvars) /\ UNCHANGED cvars
  BY DEF CNext, Take, vars
<1> QED BY <1>1, <1>2, <1>3, <1>4, <1>5

-----------------------------------------------------------------------------
(* Messages, from the request to send to the reception. *)
MessageTypes == {"SendStart", "SendEnd", "Msg", "RecvStart", "RecvEnd"}

(* A message in the heap was there, is the next task of one, or is new. *)
LEMMA MessageOrigin ==
  ASSUME TypeOK, NEW t \in Ready, NEW asked, Heap(t, asked), NEW u \in queue', u.type \in MessageTypes,
         \A r \in asked : r.type \in {"SendStart", "Timer", "Init", "Idle", "Finish"}
  PROVE  \/ u \in queue
         \/ t \in queue /\ t.type \in MessageTypes /\ Succeeds(t, u)
         \/ \E r \in asked : r.type = "SendStart" /\ SameTask(u, r)
<1>1. Origin(t, asked, u)
  BY DEF Heap
<1>2. \A v \in Ready : v.type \in MessageTypes => v \in queue
  BY DEF Ready, IdleTask, MessageTypes
<1>3. Succeeds(t, u) => t.type \in MessageTypes
  BY DEF Succeeds, Successors, MessageTypes
<1>4. u.type # "Failure"
  BY DEF MessageTypes
<1>5. \A r \in asked : SameTask(u, r) => r.type = "SendStart"
  BY DEF SameTask, MessageTypes
<1> QED BY <1>1, <1>2, <1>3, <1>4, <1>5 DEF Origin

LEMMA AskedTypes ==
  ASSUME TypeOK, LocalOK, NEW n \in Node, NEW t \in Task, NEW at \in Nat, NEW out, Combined(n, t, at, out)
  PROVE  \A r \in RangeOf(Accept(n, out)) :
           /\ r \in Demand(n, at)
           /\ r.type \in {"SendStart", "Timer", "Init", "Idle", "Finish"} /\ r.sender = n
<1>1. PICK reqs \in Seq(Demand(n, at)) : reqs = Accept(n, out)
  BY Few, RequestTypes DEF Accept, Combined
<1>2. \A r \in RangeOf(reqs) : r \in Demand(n, at)
  BY DEF RangeOf
<1> QED BY <1>1, <1>2 DEF Demand

-----------------------------------------------------------------------------
(* A collective starts like the engine; the main program starts one after  *)
(* the other, and between them it changes the configuration.               *)
CStart(first) ==
  /\ QStart(first)
  /\ local = [n \in Node |-> InitialState(n \in FirstReached, Len(conf.receivers[n]))]
  /\ start = TimeMax
  /\ done = {} /\ coloured = {0} /\ colouredTime = 0

CStarted == \E first \in Nat : CStart(first)

RepeatedSpec == CStarted /\ [][CNext \/ CStarted']_vars

LEMMA InitLocal ==
  ASSUME NEW first \in Nat, CStart(first)
  PROVE  LocalOK
<1>1. TypeOK
  BY InitInvariant DEF CStart, IInv
<1>2. Last \in Nat \ {0} /\ 0 \in Node /\ TimeMax \in Nat
  BY <1>1, PhasesType, CollectiveType, BoundsAssumption DEF Node
<1>3. \A n \in Node : Len(conf.receivers[n]) \in Nat
  BY <1>1, CollectiveType
<1>4. ASSUME NEW n \in Node
      PROVE  /\ InitialState(n \in FirstReached, Len(conf.receivers[n])) \in State
             /\ InitialState(n \in FirstReached, Len(conf.receivers[n])).cur = 1
  <2>1. PICK k \in Nat : k = Len(conf.receivers[n])
    BY <1>3
  <2>2. (n \in FirstReached) \in BOOLEAN
    OBVIOUS
  <2> QED BY <2>1, <2>2 DEF InitialState, State, RingState, Ring, IntMax
<1> QED BY <1>2, <1>4 DEF CStart, LocalOK

LEMMA StepLocal ==
  ASSUME TypeOK, LocalOK, StartUp, [CNext]_vars
  PROVE  LocalOK' /\ conf' = conf
<1>1. conf' = conf => Last' = Last /\ Node' = Node
  BY DEF Last, Node
<1>2. ASSUME NEW t \in Upcoming, Notify(t)
      PROVE  LocalOK' /\ conf' = conf
  <2>1. PICK n \in Node : n = NotifiedNode(t)
    BY UpcomingType
  <2>2. PICK out : /\ Combined(n, t, Clock(t), out) /\ Follow(n, t, out)
                   /\ Served(t, Accept(n, out), out.again)
    BY <1>2, <2>1, NotifyStep
  <2>3. conf' = conf
    BY <2>2, UpcomingType, StepSchedules DEF Pop
  <2>4. out.s \in State /\ out.s.cur \in 1 .. Last + 1
    BY <2>2, PhasesType DEF Combined, LocalOK
  <2>5. local' \in [Node -> State] /\ \A m \in Node : local'[m].cur \in 1 .. Last + 1
    BY <2>2, <2>4 DEF Follow, LocalOK
  <2>6. Clock(t) \in Nat
    BY UpcomingType
  <2>7. start' \in Nat /\ done' \subseteq Node /\ coloured' \subseteq Node /\ colouredTime' \in Nat
    BY <2>2, <2>6, LaterOfType DEF Follow, LocalOK, StartTime
  <2> QED BY <1>1, <2>3, <2>5, <2>7 DEF LocalOK
<1>3. ASSUME NEW t \in Upcoming, LeavePhase(t) \/ (Silent(t) /\ UNCHANGED cvars)
      PROVE  LocalOK' /\ conf' = conf
  <2>1. UNCHANGED cvars
    BY <1>3 DEF LeavePhase
  <2>2. conf' = conf
    BY <1>3 DEF LeavePhase, Leave, Silent, DelaySend, DelayRecv, Reschedule, Msg, Pass, Failure,
                ThrowFinish, Pop
  <2> QED BY <1>1, <2>1, <2>2 DEF cvars, LocalOK
<1>4. CASE (EmptyPop \/ Stopped \/ UNCHANGED qvars) /\ UNCHANGED cvars
  <2>1. conf' = conf
    BY <1>4 DEF EmptyPop, Stopped, qvars
  <2> QED BY <1>1, <1>4, <2>1 DEF cvars, LocalOK
<1> QED BY <1>2, <1>3, <1>4 DEF CNext, Take, vars
(* An InitTask precedes all that is sent meanwhile. *)
LEMMA InitComesFirst ==
  ASSUME TypeOK, NEW t \in Upcoming, NEW v \in queue, v.type = "Init", v.tag = "INIT", v.time <= t.time
  PROVE  t.type \notin {"SendStart", "Finish"}
<1> SUFFICES ASSUME t.type \in {"SendStart", "Finish"} PROVE FALSE
  OBVIOUS
<1>1. t \in Task /\ ~ Precedes(v, t)
  BY UpcomingType, ReadyType DEF IsTop
<1>2. t.time \in Nat /\ TagValue[t.tag] \in Nat /\ TagValue[t.tag] >= 1 /\ conf.tagFirst \in BOOLEAN
  <2>1. t.tag \in DOMAIN TagValue /\ t.time \in Nat
    BY <1>1 DEF Task
  <2>2. \A tag \in DOMAIN TagValue : TagValue[tag] \in Nat /\ TagValue[tag] >= 1
    BY DEF TagValue
  <2> QED BY <2>1, <2>2, CollectiveType DEF IsConfiguration
<1>3. Key(v)[1] = v.time /\ Key(t)[1] = t.time /\ v.time \in Nat
  BY DEF Key, TypeOK, Task
<1>4. Key(v)[2] = (IF conf.tagFirst THEN 1 ELSE 0) /\ Key(t)[2] = (IF conf.tagFirst THEN TagValue[t.tag] ELSE 0)
  BY DEF Key, TagValue
<1>5. Key(v)[3] = 6 /\ Key(t)[3] \in {7, 10}
  BY DEF Key, Priority
<1>6. \A i \in 1 .. 4 : ~ (Key(v)[i] < Key(t)[i] /\ \A j \in 1 .. i - 1 : Key(v)[j] = Key(t)[j])
  BY <1>1 DEF Precedes
<1>7. t.time = v.time
  <2>1. \A j \in 1 .. 1 - 1 : FALSE
    OBVIOUS
  <2> QED BY <1>2, <1>3, <1>6, <2>1
<1>8. Key(v)[2] = Key(t)[2]
  <2>1. \A j \in 1 .. 2 - 1 : j = 1
    OBVIOUS
  <2>2. ~ (Key(v)[2] < Key(t)[2])
    BY <1>3, <1>6, <1>7, <2>1
  <2> QED BY <1>2, <1>4, <2>2
<1>9. \A j \in 1 .. 3 - 1 : j = 1 \/ j = 2
  OBVIOUS
<1>10. Key(v)[3] < Key(t)[3]
  BY <1>5
<1> QED BY <1>3, <1>6, <1>7, <1>8, <1>9, <1>10

(* What is asked for in a collective of multiple trees. *)
LEMMA TreesAsk ==
  ASSUME TypeOK, LocalOK, Options.kind = "MultiTree", NEW n \in Node, NEW t \in Task, NEW at \in Nat,
         NEW draw \in Node, RootBegins(n, t), NEW out, out = CombinerDispatch(n, t, at, draw),
         NEW r \in RangeOf(Accept(n, out))
  PROVE  r.type \in {"SendStart", "Finish"} \/ (r = InitRequest(at, n) /\ t.type = "Init")
<1>1. Last \in Nat \ {0} /\ \A i \in 1 .. Last :
        /\ conf.phases[i].kind = IF i = Last THEN "MultiTree" ELSE "DepInit"
        /\ conf.phases[i].exclusive = FALSE
  <2>1. Last \in Nat \ {0} /\ conf.phases[Last].kind = "MultiTree"
    BY PhasesType DEF Options
  <2>2. \A j \in 1 .. Last - 1 : conf.phases[j].kind = "DepInit"
    BY <2>1, PhaseOrder
  <2>3. \A i \in 1 .. Last : i = Last \/ i \in 1 .. Last - 1
    BY <2>1
  <2> QED BY <2>1, <2>2, <2>3, PhasesType
<1>2. FinishRequest(n).type = "Finish"
  BY DEF FinishRequest
<1>3. CASE out = Nothing(n, "ONGOING") \/ out = Colour(t, Nothing(n, "DONE_PHASE"))
  BY <1>2, <1>3, Asked
<1>4. ASSUME NEW inner, local[n].cur \in 1 .. Last,
             inner = PhaseDispatch(conf.phases[local[n].cur], n, local[n], t, at, draw),
             Proper(n, local[n], t, at, inner), out = Colour(t, Switch(n, t, at, inner))
      PROVE  r.type \in {"SendStart", "Finish"} \/ (r = InitRequest(at, n) /\ t.type = "Init")
  <2>0. local[n] \in State /\ inner.s \in State
    BY <1>4 DEF LocalOK, Proper
  <2>1. \/ r \in RangeOf(inner.reqs)
        \/ r = InitRequest(at, n) /\ local[n].cur < out.s.cur /\ out.s.cur <= Last
        \/ r = FinishRequest(n)
    BY <1>4, Asked
  <2>2. out.s.cur = NextPhase(local[n].cur, inner.res)
    BY <1>4, <2>0, SwitchState
  <2>3. CASE local[n].cur < Last
    <3>1. inner = DepInitDispatch(local[n], t)
      <4>1. PICK ph : ph = conf.phases[local[n].cur]
        OBVIOUS
      <4>2. ph.kind = "DepInit" /\ ph.exclusive = FALSE
        BY <1>1, <1>4, <2>3, <4>1
      <4> QED BY <1>4, <4>1, <4>2 DEF PhaseDispatch, PlainDispatch
    <3>2. inner.reqs = <<>> /\ (inner.res # "ONGOING" => t.type = "Init")
      BY <3>1 DEF DepInitDispatch, Outcome, Ongoing
    <3>3. RangeOf(inner.reqs) = {}
      BY <3>2 DEF RangeOf
    <3>4. local[n].cur < out.s.cur => inner.res # "ONGOING"
      BY <1>4, <2>2, <1>1 DEF NextPhase
    <3> QED BY <1>2, <2>1, <3>2, <3>3, <3>4
  <2>4. CASE local[n].cur = Last
    <3>1. inner = MultiTreeDispatch(conf, n, local[n], t, at)
      BY <1>1, <1>4, <2>4 DEF PhaseDispatch, PlainDispatch
    <3>2. inner.reqs \in Seq(Posts(n, at))
      BY <1>1, <2>0, <2>4, <3>1, MultiTreePosts DEF RootBegins, InPhase
    <3>3. \A x \in RangeOf(inner.reqs) : x.type = "SendStart"
      BY <3>2 DEF RangeOf, Posts
    <3>4. ~ (local[n].cur < out.s.cur /\ out.s.cur <= Last)
      BY <1>1, <2>2, <2>4 DEF NextPhase
    <3> QED BY <1>2, <2>1, <3>3, <3>4
  <2> QED BY <1>1, <1>4, <2>3, <2>4
<1> QED BY <1>3, <1>4, CombinerCases

LEMMA StepStartUp ==
  ASSUME TypeOK, LocalOK, StartUp, [CNext]_vars
  PROVE  StartUp'
<1>1. conf' = conf /\ Last' = Last /\ Node' = Node /\ Options' = Options
  BY StepLocal DEF Last, Node, Options
<1> SUFFICES ASSUME Options.kind = "MultiTree", NEW v \in queue', v.type = "Init"
    PROVE  /\ Reached' \subseteq {0} /\ \A n \in Node : ~ pending'[n]
           /\ \A t \in queue' : /\ t.type \in {"Init", "SendStart", "Finish", "Failure"}
                                /\ t.type = "Init" => t.tag = "INIT" /\ t.time = 0
  BY <1>1 DEF StartUp
<1> DEFINE Begun == \E t \in queue : t.type = "Init"
<1>2. \A u \in Ready : u.type # "Idle" => u \in queue
  BY DEF Ready, IdleTask
<1>3. Begun => /\ Reached \subseteq {0} /\ (\A n \in Node : ~ pending[n]) /\ Ready = queue
               /\ \A t \in queue : /\ t.type \in {"Init", "SendStart", "Finish", "Failure"}
                                   /\ t.type = "Init" => t.tag = "INIT" /\ t.time = 0
  <2>1. SUFFICES ASSUME \A n \in Node : ~ pending[n] PROVE Ready = queue
    BY DEF StartUp
  <2>2. Delivered = {}
    BY <2>1 DEF Delivered, Deliverable
  <2> QED BY <2>2 DEF Ready
<1>4. CASE Rests
  <2>1. Reached' = Reached
    BY <1>1, <1>4 DEF Rests, cvars, Reached
  <2> QED BY <1>3, <1>4, <2>1 DEF Rests
<1>5. ASSUME NEW t \in Upcoming, Passes(t), Heap(t, {}), UNCHANGED cvars
      PROVE  /\ Reached' \subseteq {0} /\ \A n \in Node : ~ pending'[n]
             /\ \A u \in queue' : /\ u.type \in {"Init", "SendStart", "Finish", "Failure"}
                                  /\ u.type = "Init" => u.tag = "INIT" /\ u.time = 0
  <2>1. \A u \in queue' : u \in Ready \/ Succeeds(t, u) \/ u.type = "Failure"
    BY <1>5 DEF Heap, Origin
  <2>2. v \in queue
    BY <2>1, <1>2 DEF Succeeds, Successors
  <2>3. Begun
    BY <2>2
  <2>4. t.type \notin {"SendStart", "Finish"}
    <3>1. PICK w \in queue : w.type = "Init" /\ w.tag = "INIT" /\ w.time = 0
      BY <1>2, <1>3, <2>2, <2>3
    <3>2. w.time <= t.time
      BY <3>1, UpcomingType DEF Task
    <3> QED BY <3>1, <3>2, InitComesFirst
  <2>5. t.type \in {"Init", "Failure"}
    BY <1>3, <2>3, <2>4, UpcomingType
  <2>6. \A u : ~ Succeeds(t, u)
    BY <2>5 DEF Succeeds, Successors
  <2>7. Reached' = Reached
    BY <1>1, <1>5 DEF cvars, Reached
  <2>8. \A m \in Node : ~ pending'[m]
    BY <1>3, <1>5, <2>3 DEF Heap
  <2> HIDE DEF Begun
  <2> QED BY <1>3, <2>1, <2>3, <2>6, <2>7, <2>8
<1>6. ASSUME NEW t \in Upcoming, NEW draw \in Draws(NotifiedNode(t), t), NEW out,
             RootBegins(NotifiedNode(t), t), Answers(t, NotifiedNode(t), draw, out)
      PROVE  /\ Reached' \subseteq {0} /\ \A n \in Node : ~ pending'[n]
             /\ \A u \in queue' : /\ u.type \in {"Init", "SendStart", "Finish", "Failure"}
                                  /\ u.type = "Init" => u.tag = "INIT" /\ u.time = 0
  <2>1. t \in Task /\ Clock(t) \in Nat /\ NotifiedNode(t) \in Node /\ t \in Ready
    BY UpcomingType
  <2>2. PICK n \in Node : n = NotifiedNode(t)
    BY <2>1
  <2>3. PICK at \in Nat : at = Clock(t)
    BY <2>1
  <2>4. draw \in Node /\ out = CombinerDispatch(n, t, at, draw) /\ RootBegins(n, t)
        /\ Combined(n, t, at, out) /\ Follow(n, t, out)
    BY <1>6, <2>2, <2>3 DEF Draws, Answers
  <2>5. PICK asked : asked = RangeOf(Accept(n, out))
    OBVIOUS
  <2>6. Heap(t, asked)
    BY <1>6, <2>2, <2>5 DEF Answers
  <2>7. \A r \in asked : r.type \in {"SendStart", "Finish"} \/ (r = InitRequest(at, n) /\ t.type = "Init")
    BY <2>1, <2>4, <2>5, TreesAsk
  <2>8. \A u \in queue' : u \in Ready \/ Succeeds(t, u) \/ (\E r \in asked : SameTask(u, r)) \/ u.type = "Failure"
    BY <2>6 DEF Heap, Origin
  <2>9. Begun
    <3>1. v \in Ready \/ \E r \in asked : SameTask(v, r)
      BY <2>8 DEF Succeeds, Successors
    <3>2. (\E r \in asked : SameTask(v, r)) => t.type = "Init"
      BY <2>7 DEF SameTask
    <3> QED BY <1>2, <2>1, <3>1, <3>2
  <2>10. PICK w \in queue : w.type = "Init" /\ w.tag = "INIT" /\ w.time = 0
    BY <1>3, <2>9
  <2>11. t.type = "Init" \/ t.type = "Failure"
    <3>1. w.time <= t.time
      BY <2>10, UpcomingType DEF Task
    <3>2. t.type \notin {"SendStart", "Finish"}
      BY <2>10, <3>1, InitComesFirst
    <3> QED BY <1>3, <2>1, <2>9, <3>2
  <2>12. \A u : ~ Succeeds(t, u)
    BY <2>11 DEF Succeeds, Successors
  <2>13. t.type = "Init" => at = 0
    BY <1>3, <2>1, <2>3, <2>9 DEF Clock
  <2>14. \A u \in queue' : /\ u.type \in {"Init", "SendStart", "Finish", "Failure"}
                           /\ u.type = "Init" => u.tag = "INIT" /\ u.time = 0
    <3>1. ASSUME NEW u, NEW r \in asked, SameTask(u, r)
          PROVE  /\ u.type \in {"Init", "SendStart", "Finish", "Failure"}
                 /\ u.type = "Init" => u.tag = "INIT" /\ u.time = 0
      BY <3>1, <2>7, <2>13 DEF SameTask, InitRequest
    <3> HIDE DEF Begun
    <3> QED BY <1>3, <2>8, <2>9, <2>12, <3>1
  <2>15. \A m \in Node : ~ pending'[m]
    <3>1. \A r \in asked : r.type # "Idle"
      BY <2>7 DEF InitRequest
    <3> HIDE DEF Begun
    <3> QED BY <1>3, <2>6, <2>9, <3>1 DEF Heap
  <2>16. Reached' \subseteq Reached
    <3>1. out.s.reached = local[n].reached
      BY <2>4, <2>11 DEF Combined, Colours
    <3>2. local' = [local EXCEPT ![n] = out.s]
      BY <2>4 DEF Follow
    <3> QED BY <1>1, <3>1, <3>2 DEF Reached, LocalOK
  <2> HIDE DEF Begun
  <2> QED BY <1>3, <2>9, <2>14, <2>15, <2>16
<1> QED BY <1>4, <1>5, <1>6, StepCases

LEMMA InitStartUp ==
  ASSUME NEW first \in Nat, CStart(first)
  PROVE  StartUp
<1>1. TypeOK
  BY InitInvariant DEF CStart, IInv
<1>2. Options.kind = "MultiTree" => FirstReached = {0}
  <2>1. Last \in Nat \ {0}
    BY <1>1, PhasesType
  <2>2. Options.kind = "MultiTree" => \A j \in 1 .. Last - 1 : conf.phases[j].kind = "DepInit"
    BY <1>1, <2>1, PhaseOrder DEF Options
  <2>3. \A i \in 1 .. Last : i = Last \/ i \in 1 .. Last - 1
    BY <2>1
  <2> QED BY <2>2, <2>3 DEF FirstReached, Options
<1>3. Options.kind = "MultiTree" => Reached \subseteq {0}
  BY <1>2 DEF CStart, Reached, InitialState
<1>4. \A u \in queue : /\ u.type \in {"Init", "Failure"}
                       /\ u.type = "Init" => u.tag = "INIT" /\ u.time = 0
  BY DEF CStart, QStart, AllAdmitted, Admitted
<1>5. \A n \in Node : ~ pending[n]
  BY DEF CStart, QStart
<1> QED BY <1>3, <1>4, <1>5 DEF StartUp
-----------------------------------------------------------------------------
(* The invariant of all collectives, and what follows for the engine. *)

CInv == IInv /\ LocalOK /\ StartUp

LEMMA StartCInv ==
  ASSUME NEW first \in Nat, CStart(first)
  PROVE  CInv
BY InitInvariant, InitLocal, InitStartUp DEF CInv, CStart

LEMMA InitCInv == CStarted => CInv
BY StartCInv DEF CStarted

LEMMA FirstCollective == CInit => CStarted
BY FirstStart DEF CInit, CStarted, CStart, QStarted

LEMMA OneCollective == CSpec => RepeatedSpec
BY FirstCollective, PTL DEF CSpec, RepeatedSpec

LEMMA StartedEngine == CStarted => QStarted
BY DEF CStarted, CStart, QStarted

LEMMA StepCInv == CInv /\ [CNext]_vars => CInv' /\ [OpenNext]_qvars
<1> SUFFICES ASSUME CInv, [CNext]_vars PROVE CInv' /\ [OpenNext]_qvars
  OBVIOUS
<1>1. TypeOK /\ LocalOK /\ StartUp /\ IInv
  BY DEF CInv, IInv
<1>2. [OpenNext]_qvars
  BY <1>1, StepOpens
<1>3. IInv'
  BY <1>1, <1>2, StepInvariant
<1>4. LocalOK'
  BY <1>1, StepLocal
<1>5. StartUp'
  BY <1>1, StepStartUp
<1> QED BY <1>2, <1>3, <1>4, <1>5 DEF CInv

LEMMA RepeatedInvariant == RepeatedSpec => []CInv
BY InitCInv, StepCInv, PTL DEF RepeatedSpec

LEMMA RepeatedEngine == RepeatedSpec => OpenSpec
<1>1. CInv /\ [CNext]_vars => [OpenNext]_qvars
  BY StepCInv
<1>2. [CNext \/ CStarted']_vars => [CNext]_vars \/ CStarted'
  OBVIOUS
<1>3. CInv /\ [CNext \/ CStarted']_vars => [OpenNext \/ QStarted']_qvars
  <2>1. CStarted' => QStarted'
    BY StartedEngine, PTL
  <2> QED BY <1>1, <1>2, <2>1
<1> QED BY <1>3, StartedEngine, RepeatedInvariant, PTL DEF RepeatedSpec, OpenSpec

(* What the engine promises its collectives. *)
EngineHolds ==
  /\ TypeOK /\ NoTimewarp /\ CountMatchesPending /\ BusyNodesHaveEndTasks
  /\ EmptyPopOnlyWithoutCosts /\ TopIsUnique /\ LogPCapacity /\ IdleMeansFree

LEMMA RepeatedEngineHolds == RepeatedSpec => []EngineHolds
<1>1. OpenSpec => []IInv
  BY Invariance
<1>2. IInv => /\ TypeOK /\ NoTimewarp /\ CountMatchesPending /\ BusyNodesHaveEndTasks
              /\ EmptyPopOnlyWithoutCosts
  BY DEF IInv
<1> QED BY <1>1, <1>2, RepeatedEngine, OrderIsTotal, CapacityRespected, IdleIsFree, PTL DEF EngineHolds

(* The shape of what the phases keep, whatever phases, tree and failures:  *)
(* nobody is in a phase that does not exist, and multiple trees begin with *)
(* every InitTask served.                                                  *)
THEOREM CollectiveInvariant == CSpec => []CInv
BY OneCollective, RepeatedInvariant, PTL

(* Every collective of the program is an environment the engine was proved *)
(* for: a phase asks for the notified node alone, never for the past, and  *)
(* only the message just received is scheduled again.                      *)
THEOREM EngineServes == CSpec => OpenSpec
BY OneCollective, RepeatedEngine, PTL

(* The engine under the real phases, whatever the tree, the failures and   *)
(* the LogP parameters: the clock never goes back, the idle tracker counts *)
(* right and strands nobody unless operations are free, the heap is        *)
(* totally ordered, nobody does more at a time than LogP allows, and an    *)
(* IdleTask finds its node free.                                           *)
THEOREM EngineOfCollectives == CSpec => []EngineHolds
BY OneCollective, RepeatedEngineHolds, PTL

(* What the theorem about idle tasks rests on, too. *)
LEMMA IdleInvariant == RepeatedSpec => []IdleInv
<1>1. CStarted => IdleInv
  BY InitIdle DEF CStarted, CStart
<1>2. CInv /\ IdleInv /\ [CNext]_vars => IdleInv'
  BY StepOpens, StepIdle DEF CInv, IInv
<1> QED BY <1>1, <1>2, RepeatedInvariant, PTL DEF RepeatedSpec
-----------------------------------------------------------------------------
(* The main program: between two repetitions it starts a collective on a   *)
(* configuration that differs in the failed nodes alone.                   *)

(* What Begin leaves of the configuration. *)
LEMMA BeginKeeps ==
  ASSUME conf \in Configurations, NEW failed, Begin(failed)
  PROVE  /\ conf' = [conf EXCEPT !.failed = failed] /\ conf'.failed = failed
         /\ conf'.P = conf.P /\ conf'.faults = conf.faults
         /\ conf'.F = conf.F /\ conf'.robust = conf.robust
         /\ Node' = Node /\ Thread' = Thread /\ FirstReached' = FirstReached
         /\ conf'.receivers = conf.receivers /\ conf'.parallelism = conf.parallelism
<1>1. conf' = [conf EXCEPT !.failed = failed]
  BY DEF Begin
<1>2. {"P", "parallelism", "phases", "receivers", "failed", "faults", "F", "robust"} \subseteq DOMAIN conf
  BY ExperimentsAssumption
<1>3. /\ conf'.failed = failed /\ conf'.P = conf.P /\ conf'.faults = conf.faults
      /\ conf'.F = conf.F /\ conf'.robust = conf.robust /\ conf'.phases = conf.phases
      /\ conf'.receivers = conf.receivers /\ conf'.parallelism = conf.parallelism
  BY <1>1, <1>2
<1>4. Node' = Node /\ Thread' = Thread /\ Last' = Last
  BY <1>3 DEF Node, Thread, Last
<1>5. FirstReached' = FirstReached
  BY <1>3, <1>4 DEF FirstReached
<1> QED BY <1>1, <1>3, <1>4, <1>5

(* Begin writes down what admitting the InitTasks of all nodes makes of    *)
(* them, and else what a collective starts with.                           *)
LEMMA BeginStarts ==
  ASSUME TypeOK, NEW failed, [conf EXCEPT !.failed = failed] \in Configurations, Begin(failed),
         NEW first \in Nat, first = nextSeq
  PROVE  CStart(first)'
<1>1. conf \in Configurations
  BY DEF TypeOK
<1>2. /\ conf' = [conf EXCEPT !.failed = failed] /\ conf'.failed = failed /\ conf'.P = conf.P
      /\ Node' = Node /\ Thread' = Thread /\ FirstReached' = FirstReached
      /\ conf'.receivers = conf.receivers /\ conf'.parallelism = conf.parallelism
  BY <1>1, BeginKeeps
<1> DEFINE init(n) == [type |-> "Init", tag |-> "INIT", time |-> 0, seq |-> first + n,
                       sender |-> n, receiver |-> n]
           first_task(n) == [type |-> IF n \in failed THEN "Failure" ELSE "Init", tag |-> "INIT", time |-> 0,
                             seq |-> first + n, sender |-> n, receiver |-> n]
<1>3. queue' = {first_task(n) : n \in Node}
  BY DEF Begin
<1>4. ASSUME NEW n \in Node
      PROVE  Admitted(init(n))' = {first_task(n)}
  BY <1>2 DEF Admitted
<1>5. AllAdmitted({init(n) : n \in Node})' = UNION {Admitted(t)' : t \in {init(n) : n \in Node}}
  BY <1>2 DEF AllAdmitted
<1>6. queue' = AllAdmitted({init(n) : n \in Node})'
  <2> HIDE DEF init, first_task
  <2>1. UNION {Admitted(t)' : t \in {init(n) : n \in Node}} = UNION {Admitted(init(n))' : n \in Node}
    OBVIOUS
  <2>2. UNION {Admitted(init(n))' : n \in Node} = {first_task(n) : n \in Node}
    BY <1>4
  <2> QED BY <1>3, <1>5, <2>1, <2>2
<1>7. QStart(first)'
  BY <1>2, <1>6 DEF QStart, Begin
<1>8. local' = [n \in Node' |-> InitialState(n \in FirstReached', Len(conf'.receivers[n]))]
  BY <1>2 DEF Begin
<1> QED BY <1>7, <1>8 DEF CStart, Begin

(* Whoever simulates was not refused by the fault injector. *)
RInv == CInv /\ (program = "run" => ~ Refused(conf))

LEMMA InitRInv == RInit => RInv /\ CStarted
<1>1. RInit => CInv /\ CStarted
  BY FirstCollective, InitCInv DEF RInit
<1> QED BY <1>1 DEF RInit, RInv

LEMMA ContinueStarts ==
  ASSUME TypeOK, ~ Refused(conf), Continue
  PROVE  /\ CStarted' \/ UNCHANGED vars
         /\ program' = "run" => ~ Refused(conf)'
<1>1. CASE ~ (round + 1 < conf.repeat)
  BY <1>1 DEF Continue, vars, qvars
<1>2. CASE round + 1 < conf.repeat
  <2>1. conf \in Configurations /\ nextSeq \in Nat
    BY DEF TypeOK
  <2>2. PICK failed \in Redraw(conf) : Begin(failed)
    BY <1>2 DEF Continue
  <2>3. [conf EXCEPT !.failed = failed] \in Configurations
    BY <2>1, <2>2, ExperimentsAssumption DEF Redraw
  <2>4. PICK first \in Nat : first = nextSeq
    BY <2>1
  <2>5. CStart(first)'
    BY <2>2, <2>3, <2>4, BeginStarts
  <2>6. CStarted'
    BY <2>5 DEF CStarted
  <2>7. ~ Refused(conf)'
    BY <2>1, <2>2, BeginKeeps DEF Refused
  <2> QED BY <2>6, <2>7
<1> QED BY <1>1, <1>2

LEMMA ProgramStep ==
  ASSUME RInv, [RNext]_<<vars, mvars>>
  PROVE  /\ [CNext \/ CStarted']_vars
         /\ program' = "run" => ~ Refused(conf)'
<1>1. TypeOK /\ LocalOK /\ StartUp
  BY DEF RInv, CInv, IInv
<1>2. CASE Simulate
  <2>1. CNext /\ program' = program
    BY <1>2 DEF Simulate, CNext
  <2>2. conf' = conf
    BY <1>1, <2>1, StepLocal
  <2> QED BY <2>1, <2>2 DEF RInv, Refused
<1>3. CASE Report \/ Catch
  <2>1. program = "run" /\ Continue
    BY <1>3 DEF Report, Catch
  <2> QED BY <1>1, <2>1, ContinueStarts DEF RInv
<1>4. CASE Abort
  <2>1. program' # "run" /\ [CNext]_vars
    BY <1>4 DEF Abort, CNext
  <2> QED BY <2>1
<1>5. CASE Ended \/ UNCHANGED <<vars, mvars>>
  <2>1. UNCHANGED vars /\ program' = program /\ conf' = conf
    BY <1>5 DEF Ended, mvars, vars, qvars
  <2> QED BY <2>1 DEF RInv, Refused
<1> QED BY <1>2, <1>3, <1>4, <1>5 DEF RNext

(***************************************************************************)
(* Whatever the main program repeats, and whichever nodes fail in each     *)
(* repetition, is one collective after the other, each from a fresh start: *)
(* no state of one is left to the next but the sequence numbers, and what  *)
(* is proved of RepeatedSpec holds in every repetition.                    *)
(***************************************************************************)
THEOREM RepetitionsAreCollectives == RSpec => RepeatedSpec
<1>1. RInv /\ [RNext]_<<vars, mvars>> => [CNext \/ CStarted']_vars /\ (program' = "run" => ~ Refused(conf)')
  BY ProgramStep
<1>2. CInv /\ [CNext \/ CStarted']_vars => CInv'
  <2>1. CStarted' => CInv'
    BY InitCInv, PTL
  <2>2. CInv /\ [CNext]_vars => CInv'
    BY StepCInv
  <2> QED BY <2>1, <2>2
<1>3. RInv /\ [RNext]_<<vars, mvars>> => RInv'
  BY <1>1, <1>2 DEF RInv
<1> QED BY InitRInv, <1>1, <1>3, PTL DEF RSpec, RepeatedSpec

(* The engine keeps its promises in every repetition. *)
THEOREM EngineOfRepetitions == RSpec => []EngineHolds
BY RepetitionsAreCollectives, RepeatedEngineHolds, PTL

=============================================================================
