-------------------------- MODULE CorrectionProofs ---------------------------
(***************************************************************************)
(* The correction: proofs that a node never sends to itself and that the   *)
(* two directions of its ring together pass at most one node twice; that   *)
(* the checked correction reaches every live node, whichever nodes failed, *)
(* as long as the root works and operations take time; and that, with no   *)
(* phase that waits for a time, the opportunistic correction reaches all   *)
(* live neighbours of the nodes the tree reaches.                          *)
(***************************************************************************)
EXTENDS PhaseProofs

(***************************************************************************)
(* Checked correction.  A direction that is still active is ahead of the   *)
(* other one by at most one message, if both are active; if one is not it  *)
(* has been heard of from somebody else, or it was barred, after it moved. *)
(***************************************************************************)
RingsFine(s) ==
  /\ s.left.minRecv > 0 /\ s.right.minRecv > 0
  /\ s.left.offset + s.right.offset <= conf.P
  /\ Options.kind = "Checked" /\ Options.throttled /\ Active(s.left) /\ Active(s.right) =>
       s.left.offset = IF s.nowLeft THEN s.right.offset - 1 ELSE s.right.offset

(* Opportunistic correction: what is sent, and that a node leaves when it  *)
(* has covered its neighbours, also the first message to the right if      *)
(* there is nothing to cover.                                              *)
Farthest == LaterOf(conf.d, 1)
SentBounded(s) == s.sentLeft <= Farthest /\ s.sentRight <= Farthest
StillOpen(s) == ~ Covered(conf, s) \/ (s.sentLeft = 0 /\ s.sentRight = 0)

SentFine(s) == SentBounded(s) /\ (s.cur <= Last => StillOpen(s))

RingInv ==
  /\ \A n \in Node : RingsFine(local[n]) /\ (Options.kind = "Opportunistic" => SentFine(local[n]))
  /\ \A t \in queue : t.type \in MessageTypes => t.sender # t.receiver

-----------------------------------------------------------------------------
(* What a dispatch must do for that. *)

(* Messages are for somebody else. *)
ToOthers(n, reqs) == \A r \in RangeOf(reqs) : r.type = "SendStart" => r.receiver # n

(* Most phases do not touch what the correction keeps. *)
SameRings(s, r) ==
  /\ r.left = s.left /\ r.right = s.right /\ r.nowLeft = s.nowLeft
  /\ r.sentLeft = s.sentLeft /\ r.sentRight = s.sentRight

Careful(n, out) ==
  /\ ToOthers(n, out.reqs)
  /\ RingsFine(out.s)
  /\ Options.kind = "Opportunistic" =>
       SentBounded(out.s) /\ (out.res = "ONGOING" => StillOpen(out.s))

(* A phase before an opportunistic correction leaves it everything to do.  *)
Untouched(out) == Options.kind = "Opportunistic" => StillOpen(out.s)

FineBefore(s) == RingsFine(s) /\ (Options.kind = "Opportunistic" => SentFine(s)) /\ s.cur <= Last

LEMMA SameCareful ==
  ASSUME NEW n, NEW s, NEW out, FineBefore(s), SameRings(s, out.s), ToOthers(n, out.reqs)
  PROVE  Careful(n, out) /\ Untouched(out)
BY DEF FineBefore, SameRings, Careful, Untouched, RingsFine, SentFine, SentBounded, StillOpen, Covered

LEMMA FewOthers ==
  ASSUME NEW n, NEW at
  PROVE  /\ ToOthers(n, <<>>)
         /\ \A x : ToOthers(n, <<x>>) <=> (x.type = "SendStart" => x.receiver # n)
         /\ \A x, y : ToOthers(n, <<x, y>>) <=> ToOthers(n, <<x>>) /\ ToOthers(n, <<y>>)
         /\ \A reqs \in Seq(Posts(n, at)) : ToOthers(n, reqs)
<1>1. RangeOf(<<>>) = {} /\ \A x : RangeOf(<<x>>) = {x}
  BY DEF RangeOf
<1>2. \A x, y : RangeOf(<<x, y>>) = {x, y}
  BY DEF RangeOf
<1>3. \A reqs \in Seq(Posts(n, at)) : ToOthers(n, reqs)
  BY DEF ToOthers, RangeOf, Posts
<1>4. ToOthers(n, <<>>)
  BY <1>1 DEF ToOthers
<1>5. \A x : ToOthers(n, <<x>>) <=> (x.type = "SendStart" => x.receiver # n)
  BY <1>1 DEF ToOthers
<1>6. ASSUME NEW x, NEW y
      PROVE  ToOthers(n, <<x, y>>) <=> ToOthers(n, <<x>>) /\ ToOthers(n, <<y>>)
  <2>1. PICK a, b, c : a = <<x, y>> /\ b = <<x>> /\ c = <<y>>
    OBVIOUS
  <2>2. RangeOf(a) = {x, y} /\ RangeOf(b) = {x} /\ RangeOf(c) = {y}
    BY <1>1, <1>2, <2>1
  <2>3. ToOthers(n, a) <=> ToOthers(n, b) /\ ToOthers(n, c)
    BY <2>2 DEF ToOthers
  <2> QED BY <2>1, <2>3
<1> QED BY <1>3, <1>4, <1>5, <1>6

LEMMA QuietRequests ==
  ASSUME NEW n, NEW m
  PROVE  /\ \A when, tag : TimerRequest(tag, when, n).type # "SendStart"
         /\ \A when : InitRequest(when, n).type # "SendStart"
         /\ IdleRequest(n).type # "SendStart" /\ FinishRequest(n).type # "SendStart"
         /\ \A tag, when : SendRequest(tag, when, n, m).receiver = m
BY DEF TimerRequest, InitRequest, IdleRequest, FinishRequest, SendRequest

-----------------------------------------------------------------------------
(* The phases that are no correction. *)

LEMMA DepInitCareful ==
  ASSUME TypeOK, NEW n \in Node, NEW s \in State, FineBefore(s), NEW t
  PROVE  Careful(n, DepInitDispatch(s, t)) /\ Untouched(DepInitDispatch(s, t))
<1>1. PICK out : out = DepInitDispatch(s, t)
  OBVIOUS
<1>2. out.s = s /\ out.reqs = <<>>
  BY <1>1 DEF DepInitDispatch, Outcome, Ongoing
<1>3. SameRings(s, out.s) /\ ToOthers(n, out.reqs)
  BY <1>2, FewOthers DEF SameRings
<1> QED BY <1>1, <1>3, SameCareful

(* A state that only learns of a message keeps its rings. *)
LEMMA ReachedRings ==
  ASSUME NEW s \in State
  PROVE  /\ SameRings(s, s)
         /\ SameRings(s, [s EXCEPT !.reached = TRUE])
         /\ \A k \in Int : /\ SameRings(s, [s EXCEPT !.toReceive = k])
                           /\ SameRings(s, [s EXCEPT !.reached = TRUE, !.toReceive = k])
BY DEF SameRings, State

LEMMA TreeCareful ==
  ASSUME TypeOK, NEW ph, NEW n \in Node, NEW s \in State, FineBefore(s), NEW t, NEW at \in Nat
  PROVE  Careful(n, TreeDispatch(conf, ph, n, s, t, at)) /\ Untouched(TreeDispatch(conf, ph, n, s, t, at))
<1>1. PICK out : out = TreeDispatch(conf, ph, n, s, t, at) /\ out.reqs \in Seq(Posts(n, at))
  BY TreePosts
<1>2. out.s = s \/ out.s = [s EXCEPT !.reached = TRUE]
  BY <1>1 DEF TreeDispatch, TreeInit, TreeRecvEnd, Outcome, Ongoing
<1> QED BY <1>1, <1>2, ReachedRings, FewOthers, SameCareful

LEMMA MultiTreeCareful ==
  ASSUME TypeOK, NEW n \in Node, NEW s \in State, FineBefore(s), NEW t, NEW at \in Nat,
         t.type = "Init" /\ s.reached => n = 0 /\ TreesFit(conf)
  PROVE  Careful(n, MultiTreeDispatch(conf, n, s, t, at))
<1>1. PICK out : out = MultiTreeDispatch(conf, n, s, t, at) /\ out.reqs \in Seq(Posts(n, at))
  BY MultiTreePosts
<1>2. out.s = s \/ out.s = [s EXCEPT !.reached = TRUE]
  BY <1>1 DEF MultiTreeDispatch, MultiTreeInit, MultiTreeRecvEnd, Outcome, Ongoing
<1> QED BY <1>1, <1>2, ReachedRings, FewOthers, SameCareful

LEMMA GossipCareful ==
  ASSUME TypeOK, NEW n \in Node, NEW s \in State, FineBefore(s), NEW t, NEW at \in Nat,
         NEW begin \in Nat, NEW draw \in Node, t.type = "Idle" => draw # n
  PROVE  Careful(n, GossipDispatch(conf, n, s, t, at, begin, draw)) /\ Untouched(GossipDispatch(conf, n, s, t, at, begin, draw))
<1>1. PICK out : out = GossipDispatch(conf, n, s, t, at, begin, draw)
  OBVIOUS
<1>2. PICK timer : timer = TimerRequest("INTERNAL", begin + conf.gossip, n) /\ timer.type # "SendStart"
  BY QuietRequests
<1>3. PICK wish : wish = IdleRequest(n) /\ wish.type # "SendStart"
  BY QuietRequests
<1>4. PICK send : send = SendRequest("GOSSIP", at, n, draw) /\ (t.type = "Idle" => send.receiver # n)
  BY QuietRequests
<1>5. PICK both, alone : both = <<timer>> \o <<wish>> /\ alone = <<timer>> \o <<>>
  OBVIOUS
<1>6. \/ out.reqs \in {<<>>, <<wish>>, both, alone}
      \/ t.type = "Idle" /\ out.reqs = <<send>>
  BY <1>1, <1>2, <1>3, <1>4, <1>5
     DEF GossipDispatch, GossipInit, GossipIdle, GossipTimer, GossipRecvEnd, Outcome, Ongoing
<1>7. out.s = s \/ out.s = [s EXCEPT !.reached = TRUE]
  BY <1>1 DEF GossipDispatch, GossipInit, GossipIdle, GossipTimer, GossipRecvEnd, Outcome, Ongoing
<1>8. ToOthers(n, out.reqs)
  <2>1. ToOthers(n, <<>>) /\ ToOthers(n, <<wish>>) /\ ToOthers(n, <<timer>>)
        /\ (t.type = "Idle" => ToOthers(n, <<send>>))
    BY <1>2, <1>3, <1>4, FewOthers
  <2>2. RangeOf(both) = {timer, wish} /\ RangeOf(alone) = {timer}
    <3>1. PICK S : S = {timer, wish}
      OBVIOUS
    <3>2. <<timer>> \in Seq(S) /\ <<wish>> \in Seq(S) /\ <<>> \in Seq(S)
      BY <3>1, Few
    <3>3. RangeOf(both) = RangeOf(<<timer>>) \cup RangeOf(<<wish>>)
      BY <1>5, <3>2, ConcatRange
    <3>4. RangeOf(alone) = RangeOf(<<timer>>) \cup RangeOf(<<>>)
      BY <1>5, <3>2, ConcatRange
    <3> QED BY <3>3, <3>4, FewRange
  <2>3. ToOthers(n, both) /\ ToOthers(n, alone)
    BY <1>2, <1>3, <2>2 DEF ToOthers
  <2> QED BY <1>6, <2>1, <2>3
<1> QED BY <1>1, <1>7, <1>8, ReachedRings, SameCareful

LEMMA GatherCareful ==
  ASSUME TypeOK, NEW n \in Node, NEW s \in State, FineBefore(s), NEW t, NEW at \in Nat
  PROVE  Careful(n, GatherDispatch(conf, n, s, t, at))
<1>1. PICK out : out = GatherDispatch(conf, n, s, t, at)
  OBVIOUS
<1>2. \A m \in Upwards(conf, n) : m # n
  BY CollectiveType DEF Upwards, IsCollective, Node
<1>3. \A r : LET sent == GatherSends(conf, n, r, at)
             IN /\ ToOthers(n, sent.reqs)
                /\ sent.s = r \/ sent.s = [r EXCEPT !.toReceive = @ - 1]
  <2>1. TAKE r
  <2>2. PICK up : up = CHOOSE m \in Upwards(conf, n) : TRUE
    OBVIOUS
  <2>3. Upwards(conf, n) # {} => up # n
    BY <1>2, <2>2
  <2>4. ToOthers(n, <<>>) /\ (Upwards(conf, n) # {} => ToOthers(n, <<SendRequest("GATHER", at, n, up)>>))
    <3>1. PICK x : x = SendRequest("GATHER", at, n, up) /\ x.receiver = up
      BY QuietRequests
    <3>2. ToOthers(n, <<>>) /\ (up # n => ToOthers(n, <<x>>))
      BY <3>1, FewOthers
    <3> QED BY <2>3, <3>1, <3>2
  <2> QED BY <2>2, <2>4 DEF GatherSends, Outcome, Ongoing
<1>4. CASE t.type = "Init"
  <2>1. PICK k \in Int : k = s.toReceive - 1
    BY DEF State
  <2>2. out = Ongoing(s) \/ out = GatherSends(conf, n, s, at)
    BY <1>1, <1>4 DEF GatherDispatch, GatherInit
  <2>3. ToOthers(n, out.reqs) /\ (out.s = s \/ out.s = [s EXCEPT !.toReceive = k])
    <3>1. PICK sent : sent = GatherSends(conf, n, s, at)
      OBVIOUS
    <3>2. ToOthers(n, sent.reqs) /\ (sent.s = s \/ sent.s = [s EXCEPT !.toReceive = k])
      BY <1>3, <2>1, <3>1
    <3>3. ToOthers(n, Ongoing(s).reqs) /\ Ongoing(s).s = s
      BY FewOthers DEF Ongoing, Outcome
    <3> QED BY <2>2, <3>1, <3>2, <3>3
  <2> QED BY <1>1, <2>3, ReachedRings, SameCareful
<1>5. CASE t.type = "RecvEnd"
  <2>1. PICK k \in Int : k = s.toReceive - 1
    BY DEF State
  <2>2. PICK r \in State : r = [s EXCEPT !.reached = TRUE, !.toReceive = k]
    BY <2>1 DEF State
  <2>3. r.toReceive = k /\ SameRings(s, r)
    BY <2>2, ReachedRings DEF State
  <2>4. out = GatherSends(conf, n, r, at)
    BY <1>1, <1>5, <2>1, <2>2 DEF GatherDispatch, GatherRecvEnd
  <2>5. ToOthers(n, out.reqs) /\ (out.s = r \/ out.s = [r EXCEPT !.toReceive = @ - 1])
    BY <1>3, <2>4
  <2>6. PICK j \in Int : j = r.toReceive - 1
    BY <2>3
  <2>7. SameRings(s, out.s)
    <3>1. out.s = r \/ out.s = [r EXCEPT !.toReceive = j]
      BY <2>5, <2>6
    <3>2. SameRings(r, out.s)
      BY <3>1, ReachedRings
    <3> QED BY <2>3, <3>2 DEF SameRings
  <2> QED BY <1>1, <2>5, <2>7, SameCareful
<1>6. CASE t.type \notin {"Init", "RecvEnd"}
  <2>1. out = Ongoing(s)
    BY <1>1, <1>6 DEF GatherDispatch
  <2>2. out.s = s /\ out.reqs = <<>>
    BY <2>1 DEF Ongoing, Outcome
  <2>3. SameRings(s, out.s) /\ ToOthers(n, out.reqs)
    BY <2>2, FewOthers DEF SameRings
  <2> QED BY <1>1, <2>3, SameCareful
<1> QED BY <1>4, <1>5, <1>6

-----------------------------------------------------------------------------
(* Checked correction. *)

LEMMA NeighbourOther ==
  ASSUME TypeOK, NEW n \in Node, NEW dir \in {"left", "right"}, NEW k \in 1 .. conf.P - 1
  PROVE  Neighbour(conf, n, dir, k) # n
<1>1. PICK P \in Nat \ {0} : P = conf.P /\ n \in 0 .. P - 1
  BY CollectiveType DEF Node
<1>2. PICK j \in Int : j = IF dir = "left" THEN - k ELSE k
  BY <1>1
<1>3. j # 0 /\ j < P /\ j > - P
  BY <1>1, <1>2
<1>4. (n + j + P) % P # n
  BY <1>1, <1>3, Apart
<1> QED BY <1>1, <1>2, <1>4 DEF Neighbour

(* What is left of a state when a direction ends. *)
LEMMA BarredEnds ==
  ASSUME NEW s \in State, NEW dir \in {"left", "right"}, NEW ended,
         ended = [Turned(Options, s) EXCEPT ![dir] = [offset |-> @.offset + 1, minRecv |-> 1]]
  PROVE  /\ ended[dir] = [offset |-> s[dir].offset + 1, minRecv |-> 1]
         /\ dir = "left" => ended.right = s.right
         /\ dir = "right" => ended.left = s.left
<1>1. PICK r \in State : r = Turned(Options, s)
  BY TurnedType DEF SameBut
<1>2. r.left = s.left /\ r.right = s.right
  BY <1>1, TurnedType
<1>3. ended = [r EXCEPT ![dir] = [offset |-> r[dir].offset + 1, minRecv |-> 1]]
  BY <1>1
<1>4. CASE dir = "left"
  BY <1>2, <1>3, <1>4 DEF State
<1>5. CASE dir = "right"
  BY <1>2, <1>3, <1>5 DEF State
<1> QED BY <1>4, <1>5

(* A direction that is barred ends, and so no assertion is left on both. *)
LEMMA BarredCareful ==
  ASSUME TypeOK, NEW n \in Node, NEW s \in State, RingsFine(s)
  PROVE  RingsFine(Barred(conf, Options, n, s))
<1>1. PICK dir \in {"left", "right"} : dir = Dir(Options, s)
  BY DirType
<1>2. PICK ended : ended = [Turned(Options, s) EXCEPT ![dir] = [offset |-> @.offset + 1, minRecv |-> 1]]
  OBVIOUS
<1>3. /\ ended[dir] = [offset |-> s[dir].offset + 1, minRecv |-> 1]
      /\ dir = "left" => ended.right = s.right
      /\ dir = "right" => ended.left = s.left
  BY <1>2, BarredEnds
<1>4. s.left \in RingState /\ s.right \in RingState /\ conf.P \in Nat
  BY CollectiveType DEF State
<1>5. ~ Exhausted(conf, s) => RingsFine(ended)
  <2>1. CASE dir = "left"
    BY <1>3, <1>4, <2>1 DEF RingState, RingsFine, Exhausted, Active
  <2>2. CASE dir = "right"
    BY <1>3, <1>4, <2>2 DEF RingState, RingsFine, Exhausted, Active
  <2> QED BY <2>1, <2>2
<1>6. Barred(conf, Options, n, s) = IF CrossesRoot(conf, Options, n, s) THEN ended ELSE s
  BY <1>1, <1>2 DEF Barred
<1>7. CrossesRoot(conf, Options, n, s) => ~ Exhausted(conf, s)
  BY DEF CrossesRoot
<1> QED BY <1>5, <1>6, <1>7

(* The direction whose turn it is has not gone all the way round: the      *)
(* other one is not behind by more than one message, or it has ended.      *)
LEMMA TurnIsNear ==
  ASSUME TypeOK, conf.P > 1, Options.kind = "Checked", NEW s \in State, RingsFine(s), ~ Exhausted(conf, s),
         NEW dir \in {"left", "right"}, dir = Dir(Options, s), Active(s[dir])
  PROVE  s[dir].offset + 1 \in 1 .. conf.P - 1
<1>1. /\ s.left.offset \in Nat /\ s.right.offset \in Nat /\ s.left.minRecv \in Nat /\ s.right.minRecv \in Nat
      /\ conf.P \in Nat
  BY CollectiveType DEF State, RingState
<1>2. s.left.offset + s.right.offset < conf.P
  BY <1>1 DEF Exhausted
<1>3. CASE Options.throttled
  <2>1. dir = "left" <=> s.nowLeft
    BY <1>3 DEF Dir
  <2>2. CASE dir = "left"
    BY <1>1, <1>2, <1>3, <2>1, <2>2 DEF RingsFine, Active
  <2>3. CASE dir = "right"
    BY <1>1, <1>2, <1>3, <2>1, <2>3 DEF RingsFine, Active
  <2> QED BY <2>2, <2>3
<1>4. CASE ~ Options.throttled
  <2>1. dir = "left" <=> Active(s.left) /\ (Active(s.right) => s.left.offset <= s.right.offset)
    BY <1>4 DEF Dir
  <2>2. CASE dir = "left"
    BY <1>1, <1>2, <2>1, <2>2 DEF RingsFine, Active
  <2>3. CASE dir = "right"
    BY <1>1, <1>2, <2>1, <2>3 DEF RingsFine, Active
  <2> QED BY <2>2, <2>3
<1> QED BY <1>3, <1>4

LEMMA PostCareful ==
  ASSUME TypeOK, conf.P > 1, Options.kind = "Checked", NEW n \in Node, NEW s \in State, RingsFine(s),
         ~ Exhausted(conf, s), NEW at \in Nat, NEW dir \in {"left", "right"}, dir = Dir(Options, s)
  PROVE  Careful(n, Post(conf, Options, n, s, at, dir))
<1>1. /\ s.left \in RingState /\ s.right \in RingState /\ conf.P \in Nat /\ s[dir] \in RingState
      /\ s.nowLeft \in BOOLEAN
  BY CollectiveType DEF State
<1>2. PICK turned \in State : turned = Turned(Options, s)
  BY TurnedType DEF SameBut
<1>3. /\ turned.left = s.left /\ turned.right = s.right
      /\ turned.nowLeft = IF Options.throttled THEN ~ s.nowLeft ELSE s.nowLeft
  BY <1>2, TurnedType
<1>4. PICK moved : moved = [turned EXCEPT ![dir].offset = @ + 1]
  OBVIOUS
<1>5. /\ moved[dir] = [offset |-> s[dir].offset + 1, minRecv |-> s[dir].minRecv]
      /\ moved.nowLeft = turned.nowLeft
      /\ dir = "left" => moved.right = s.right
      /\ dir = "right" => moved.left = s.left
  <2>1. CASE dir = "left"
    BY <1>1, <1>3, <1>4, <2>1 DEF State, RingState
  <2>2. CASE dir = "right"
    BY <1>1, <1>3, <1>4, <2>2 DEF State, RingState
  <2> QED BY <2>1, <2>2
<1>6. CASE ~ Active(s[dir])
  <2>1. RingsFine(turned)
    <3>1. CASE dir = "left"
      BY <1>3, <1>6, <3>1 DEF RingsFine
    <3>2. CASE dir = "right"
      BY <1>3, <1>6, <3>2 DEF RingsFine
    <3> QED BY <3>1, <3>2
  <2>2. PICK timer : timer = TimerRequest("INTERNAL", at + conf.o, n) /\ timer.type # "SendStart"
    BY QuietRequests
  <2>3. Post(conf, Options, n, s, at, dir) = Outcome("ONGOING", <<timer>>, turned)
    BY <1>2, <1>6, <2>2 DEF Post
  <2>4. ToOthers(n, <<timer>>)
    BY <2>2, FewOthers
  <2> QED BY <2>1, <2>3, <2>4 DEF Careful, Outcome
<1>7. CASE Active(s[dir])
  <2>1. s[dir].offset + 1 \in 1 .. conf.P - 1
    BY <1>7, TurnIsNear
  <2>2. RingsFine(moved)
    <3>1. Options.throttled => (dir = "left" <=> s.nowLeft)
      BY DEF Dir
    <3>2. s.left.offset + s.right.offset < conf.P
      BY <1>1 DEF Exhausted, RingState
    <3>3. CASE dir = "left"
      <4>1. /\ moved.left.offset = s.left.offset + 1 /\ moved.left.minRecv = s.left.minRecv
            /\ moved.right = s.right
        BY <1>5, <3>3
      <4>2. Options.throttled => s.nowLeft /\ ~ moved.nowLeft
        BY <1>3, <1>5, <3>1, <3>3
      <4> QED BY <1>1, <1>7, <3>2, <3>3, <4>1, <4>2 DEF RingsFine, Active, RingState
    <3>4. CASE dir = "right"
      <4>1. /\ moved.right.offset = s.right.offset + 1 /\ moved.right.minRecv = s.right.minRecv
            /\ moved.left = s.left
        BY <1>5, <3>4
      <4>2. Options.throttled => ~ s.nowLeft /\ moved.nowLeft
        BY <1>3, <1>5, <3>1, <3>4
      <4> QED BY <1>1, <1>7, <3>2, <3>4, <4>1, <4>2 DEF RingsFine, Active, RingState
    <3> QED BY <3>3, <3>4
  <2>3. PICK m : m = Neighbour(conf, n, dir, s[dir].offset + 1) /\ m # n
    BY <2>1, NeighbourOther
  <2>4. PICK send : /\ send = SendRequest(IF dir = "left" THEN "RING_LEFT" ELSE "RING_RIGHT", at, n, m)
                    /\ send.receiver # n
    BY <2>3, QuietRequests
  <2>5. moved[dir].offset = s[dir].offset + 1
    BY <1>5
  <2>6. Post(conf, Options, n, s, at, dir) = Outcome("ONGOING", <<send>>, moved)
    BY <1>2, <1>4, <1>7, <2>3, <2>4, <2>5 DEF Post
  <2>7. ToOthers(n, <<send>>)
    BY <2>4, FewOthers
  <2> QED BY <2>2, <2>6, <2>7 DEF Careful, Outcome
<1> QED BY <1>6, <1>7

LEMMA PostMessageCareful ==
  ASSUME TypeOK, conf.P > 1, Options.kind = "Checked", NEW n \in Node, NEW s \in State, RingsFine(s),
         NEW at \in Nat
  PROVE  Careful(n, PostMessage(conf, Options, n, s, at))
<1>1. PICK a : a = Barred(conf, Options, n, s) /\ a \in State /\ RingsFine(a)
  BY BarredType, BarredCareful DEF SameBut
<1>2. PICK b : b = Barred(conf, Options, n, a) /\ b \in State /\ RingsFine(b)
  BY <1>1, BarredType, BarredCareful DEF SameBut
<1>3. PICK dir \in {"left", "right"} : dir = Dir(Options, b)
  BY DirType
<1>4. PostMessage(conf, Options, n, s, at)
        = IF Exhausted(conf, b) THEN Outcome("DONE_PHASE", <<>>, b) ELSE Post(conf, Options, n, b, at, dir)
  BY <1>1, <1>2, <1>3 DEF PostMessage, PostOpen
<1>5. Careful(n, Outcome("DONE_PHASE", <<>>, b))
  BY <1>2, FewOthers DEF Careful, Outcome
<1>6. ~ Exhausted(conf, b) => Careful(n, Post(conf, Options, n, b, at, dir))
  BY <1>2, <1>3, PostCareful
<1> QED BY <1>4, <1>5, <1>6

(* How far away another node is. *)
LEMMA DistancePositive ==
  ASSUME NEW P \in Nat \ {0}, NEW n \in 0 .. P - 1, NEW m \in 0 .. P - 1, n # m
  PROVE  (P + n - m) % P \in 1 .. P - 1
<1>1. PICK a \in Int : a = P + n - m
  OBVIOUS
<1>2. PICK q \in Int : a = q * P + (a % P) /\ a % P \in 0 .. P - 1
  BY Divided
<1>3. CASE a % P = 0
  <2>1. PICK x \in Int : x = q - 1
    OBVIOUS
  <2>2. x * P = n - m
    BY <1>1, <1>2, <1>3, <2>1
  <2>3. x = 0
    BY <2>2, NoMultiple
  <2> QED BY <2>2, <2>3
<1> QED BY <1>1, <1>2, <1>3

(* To hear of somebody ends a direction earlier, but not before it began. *)
LEMMA CheckedRecvEndCareful ==
  ASSUME TypeOK, Options.kind = "Checked", NEW n \in Node, NEW s \in State, RingsFine(s),
         NEW t \in Task, t.sender # n
  PROVE  Careful(n, CheckedRecvEnd(conf, n, s, t))
<1>1. PICK P \in Nat \ {0} : P = conf.P /\ n \in 0 .. P - 1 /\ t.sender \in 0 .. P - 1
  BY CollectiveType DEF Node, Task
<1>2. PICK a \in 1 .. P - 1, b \in 1 .. P - 1 :
        a = (conf.P + n - t.sender) % conf.P /\ b = (conf.P + t.sender - n) % conf.P
  BY <1>1, DistancePositive
<1>3. s.left \in RingState /\ s.right \in RingState
  BY DEF State
<1>4. PICK left, right : left = Heard(s.left, a) /\ right = Heard(s.right, b)
  OBVIOUS
<1>5. /\ left \in RingState /\ left.offset = s.left.offset /\ left.minRecv > 0 /\ left.minRecv <= s.left.minRecv
      /\ right \in RingState /\ right.offset = s.right.offset /\ right.minRecv > 0 /\ right.minRecv <= s.right.minRecv
  <2>1. s.left.minRecv > 0 /\ s.right.minRecv > 0
    BY DEF RingsFine
  <2> QED BY <1>1, <1>2, <1>3, <1>4, <2>1 DEF Heard, RingState
<1>6. PICK heard : heard = CASE t.tag = "RING_RIGHT" -> [s EXCEPT !.left = left]
                             [] t.tag = "RING_LEFT" -> [s EXCEPT !.right = right]
                             [] OTHER -> s
  OBVIOUS
<1>7. /\ heard \in State /\ heard.nowLeft = s.nowLeft
      /\ heard.left \in {s.left, left} /\ heard.right \in {s.right, right}
  BY <1>5, <1>6 DEF State
<1>8. RingsFine(heard)
  <2>1. Active(heard.left) => Active(s.left)
    BY <1>3, <1>5, <1>7 DEF Active, RingState
  <2>2. Active(heard.right) => Active(s.right)
    BY <1>3, <1>5, <1>7 DEF Active, RingState
  <2>3. heard.left.offset = s.left.offset /\ heard.right.offset = s.right.offset
        /\ heard.left.minRecv > 0 /\ heard.right.minRecv > 0
    BY <1>5, <1>7 DEF RingsFine
  <2> QED BY <1>7, <2>1, <2>2, <2>3 DEF RingsFine
<1>9. PICK r : r = [heard EXCEPT !.reached = TRUE]
  OBVIOUS
<1>10. r.left = heard.left /\ r.right = heard.right /\ r.nowLeft = heard.nowLeft
  BY <1>7, <1>9 DEF State
<1>11. CheckedRecvEnd(conf, n, s, t) = Outcome(IF s.reached THEN "ONGOING" ELSE "DONE_PHASE", <<>>, r)
  BY <1>2, <1>4, <1>6, <1>9 DEF CheckedRecvEnd
<1>12. RingsFine(r) /\ ToOthers(n, <<>>)
  BY <1>8, <1>10, FewOthers DEF RingsFine
<1> QED BY <1>11, <1>12 DEF Careful, Outcome

LEMMA CorrectionInitCareful ==
  ASSUME TypeOK, NEW n \in Node, NEW s \in State, FineBefore(s)
  PROVE  /\ Careful(n, CorrectionInit(n, s))
         /\ \A r : r = s \/ r = [s EXCEPT !.reached = TRUE] =>
              Careful(n, Outcome("ONGOING", <<IdleRequest(n)>>, r))
         /\ Careful(n, Ongoing(s))
<1>1. PICK wish : wish = IdleRequest(n) /\ wish.type # "SendStart"
  BY QuietRequests
<1>2. ToOthers(n, <<wish>>) /\ ToOthers(n, <<>>)
  BY <1>1, FewOthers
<1>3. ASSUME NEW out, out.reqs \in {<<wish>>, <<>>}, out.s = s \/ out.s = [s EXCEPT !.reached = TRUE]
      PROVE  Careful(n, out)
  BY <1>2, <1>3, ReachedRings, SameCareful
<1>4. Careful(n, CorrectionInit(n, s))
  BY <1>1, <1>3 DEF CorrectionInit, Outcome
<1>5. ASSUME NEW r, r = s \/ r = [s EXCEPT !.reached = TRUE]
      PROVE  Careful(n, Outcome("ONGOING", <<IdleRequest(n)>>, r))
  <2>1. PICK out : out = Outcome("ONGOING", <<wish>>, r)
    OBVIOUS
  <2>2. out.reqs = <<wish>> /\ out.s = r
    BY <2>1 DEF Outcome
  <2>3. out.reqs \in {<<wish>>, <<>>} /\ (out.s = s \/ out.s = [s EXCEPT !.reached = TRUE])
    BY <1>5, <2>2
  <2>4. Careful(n, out)
    BY <1>3, <2>3
  <2> QED BY <1>1, <2>1, <2>4
<1>6. Careful(n, Ongoing(s))
  BY <1>3 DEF Ongoing, Outcome
<1> QED BY <1>4, <1>5, <1>6

LEMMA CheckedCareful ==
  ASSUME TypeOK, conf.P > 1, Options.kind = "Checked", NEW n \in Node, NEW s \in State, FineBefore(s),
         NEW t \in Task, t.type = "RecvEnd" => t.sender # n, NEW at \in Nat
  PROVE  Careful(n, CheckedDispatch(conf, Options, n, s, t, at))
<1>1. RingsFine(s)
  BY DEF FineBefore
<1> QED BY <1>1, PostMessageCareful, CheckedRecvEndCareful, CorrectionInitCareful DEF CheckedDispatch

-----------------------------------------------------------------------------
(* Opportunistic correction. *)

LEMMA CoverOrWaitCareful ==
  ASSUME TypeOK, Options.kind = "Opportunistic", NEW n \in Node, NEW x, NEW reqs,
         reqs \in {<<>>, <<x>>}, x.type = "SendStart" => x.receiver # n \/ reqs = <<>>,
         NEW r, RingsFine(r), SentBounded(r)
  PROVE  Careful(n, CoverOrWait(conf, n, reqs, r))
<1>1. PICK wish : wish = IdleRequest(n) /\ wish.type # "SendStart"
  BY QuietRequests
<1>2. PICK more : more = Append(reqs, wish)
  OBVIOUS
<1>3. RangeOf(reqs) \subseteq {x} /\ RangeOf(more) = RangeOf(reqs) \cup {wish}
  <2>1. reqs \in Seq({x})
    BY Few
  <2> QED BY <1>2, <2>1, FewRange, AppendRange
<1>4. ToOthers(n, reqs) /\ ToOthers(n, more)
  BY <1>1, <1>3, FewRange DEF ToOthers
<1>5. CoverOrWait(conf, n, reqs, r) = IF Covered(conf, r) THEN Outcome("DONE_PHASE", reqs, r)
                                      ELSE Outcome("ONGOING", more, r)
  BY <1>1, <1>2 DEF CoverOrWait
<1> QED BY <1>4, <1>5 DEF Careful, Outcome, StillOpen

(* What is sent next: the direction that is behind is not yet covered. *)
LEMMA NextIsNear ==
  ASSUME TypeOK, conf.P > 1, NEW s \in State, SentBounded(s), StillOpen(s)
  PROVE  /\ s.sentLeft < s.sentRight => s.sentLeft + 1 <= Farthest
         /\ ~ (s.sentLeft < s.sentRight) => s.sentRight + 1 <= Farthest
<1>1. s.sentLeft \in Nat /\ s.sentRight \in Nat /\ conf.d \in Nat
  BY CollectiveType DEF State
<1>2. Farthest \in Nat /\ Farthest >= conf.d /\ Farthest >= 1
  BY <1>1 DEF Farthest, LaterOf
<1>3. PICK ld \in Nat, rd \in Nat : /\ ld = LeftDist(conf) /\ rd = RightDist(conf)
                                    /\ ld + rd = conf.d
  BY Distances
<1> QED BY <1>1, <1>2, <1>3 DEF SentBounded, StillOpen, Covered

LEMMA OpportunisticIdleCareful ==
  ASSUME TypeOK, conf.P > 1, conf.d < conf.P, Options.kind = "Opportunistic",
         NEW n \in Node, NEW s \in State, FineBefore(s), NEW at \in Nat
  PROVE  Careful(n, OpportunisticIdle(conf, Options, n, s, at))
<1>1. RingsFine(s) /\ SentBounded(s) /\ StillOpen(s)
  BY DEF FineBefore, SentFine
<1>2. PICK goLeft \in BOOLEAN : goLeft <=> s.sentLeft < s.sentRight
  OBVIOUS
<1>3. PICK k \in Nat : k = IF goLeft THEN s.sentLeft + 1 ELSE s.sentRight + 1
  BY DEF State
<1>4. PICK P \in Nat \ {0} : P = conf.P /\ n \in 0 .. P - 1
  BY CollectiveType DEF Node
<1>5. k \in 1 .. P - 1 /\ k <= Farthest
  <2>1. k <= Farthest /\ k >= 1
    BY <1>1, <1>2, <1>3, NextIsNear DEF State
  <2>2. Farthest < P
    BY <1>4, CollectiveType DEF Farthest, LaterOf
  <2>3. Farthest \in Nat
    BY CollectiveType DEF Farthest, LaterOf
  <2> QED BY <2>1, <2>2, <2>3
<1>6. PICK next \in State : next = IF goLeft THEN [s EXCEPT !.sentLeft = k] ELSE [s EXCEPT !.sentRight = k]
  BY <1>3 DEF State
<1>7. /\ next.left = s.left /\ next.right = s.right /\ next.nowLeft = s.nowLeft
      /\ next.sentLeft = (IF goLeft THEN k ELSE s.sentLeft)
      /\ next.sentRight = (IF goLeft THEN s.sentRight ELSE k)
  BY <1>6 DEF State
<1>8. RingsFine(next) /\ SentBounded(next)
  BY <1>1, <1>5, <1>7 DEF RingsFine, SentBounded
<1>9. PICK direct \in Int : direct = IF goLeft THEN n - k ELSE n + k
  <2>1. n \in Int
    BY <1>4
  <2>2. n - k \in Int /\ n + k \in Int
    BY <2>1
  <2> QED BY <2>2
<1>10. PICK m \in Int : m = (IF Options.overRoot THEN (direct + conf.P) % conf.P ELSE direct) /\ m # n
  <2>1. direct # n
    BY <1>4, <1>5, <1>9
  <2>2. (direct + P) % P \in Int
    BY <1>4, <1>9
  <2>3. (direct + P) % P # n
    <3>1. PICK j \in Int : j = direct - n
      BY <1>4, <1>9
    <3>2. j # 0 /\ j < P /\ j > - P /\ direct = n + j
      BY <1>4, <1>5, <1>9, <3>1
    <3>3. (n + j + P) % P # n
      BY <1>4, <3>2, Apart
    <3> QED BY <3>2, <3>3
  <2> QED BY <1>4, <2>1, <2>2, <2>3
<1>11. PICK x : x = SendRequest(IF goLeft THEN "RING_LEFT" ELSE "RING_RIGHT", at, n, m) /\ x.receiver # n
  BY <1>10, QuietRequests
<1>12. PICK send : send = IF m \in 0 .. conf.P - 1 THEN <<x>> ELSE <<>>
  OBVIOUS
<1>13. Careful(n, CoverOrWait(conf, n, send, next))
  BY <1>8, <1>11, <1>12, CoverOrWaitCareful
<1>14. OpportunisticIdle(conf, Options, n, s, at)
         = IF s.reached THEN CoverOrWait(conf, n, send, next) ELSE Ongoing(s)
  <2>1. next = IF s.sentLeft < s.sentRight THEN [s EXCEPT !.sentLeft = @ + 1]
               ELSE [s EXCEPT !.sentRight = @ + 1]
    BY <1>2, <1>3, <1>6
  <2>2. direct = IF s.sentLeft < s.sentRight THEN n - next.sentLeft ELSE n + next.sentRight
    BY <1>2, <1>7, <1>9
  <2>3. x = SendRequest(IF s.sentLeft < s.sentRight THEN "RING_LEFT" ELSE "RING_RIGHT", at, n, m)
    BY <1>2, <1>11
  <2> QED BY <1>10, <1>12, <2>1, <2>2, <2>3 DEF OpportunisticIdle
<1> QED BY <1>13, <1>14, CorrectionInitCareful

LEMMA TrimmedBounded ==
  ASSUME TypeOK, NEW n \in Node, NEW s \in State, RingsFine(s), SentBounded(s), NEW t \in Task
  PROVE  RingsFine(Trimmed(conf, n, s, t)) /\ SentBounded(Trimmed(conf, n, s, t))
<1>1. conf.P \in Nat \ {0} /\ n \in Int /\ t.sender \in Int
  BY CollectiveType DEF Task, Node
<1>2. PICK ld \in Nat, rd \in Nat : /\ ld = LeftDist(conf) /\ rd = RightDist(conf)
                                    /\ ld + rd = conf.d
  BY Distances
<1>3. PICK a \in Int, b \in Int : /\ a = ld - ((n - t.sender + conf.P) % conf.P) /\ a <= ld
                                  /\ b = rd - ((t.sender - n + conf.P) % conf.P) /\ b <= rd
  <2>1. (n - t.sender + conf.P) % conf.P \in Nat /\ (t.sender - n + conf.P) % conf.P \in Nat
    BY <1>1
  <2> QED BY <2>1
<1>4. Farthest \in Nat /\ ld <= Farthest /\ rd <= Farthest
  BY <1>2, CollectiveType DEF Farthest, LaterOf
<1>5. PICK r \in State : r = [s EXCEPT !.reached = TRUE]
  BY DEF State
<1>6. /\ r.left = s.left /\ r.right = s.right /\ r.nowLeft = s.nowLeft
      /\ r.sentLeft = s.sentLeft /\ r.sentRight = s.sentRight
  BY <1>5 DEF State
<1>7. PICK right \in Nat, left \in Nat : /\ right = AtLeast(r.sentRight, a) /\ right <= Farthest
                                         /\ left = AtLeast(r.sentLeft, b) /\ left <= Farthest
  <2>1. r.sentRight \in Nat /\ r.sentLeft \in Nat /\ r.sentRight <= Farthest /\ r.sentLeft <= Farthest
    BY <1>6 DEF State, SentBounded
  <2> QED BY <1>3, <1>4, <2>1 DEF AtLeast
<1>8. CASE t.tag = "RING_RIGHT"
  <2>1. PICK z : z = [r EXCEPT !.sentRight = right, !.sentLeft = ld]
    OBVIOUS
  <2>2. Trimmed(conf, n, s, t) = z
    BY <1>2, <1>3, <1>5, <1>7, <1>8, <2>1 DEF Trimmed
  <2>3. z.left = r.left /\ z.right = r.right /\ z.nowLeft = r.nowLeft
        /\ z.sentLeft = ld /\ z.sentRight = right
    BY <2>1 DEF State
  <2> QED BY <1>4, <1>6, <1>7, <2>2, <2>3 DEF RingsFine, SentBounded
<1>9. CASE t.tag = "RING_LEFT"
  <2>1. PICK z : z = [r EXCEPT !.sentLeft = left, !.sentRight = rd]
    OBVIOUS
  <2>2. Trimmed(conf, n, s, t) = z
    BY <1>2, <1>3, <1>5, <1>7, <1>9, <2>1 DEF Trimmed
  <2>3. z.left = r.left /\ z.right = r.right /\ z.nowLeft = r.nowLeft
        /\ z.sentLeft = left /\ z.sentRight = rd
    BY <2>1 DEF State
  <2> QED BY <1>4, <1>6, <1>7, <2>2, <2>3 DEF RingsFine, SentBounded
<1>10. CASE t.tag \notin {"RING_RIGHT", "RING_LEFT"}
  <2>1. Trimmed(conf, n, s, t) = r
    BY <1>5, <1>10 DEF Trimmed
  <2> QED BY <1>6, <2>1 DEF RingsFine, SentBounded
<1> QED BY <1>8, <1>9, <1>10

LEMMA OpportunisticCareful ==
  ASSUME TypeOK, conf.P > 1, conf.d < conf.P, Options.kind = "Opportunistic",
         NEW n \in Node, NEW s \in State, FineBefore(s), NEW t \in Task, NEW at \in Nat
  PROVE  Careful(n, OpportunisticDispatch(conf, Options, n, s, t, at))
<1>1. CASE t.type = "RecvEnd"
  <2>1. PICK r : r = [s EXCEPT !.reached = TRUE]
    OBVIOUS
  <2>2. PICK z : z = Trimmed(conf, n, s, t) /\ RingsFine(z) /\ SentBounded(z)
    BY TrimmedBounded DEF FineBefore, SentFine
  <2>3. OpportunisticDispatch(conf, Options, n, s, t, at)
          = IF Options.optimised THEN CoverOrWait(conf, n, <<>>, z)
            ELSE Outcome("ONGOING", <<IdleRequest(n)>>, r)
    BY <1>1, <2>1, <2>2 DEF OpportunisticDispatch, OpportunisticRecvEnd, Trimmed
  <2>4. Careful(n, CoverOrWait(conf, n, <<>>, z))
    <3>1. PICK x, reqs : x = IdleRequest(n) /\ reqs = <<>>
      OBVIOUS
    <3> QED BY <2>2, <3>1, CoverOrWaitCareful
  <2> QED BY <2>1, <2>3, <2>4, CorrectionInitCareful
<1>2. CASE t.type # "RecvEnd"
  BY <1>2, CorrectionInitCareful, OpportunisticIdleCareful DEF OpportunisticDispatch
<1> QED BY <1>1, <1>2

-----------------------------------------------------------------------------
(* Whatever phase a node is in. *)

LEMMA PlainCareful ==
  ASSUME TypeOK, conf.P > 1, NEW i \in 1 .. Last, NEW ph, ph = conf.phases[i],
         NEW n \in Node, NEW s \in State, FineBefore(s), NEW t \in Task, NEW at \in Nat, NEW draw \in Node,
         start \in Nat, t.type = "RecvEnd" => t.sender # n,
         t.type = "Idle" /\ ph.kind = "Gossip" => draw # n,
         ph.kind = "MultiTree" /\ t.type = "Init" /\ s.reached => n = 0 /\ TreesFit(conf)
  PROVE  /\ Careful(n, PlainDispatch(ph, n, s, t, at, draw))
         /\ i # Last => Untouched(PlainDispatch(ph, n, s, t, at, draw))
<1>0. ph.kind \in {"Checked", "Opportunistic", "Gather", "MultiTree"} => i = Last
  BY PhaseOrder
<1>1. ph.kind \in Kinds
  BY PhasesType
<1>2. PICK begin \in Nat : begin = StartTime(at)
  BY DEF StartTime
<1>3. ph.kind \in {"Checked", "Opportunistic"} => ph = Options
  BY PhaseOrder DEF Options
<1>4. ph.kind = "Opportunistic" => conf.d < conf.P
  BY PhaseOrder
<1>5. CASE ph.kind \in {"DepInit", "ReductionDepInit"}
  BY <1>5, DepInitCareful DEF PlainDispatch
<1>6. CASE ph.kind = "Tree"
  BY <1>6, TreeCareful DEF PlainDispatch
<1>7. CASE ph.kind = "Checked"
  <2>1. Options.kind = "Checked" /\ ph = Options
    BY <1>3, <1>7
  <2>2. Careful(n, CheckedDispatch(conf, Options, n, s, t, at))
    BY <2>1, CheckedCareful
  <2> QED BY <1>0, <1>7, <2>1, <2>2 DEF PlainDispatch
<1>8. CASE ph.kind = "Opportunistic"
  <2>1. Options.kind = "Opportunistic" /\ ph = Options
    BY <1>3, <1>8
  <2>2. Careful(n, OpportunisticDispatch(conf, Options, n, s, t, at))
    BY <1>4, <1>8, <2>1, OpportunisticCareful
  <2> QED BY <1>0, <1>8, <2>1, <2>2 DEF PlainDispatch
<1>9. CASE ph.kind = "Gossip"
  BY <1>2, <1>9, GossipCareful DEF PlainDispatch
<1>10. CASE ph.kind = "Gather"
  BY <1>0, <1>10, GatherCareful DEF PlainDispatch
<1>11. CASE ph.kind = "MultiTree"
  BY <1>0, <1>11, MultiTreeCareful DEF PlainDispatch
<1> QED BY <1>1, <1>5, <1>6, <1>7, <1>8, <1>9, <1>10, <1>11 DEF Kinds, Stage

(* An exclusive phase only adds a timer, and holds back who is done. *)
LEMMA ExclusiveCareful ==
  ASSUME TypeOK, conf.P > 1, NEW i \in 1 .. Last, NEW ph, ph = conf.phases[i], ph.kind = "Tree",
         NEW n \in Node, NEW s \in State, FineBefore(s), NEW t \in Task, NEW at \in Nat, NEW draw \in Node,
         start \in Nat, t.type = "RecvEnd" => t.sender # n
  PROVE  Careful(n, ExclusiveDispatch(ph, n, s, t, at, draw)) /\ Untouched(ExclusiveDispatch(ph, n, s, t, at, draw))
<1>1. PICK plain : /\ plain = PlainDispatch(ph, n, s, t, at, draw)
                   /\ plain = TreeDispatch(conf, ph, n, s, t, at)
                   /\ Proper(n, s, t, at, plain)
  BY TreePosts DEF PlainDispatch
<1>2. PICK inner : inner = Held(plain)
  OBVIOUS
<1>3. /\ inner.s = plain.s /\ inner.reqs = plain.reqs
      /\ plain.reqs \in Seq(Posts(n, at))
  BY <1>1, <1>2, TreePosts DEF Held, Proper
<1>4. SameRings(s, s) /\ SameRings(s, plain.s)
  <2>1. plain.s = s \/ plain.s = [s EXCEPT !.reached = TRUE]
    BY <1>1 DEF TreeDispatch, TreeInit, TreeRecvEnd, Outcome, Ongoing
  <2> QED BY <2>1, ReachedRings
<1>5. PICK timer : timer = TimerRequest("EXCLUSIVE", AbsDeadline(at), n) /\ timer.type # "SendStart"
  BY QuietRequests
<1>6. PICK more : more = <<timer>> \o inner.reqs
  OBVIOUS
<1>7. ToOthers(n, <<>>) /\ ToOthers(n, inner.reqs) /\ ToOthers(n, more)
  <2>1. PICK S : S = Posts(n, at) \cup {timer}
    OBVIOUS
  <2>2. <<timer>> \in Seq(S) /\ inner.reqs \in Seq(S)
    <3>1. timer \in S /\ Posts(n, at) \subseteq S
      BY <2>1
    <3> HIDE DEF Posts
    <3> QED BY <1>3, <3>1, Few
  <2>3. RangeOf(more) = RangeOf(<<timer>>) \cup RangeOf(inner.reqs)
    <3>1. PICK a \in Seq(S), b \in Seq(S) : a = <<timer>> /\ b = inner.reqs
      BY <2>2
    <3>2. RangeOf(a \o b) = RangeOf(a) \cup RangeOf(b)
      BY ConcatRange
    <3> QED BY <1>6, <3>1, <3>2
  <2>4. ToOthers(n, <<>>) /\ ToOthers(n, inner.reqs)
    BY <1>3, FewOthers
  <2> QED BY <1>5, <2>3, <2>4, FewRange DEF ToOthers
<1>8. PICK out : out = ExclusiveDispatch(ph, n, s, t, at, draw)
  OBVIOUS
<1>9. /\ out.s = s \/ out.s = plain.s
      /\ out.reqs \in {<<>>, inner.reqs, more}
  <2>1. \/ out = Outcome("DONE_PHASE", <<>>, s)
        \/ out = [inner EXCEPT !.reqs = <<timer>> \o @]
        \/ out = inner
        \/ out = Ongoing(s)
    BY <1>1, <1>2, <1>5, <1>8 DEF ExclusiveDispatch
  <2>2. PICK e : e = [inner EXCEPT !.reqs = <<timer>> \o @]
    OBVIOUS
  <2>3. e.s = inner.s /\ e.reqs = more
    BY <1>1, <1>2, <1>6, <2>2 DEF Held, Proper
  <2>4. /\ Outcome("DONE_PHASE", <<>>, s).s = s /\ Outcome("DONE_PHASE", <<>>, s).reqs = <<>>
        /\ Ongoing(s).s = s /\ Ongoing(s).reqs = <<>>
    BY DEF Outcome, Ongoing
  <2>5. out = Outcome("DONE_PHASE", <<>>, s) \/ out = e \/ out = inner \/ out = Ongoing(s)
    BY <2>1, <2>2
  <2> QED BY <1>3, <2>3, <2>4, <2>5
<1>10. SameRings(s, out.s) /\ ToOthers(n, out.reqs)
  BY <1>4, <1>7, <1>9
<1> QED BY <1>8, <1>10, SameCareful

LEMMA PhaseCareful ==
  ASSUME TypeOK, conf.P > 1, LocalOK, NEW n \in Node, local[n].cur \in 1 .. Last, FineBefore(local[n]),
         NEW t \in Task, NEW at \in Nat, NEW draw \in Draws(n, t),
         t.type = "RecvEnd" => t.sender # n, RootBegins(n, t)
  PROVE  LET inner == PhaseDispatch(conf.phases[local[n].cur], n, local[n], t, at, draw)
         IN Careful(n, inner) /\ (local[n].cur # Last => Untouched(inner))
<1>1. PICK i \in 1 .. Last : i = local[n].cur
  OBVIOUS
<1>2. PICK ph : ph = conf.phases[i]
  OBVIOUS
<1>3. local[n] \in State /\ start \in Nat /\ draw \in Node
  BY DEF LocalOK, Draws
<1>4. i <= Last
  BY PhasesType
<1>5. t.type = "Idle" /\ ph.kind = "Gossip" => draw # n
  BY <1>1, <1>2, <1>4 DEF Draws, InPhase
<1>6. ph.kind = "MultiTree" /\ t.type = "Init" /\ local[n].reached => n = 0 /\ TreesFit(conf)
  BY <1>1, <1>2, <1>4 DEF RootBegins, InPhase
<1>7. ph.exclusive \in BOOLEAN /\ (ph.exclusive => ph.kind = "Tree")
  BY <1>2, PhasesType
<1>8. CASE ph.exclusive
  <2>1. /\ Careful(n, ExclusiveDispatch(ph, n, local[n], t, at, draw))
        /\ Untouched(ExclusiveDispatch(ph, n, local[n], t, at, draw))
    BY <1>2, <1>3, <1>7, <1>8, ExclusiveCareful
  <2> QED BY <1>1, <1>2, <1>8, <2>1 DEF PhaseDispatch
<1>9. CASE ~ ph.exclusive
  <2>1. /\ Careful(n, PlainDispatch(ph, n, local[n], t, at, draw))
        /\ i # Last => Untouched(PlainDispatch(ph, n, local[n], t, at, draw))
    BY <1>2, <1>3, <1>5, <1>6, PlainCareful
  <2> QED BY <1>1, <1>2, <1>9, <2>1 DEF PhaseDispatch
<1> QED BY <1>7, <1>8, <1>9

-----------------------------------------------------------------------------
(* The steps of a collective. *)

(* The node that was notified, and what is asked for then. *)
LEMMA AnswerCareful ==
  ASSUME TypeOK, LocalOK, RingInv, conf.P > 1, NEW n \in Node, NEW t \in Task, NEW at \in Nat,
         NEW draw \in Draws(n, t), RootBegins(n, t), t.type = "RecvEnd" => t.sender # n,
         NEW out, out = CombinerDispatch(n, t, at, draw)
  PROVE  /\ RingsFine(out.s) /\ (Options.kind = "Opportunistic" => SentFine(out.s))
         /\ \A r \in RangeOf(Accept(n, out)) : r.type = "SendStart" => r.sender # r.receiver
<1>1. local[n] \in State /\ local[n].cur \in 1 .. Last + 1 /\ Last \in Nat \ {0} /\ draw \in Node
  BY PhasesType DEF LocalOK, Draws
<1>2. RingsFine(local[n]) /\ (Options.kind = "Opportunistic" => SentFine(local[n]))
  BY DEF RingInv
<1>3. FinishRequest(n).type # "SendStart" /\ InitRequest(at, n).type # "SendStart"
  BY QuietRequests
<1>4. CASE out = Nothing(n, "ONGOING") \/ (out = Colour(t, Nothing(n, "DONE_PHASE")) /\ local[n].cur > Last)
  <2>1. RangeOf(Accept(n, out)) \subseteq {FinishRequest(n)}
    BY <1>4, Asked
  <2>2. out.s = local[n] \/ out.s = [local[n] EXCEPT !.reached = TRUE]
    <3>1. PICK r : r = [local[n] EXCEPT !.reached = TRUE]
      OBVIOUS
    <3>2. PICK res, nothing : nothing = Nothing(n, res) /\ (out = nothing \/ out = Colour(t, nothing))
      BY <1>4
    <3>3. nothing.s = local[n] /\ DOMAIN nothing = {"res", "reqs", "s", "again"}
      BY <3>2 DEF Nothing
    <3>4. Colour(t, nothing) = nothing \/ Colour(t, nothing) = [nothing EXCEPT !.s = r]
      BY <3>1, <3>3 DEF Colour
    <3> QED BY <3>1, <3>2, <3>3, <3>4
  <2>3. SameRings(local[n], out.s) /\ out.s.cur = local[n].cur
    BY <1>1, <2>2, ReachedRings DEF State
  <2> QED BY <1>2, <1>3, <2>1, <2>3 DEF RingsFine, SentFine, SentBounded, StillOpen, Covered, SameRings
<1>5. ASSUME NEW inner, local[n].cur \in 1 .. Last,
             inner = PhaseDispatch(conf.phases[local[n].cur], n, local[n], t, at, draw),
             Proper(n, local[n], t, at, inner), out = Colour(t, Switch(n, t, at, inner))
      PROVE  /\ RingsFine(out.s) /\ (Options.kind = "Opportunistic" => SentFine(out.s))
             /\ \A r \in RangeOf(Accept(n, out)) : r.type = "SendStart" => r.sender # r.receiver
  <2>1. FineBefore(local[n]) /\ inner.s \in State /\ local[n].cur <= Last
    BY <1>1, <1>2, <1>5 DEF FineBefore, Proper
  <2>2. Careful(n, inner) /\ (local[n].cur # Last => Untouched(inner))
    BY <1>5, <2>1, PhaseCareful
  <2>3. /\ out.s.cur = NextPhase(local[n].cur, inner.res)
        /\ out.s.left = inner.s.left /\ out.s.right = inner.s.right /\ out.s.nowLeft = inner.s.nowLeft
        /\ out.s.sentLeft = inner.s.sentLeft /\ out.s.sentRight = inner.s.sentRight
    <3>1. inner.s \in State /\ out = Colour(t, Switch(n, t, at, inner))
      BY <1>5, <2>1
    <3> QED BY <3>1, SwitchState, SMTT(40)
  <2>4. RingsFine(out.s)
    BY <2>2, <2>3 DEF Careful, RingsFine
  <2>5. Options.kind = "Opportunistic" => SentFine(out.s)
    <3>1. CASE inner.res = "ONGOING"
      BY <2>2, <2>3, <3>1 DEF Careful, SentFine, SentBounded, StillOpen, Covered
    <3>2. CASE inner.res # "ONGOING" /\ local[n].cur = Last
      <4>1. ~ (out.s.cur <= Last)
        BY <1>1, <2>3, <3>2 DEF NextPhase
      <4> QED BY <2>2, <2>3, <4>1 DEF Careful, SentFine, SentBounded
    <3>3. CASE local[n].cur # Last
      <4>1. Options.kind = "Opportunistic" => StillOpen(inner.s) /\ SentBounded(inner.s)
        BY <2>2, <3>3 DEF Careful, Untouched
      <4> QED BY <2>3, <4>1 DEF SentFine, SentBounded, StillOpen, Covered
    <3> QED BY <3>1, <3>2, <3>3
  <2>6. RangeOf(Accept(n, out)) \subseteq RangeOf(inner.reqs) \cup {InitRequest(at, n), FinishRequest(n)}
    BY <1>5, <2>1, Asked
  <2>7. \A r \in RangeOf(inner.reqs) : r.sender = n
    <3>1. inner.reqs \in Seq(Demand(n, at))
      BY <1>5, RequestTypes DEF Proper
    <3>2. \A r \in RangeOf(inner.reqs) : r \in Demand(n, at)
      BY <3>1 DEF RangeOf
    <3> QED BY <3>2 DEF Demand
  <2>8. \A r \in RangeOf(inner.reqs) : r.type = "SendStart" => r.sender # r.receiver
    BY <2>2, <2>7 DEF Careful, ToOthers
  <2> QED BY <1>3, <2>4, <2>5, <2>6, <2>8
<1> QED BY <1>1, <1>4, <1>5, CombinerCases

LEMMA StepRing ==
  ASSUME TypeOK, LocalOK, StartUp, RingInv, conf.P > 1, [CNext]_vars
  PROVE  RingInv'
<1>1. conf' = conf /\ Last' = Last /\ Node' = Node /\ Options' = Options
  BY StepLocal DEF Last, Node, Options
<1>2. /\ \A s : RingsFine(s)' <=> RingsFine(s)
      /\ \A s : SentFine(s)' <=> SentFine(s)
  BY <1>1 DEF RingsFine, SentFine, SentBounded, StillOpen, Farthest
<1>3. CASE Rests
  <2>1. local' = local /\ queue' = queue
    BY <1>3 DEF Rests, cvars
  <2> QED BY <1>1, <1>2, <2>1 DEF RingInv
<1>4. ASSUME NEW t \in Upcoming, Passes(t), Heap(t, {}), UNCHANGED cvars
      PROVE  RingInv'
  <2>1. local' = local
    BY <1>4 DEF cvars
  <2>2. \A u \in queue' : u.type \in MessageTypes => u.sender # u.receiver
    BY <1>4, UpcomingType, MessageOrigin DEF RingInv, Succeeds
  <2> QED BY <1>1, <1>2, <2>1, <2>2 DEF RingInv
<1>5. ASSUME NEW t \in Upcoming, NEW draw \in Draws(NotifiedNode(t), t), NEW out,
             RootBegins(NotifiedNode(t), t), Answers(t, NotifiedNode(t), draw, out)
      PROVE  RingInv'
  <2>1. t \in Task /\ Clock(t) \in Nat /\ NotifiedNode(t) \in Node /\ t \in Ready
    BY UpcomingType
  <2>2. PICK n \in Node : n = NotifiedNode(t)
    BY <2>1
  <2>3. PICK at \in Nat : at = Clock(t)
    BY <2>1
  <2>4. PICK asked : asked = RangeOf(Accept(n, out))
    OBVIOUS
  <2>5. /\ out = CombinerDispatch(n, t, at, draw) /\ Combined(n, t, at, out)
        /\ Follow(n, t, out) /\ Heap(t, asked)
    BY <1>5, <2>2, <2>3, <2>4 DEF Answers
  <2>6. t.type = "RecvEnd" => t.sender # n
    <3>1. t.type = "RecvEnd" => t \in queue /\ t.type \in MessageTypes /\ n = t.receiver
      BY <2>1, <2>2 DEF Ready, IdleTask, MessageTypes, NotifiedNode
    <3> QED BY <3>1 DEF RingInv
  <2>7. /\ RingsFine(out.s) /\ (Options.kind = "Opportunistic" => SentFine(out.s))
        /\ \A r \in asked : r.type = "SendStart" => r.sender # r.receiver
    <3>1. draw \in Draws(n, t) /\ RootBegins(n, t)
      BY <1>5, <2>2
    <3> QED BY <2>1, <2>4, <2>5, <2>6, <3>1, AnswerCareful
  <2>8. \A r \in asked : r.type \in {"SendStart", "Timer", "Init", "Idle", "Finish"}
    BY <2>1, <2>4, <2>5, AskedTypes
  <2>9. ASSUME NEW u \in queue', u.type \in MessageTypes
        PROVE  u.sender # u.receiver
    <3>1. \/ u \in queue
          \/ t \in queue /\ t.type \in MessageTypes /\ Succeeds(t, u)
          \/ \E r \in asked : r.type = "SendStart" /\ SameTask(u, r)
      BY <2>1, <2>5, <2>8, <2>9, MessageOrigin
    <3> QED BY <2>7, <2>9, <3>1 DEF RingInv, Succeeds, SameTask
  <2>10. local' = [local EXCEPT ![n] = out.s] /\ local \in [Node -> State]
    BY <2>5 DEF Follow, LocalOK
  <2>11. \A m \in Node : RingsFine(local'[m]) /\ (Options.kind = "Opportunistic" => SentFine(local'[m]))
    BY <2>7, <2>10 DEF RingInv
  <2> QED BY <1>1, <1>2, <2>9, <2>11 DEF RingInv
<1> QED BY <1>3, <1>4, <1>5, StepCases

LEMMA InitRing ==
  ASSUME NEW first \in Nat, CStart(first)
  PROVE  RingInv
<1>1. TypeOK
  BY InitInvariant DEF CStart, IInv
<1>2. conf.P \in Nat /\ Farthest >= 0
  BY <1>1, CollectiveType DEF Farthest, LaterOf
<1>3. ASSUME NEW n \in Node
      PROVE  RingsFine(local[n]) /\ SentFine(local[n])
  <2>1. /\ local[n].left = Ring /\ local[n].right = Ring /\ local[n].nowLeft = FALSE
        /\ local[n].sentLeft = 0 /\ local[n].sentRight = 0
    BY DEF CStart, InitialState
  <2>2. Ring.offset = 0 /\ Ring.minRecv > 0
    BY DEF Ring, IntMax
  <2> QED BY <1>2, <2>1, <2>2 DEF RingsFine, SentFine, SentBounded, StillOpen
<1>4. \A t \in queue : t.type \notin MessageTypes
  BY DEF CStart, QStart, AllAdmitted, Admitted, MessageTypes
<1> QED BY <1>3, <1>4 DEF RingInv

Crossing == CInv /\ (conf.P > 1 => RingInv)

LEMMA CrossingInvariant == RepeatedSpec => []Crossing
<1>1. CStarted => Crossing
  BY StartCInv, InitRing DEF Crossing, CStarted
<1>2. Crossing /\ [CNext]_vars => Crossing'
  <2> SUFFICES ASSUME Crossing, [CNext]_vars PROVE Crossing'
    OBVIOUS
  <2>1. CInv'
    BY StepCInv DEF Crossing
  <2>2. TypeOK /\ LocalOK /\ StartUp
    BY DEF Crossing, CInv, IInv
  <2>3. conf' = conf
    BY <2>2, StepLocal
  <2>4. conf.P > 1 => RingInv'
    BY <2>2, StepRing DEF Crossing
  <2> QED BY <2>1, <2>3, <2>4 DEF Crossing
<1> QED BY <1>1, <1>2, PTL DEF RepeatedSpec

LEMMA RingsNeverCrossAgain == RepeatedSpec => [](conf.P > 1 => RingsMeet)
<1>1. Crossing => (conf.P > 1 => RingsMeet)
  BY DEF Crossing, RingInv, RingsFine, RingsMeet, MessageTypes
<1> QED BY <1>1, CrossingInvariant, PTL

(* No node ever sends to itself, and the two directions of its ring pass   *)
(* at most one node twice, for every tree, every failure pattern, every    *)
(* LogP parameter and every number of nodes but one.  A machine of one     *)
(* node is different: with over-root correction it does send to itself.    *)
THEOREM RingsNeverCross == CSpec => [](conf.P > 1 => RingsMeet)
BY OneCollective, RingsNeverCrossAgain, PTL

-----------------------------------------------------------------------------
(* The phases before the correction. *)

(* What a phase may make of the state of a node before the correction. *)
OnlyReached(s, r) == r = s \/ r = [s EXCEPT !.reached = TRUE]

LEMMA OnlyReachedKeeps ==
  ASSUME NEW s \in State, NEW r, OnlyReached(s, r)
  PROVE  r.left = s.left /\ r.right = s.right /\ (s.reached => r.reached)
BY DEF OnlyReached, State

LEMMA EarlyState ==
  ASSUME TypeOK, start \in Nat, NEW ph, ph.kind \in {"DepInit", "ReductionDepInit", "Tree", "Gossip"},
         ph.exclusive \in BOOLEAN, ph.exclusive => ph.kind = "Tree", NEW n \in Node, NEW s \in State,
         NEW t \in Task, NEW at \in Nat, NEW draw \in Node, NEW inner,
         inner = PhaseDispatch(ph, n, s, t, at, draw)
  PROVE  OnlyReached(s, inner.s)
<1>1. PICK plain : plain = PlainDispatch(ph, n, s, t, at, draw)
  OBVIOUS
<1>2. OnlyReached(s, plain.s) /\ DOMAIN plain = {"res", "reqs", "s"}
  <2>1. CASE ph.kind \in {"DepInit", "ReductionDepInit"}
    <3>1. plain = DepInitDispatch(s, t)
      BY <1>1, <2>1 DEF PlainDispatch
    <3> QED BY <3>1 DEF DepInitDispatch, Ongoing, Outcome, OnlyReached
  <2>2. CASE ph.kind = "Tree"
    <3>1. plain = TreeDispatch(conf, ph, n, s, t, at)
      BY <1>1, <2>2 DEF PlainDispatch
    <3> QED BY <3>1 DEF TreeDispatch, TreeInit, TreeRecvEnd, Ongoing, Outcome, OnlyReached
  <2>3. CASE ph.kind = "Gossip"
    <3>1. PICK begin : plain = GossipDispatch(conf, n, s, t, at, begin, draw)
      BY <1>1, <2>3 DEF PlainDispatch
    <3> QED BY <3>1 DEF GossipDispatch, GossipInit, GossipIdle, GossipTimer, GossipRecvEnd, Ongoing,
                        Outcome, OnlyReached
  <2> QED BY <2>1, <2>2, <2>3
<1>3. CASE ~ ph.exclusive
  BY <1>1, <1>2, <1>3 DEF PhaseDispatch
<1>4. CASE ph.exclusive
  <2>1. inner = ExclusiveDispatch(ph, n, s, t, at, draw)
    BY <1>4 DEF PhaseDispatch
  <2>2. PICK held : held = Held(plain) /\ held.s = plain.s /\ DOMAIN held = {"res", "reqs", "s"}
    <3>1. PICK held : held = Held(plain)
      OBVIOUS
    <3> QED BY <1>2, <3>1 DEF Held
  <2>3. inner.s = s \/ inner.s = held.s
    BY <1>1, <2>1, <2>2 DEF ExclusiveDispatch, Outcome, Ongoing
  <2> QED BY <1>2, <2>2, <2>3 DEF OnlyReached
<1> QED BY <1>3, <1>4

(* Nobody but the last phase sends corrections.  Time, an InitTask or a    *)
(* message moves a node on, and only a message from another phase, or      *)
(* gossip that did not reach it, makes it leave.                           *)
Early(cur, ph, s, t, at, out) ==
  /\ \A r \in RangeOf(out.reqs) : EarlyAsks(ph, t, at, r)
  /\ OnlyReached(s, out.s)
  /\ Timed(ph) => cur + 1 = Last
  /\ out.res \in {"DONE_PHASE", "DONE_FORWARD"} => t.type \in {"Init", "RecvEnd"} \/ Timed(ph)
  /\ out.res = "DONE_COLL" =>
       \/ t.type = "RecvEnd" /\ (ph.kind = "Gossip" => t.tag # "GOSSIP")
       \/ ~ s.reached

LEMMA BeforeChecked ==
  ASSUME TypeOK, start \in Nat, Options.kind = "Checked", NEW cur \in 1 .. Last, cur # Last,
         NEW ph, ph = conf.phases[cur], NEW n \in Node, NEW s \in State, NEW t \in Task, NEW at \in Nat,
         NEW draw \in Node, NEW inner, inner = PhaseDispatch(ph, n, s, t, at, draw)
  PROVE  Early(cur, ph, s, t, at, inner)
<1>1. /\ Last \in Nat /\ cur \in Nat /\ cur + 1 \in 1 .. Last
      /\ ph.kind \in Kinds /\ ph.exclusive \in BOOLEAN
      /\ ph.exclusive => ph.kind = "Tree" /\ ~ ph.forward
  BY PhasesType
<1>2. ph.kind \in {"DepInit", "ReductionDepInit", "Tree", "Gossip"}
  <2>1. \A kind \in Kinds : kind \in {"DepInit", "ReductionDepInit", "Tree", "Gossip", "Checked",
                                      "Opportunistic", "Gather", "MultiTree"}
    BY DEF Kinds, Stage
  <2> QED BY <1>1, <2>1, PhaseOrder
<1>3. Timed(ph) => cur + 1 = Last
  <2>1. PICK next : next = conf.phases[cur + 1]
    OBVIOUS
  <2>2. next.kind \in Kinds /\ Stage[ph.kind] < Stage[next.kind]
    <3>1. next.kind \in Kinds
      BY <1>1, <2>1, PhasesType
    <3>2. cur \in 1 .. (cur + 1) - 1
      BY <1>1
    <3> QED BY <1>1, <2>1, <3>1, <3>2, PhaseOrder
  <2>3. ph.exclusive => next.kind # "Gossip"
    BY <1>1, <2>1, PhaseOrder
  <2>4. ASSUME Timed(ph)
        PROVE  next.kind \in {"Checked", "Opportunistic", "Gather", "MultiTree"}
    <3>1. /\ Stage[ph.kind] >= 2 /\ (ph.kind = "Gossip" => Stage[ph.kind] = 3)
          /\ \A kind \in Kinds : /\ Stage[kind] \in Nat
                                 /\ Stage[kind] > 2 => kind \in {"Gossip", "Checked", "Opportunistic",
                                                                 "Gather", "MultiTree"}
                                 /\ Stage[kind] > 3 => kind # "Gossip"
      BY <1>1, <1>2, <2>4 DEF Timed, Kinds, Stage
    <3>2. Stage[next.kind] > 2 /\ (ph.kind = "Gossip" => Stage[next.kind] > 3)
      BY <1>1, <2>2, <3>1
    <3> QED BY <2>2, <2>3, <2>4, <3>1, <3>2 DEF Timed
  <2> QED BY <1>1, <2>1, <2>4, PhaseOrder
<1>4. OnlyReached(s, inner.s)
  BY <1>1, <1>2, EarlyState
<1>5. CASE ph.kind \in {"DepInit", "ReductionDepInit"}
  <2>1. inner = DepInitDispatch(s, t)
    BY <1>1, <1>5 DEF PhaseDispatch, PlainDispatch
  <2>2. inner.reqs = <<>> /\ inner.res \in {"ONGOING", "DONE_PHASE"} /\ (inner.res = "DONE_PHASE" => t.type = "Init")
    BY <2>1 DEF DepInitDispatch, Ongoing, Outcome
  <2> QED BY <1>3, <1>4, <2>2, FewRange DEF Early
<1>6. CASE ph.kind = "Tree" /\ ~ ph.exclusive
  <2>1. inner = TreeDispatch(conf, ph, n, s, t, at)
    BY <1>6 DEF PhaseDispatch, PlainDispatch
  <2>2. /\ \A r \in RangeOf(inner.reqs) : EarlyAsks(ph, t, at, r)
        /\ inner.res = "DONE_COLL" => t.type = "RecvEnd" /\ t.tag # "TREE"
    BY <1>6, <2>1, TreeAsks
  <2>3. inner.res # "ONGOING" => t.type \in {"Init", "RecvEnd"}
    BY <2>1 DEF TreeDispatch, TreeInit, TreeRecvEnd, Ongoing, Outcome
  <2> QED BY <1>3, <1>4, <1>6, <2>2, <2>3 DEF Early
<1>7. CASE ph.exclusive
  <2>1. inner = ExclusiveDispatch(ph, n, s, t, at, draw)
    BY <1>7 DEF PhaseDispatch
  <2>2. /\ \A r \in RangeOf(inner.reqs) : EarlyAsks(ph, t, at, r)
        /\ inner.res = "DONE_COLL" => t.type = "RecvEnd"
    BY <1>1, <1>7, <2>1, ExclusiveAsks
  <2> QED BY <1>1, <1>3, <1>4, <1>7, <2>2 DEF Early, Timed
<1>8. CASE ph.kind = "Gossip"
  <2>1. inner = GossipDispatch(conf, n, s, t, at, StartTime(at), draw)
    BY <1>1, <1>8 DEF PhaseDispatch, PlainDispatch
  <2>2. \A r \in RangeOf(inner.reqs) : EarlyAsks(ph, t, at, r)
    BY <1>1, <1>8, <2>1, GossipAsks
  <2>3. inner.res = "DONE_COLL" => (t.type = "RecvEnd" /\ t.tag # "GOSSIP") \/ ~ s.reached
    BY <2>1 DEF GossipDispatch, GossipInit, GossipIdle, GossipTimer, GossipRecvEnd, Ongoing, Outcome
  <2> QED BY <1>3, <1>4, <1>8, <2>2, <2>3 DEF Early, Timed
<1> QED BY <1>2, <1>5, <1>6, <1>7, <1>8

-----------------------------------------------------------------------------
(* Around the ring. *)

LEMMA Remainder ==
  ASSUME NEW P \in Nat \ {0}, NEW q \in Int, NEW r \in 0 .. P - 1, NEW a \in Int, a = q * P + r
  PROVE  a % P = r
<1>1. PICK p \in Int : a = p * P + (a % P) /\ a % P \in 0 .. P - 1
  BY Divided
<1>2. PICK x \in Int, m \in 0 .. P - 1 : x = q - p /\ m = a % P
  BY <1>1
<1>3. q * P - p * P = x * P
  BY <1>2
<1>4. x * P = m - r
  BY <1>1, <1>2, <1>3
<1>5. x = 0
  BY <1>4, NoMultiple
<1> QED BY <1>2, <1>4, <1>5

(* How far it is to the root, across which only an over-root correction    *)
(* goes; the node there.                                                   *)
Border(n, dir) == IF dir = "left" THEN n + 1 ELSE conf.P - n
Beyond(dir) == IF dir = "left" THEN conf.P - 1 ELSE 0
Bars(dir, m) == ~ Options.overRoot /\ m = Beyond(dir)

LEMMA Walk ==
  ASSUME TypeOK, NEW n \in Node, NEW k \in Nat
  PROVE  /\ n + k < conf.P => Neighbour(conf, n, "right", k) = n + k
         /\ k <= n => Neighbour(conf, n, "left", k) = n - k
         /\ k \in n + 1 .. conf.P => Neighbour(conf, n, "left", k) = n - k + conf.P
         /\ Neighbour(conf, n, "right", conf.P - n) = 0
<1>1. PICK P \in Nat \ {0} : P = conf.P /\ n \in 0 .. P - 1
  BY CollectiveType DEF Node
<1>2. n + k < P => (n + k + P) % P = n + k
  <2>1. ASSUME n + k < P
        PROVE  (n + k + P) % P = n + k
    <3>1. PICK r \in 0 .. P - 1, a \in Int, q \in Int : r = n + k /\ a = n + k + P /\ q = 1
      BY <1>1, <2>1
    <3>2. a = q * P + r
      BY <3>1
    <3>3. a % P = r
      BY <3>2, Remainder
    <3> QED BY <3>1, <3>3
  <2> QED BY <2>1
<1>3. k <= n => (n - k + P) % P = n - k
  <2>1. ASSUME k <= n
        PROVE  (n - k + P) % P = n - k
    <3>1. PICK r \in 0 .. P - 1, a \in Int, q \in Int : r = n - k /\ a = n - k + P /\ q = 1
      BY <1>1, <2>1
    <3>2. a = q * P + r
      BY <3>1
    <3>3. a % P = r
      BY <3>2, Remainder
    <3> QED BY <3>1, <3>3
  <2> QED BY <2>1
<1>4. k \in n + 1 .. P => (n - k + P) % P = n - k + P
  BY <1>1
<1>5. (n + (P - n) + P) % P = 0
  <2>1. n + (P - n) + P = 2 * P + 0 /\ n + (P - n) + P \in Int /\ 0 \in 0 .. P - 1 /\ 2 \in Int
    BY <1>1
  <2> QED BY <2>1, Remainder
<1>6. /\ Neighbour(conf, n, "right", k) = (n + k + P) % P
      /\ Neighbour(conf, n, "left", k) = (n + (- k) + P) % P /\ n + (- k) + P = n - k + P
      /\ Neighbour(conf, n, "right", conf.P - n) = (n + (P - n) + P) % P
  BY <1>1 DEF Neighbour
<1> QED BY <1>1, <1>2, <1>3, <1>4, <1>5, <1>6

LEMMA AtTheBorder ==
  ASSUME TypeOK, conf.P > 1, NEW n \in Node, NEW dir \in {"left", "right"}, NEW k \in 1 .. Border(n, dir)
  PROVE  Neighbour(conf, n, dir, k) = Beyond(dir) <=> k = Border(n, dir)
<1>1. n \in Nat /\ n < conf.P /\ conf.P \in Nat /\ k \in Nat
  BY CollectiveType DEF Node, Border
<1>2. CASE dir = "right"
  <2>1. k \in 1 .. conf.P - n /\ Border(n, dir) = conf.P - n /\ Beyond(dir) = 0
    BY <1>2 DEF Border, Beyond
  <2>2. CASE k = conf.P - n
    BY <1>1, <1>2, <2>1, <2>2, Walk
  <2>3. CASE k < conf.P - n
    BY <1>1, <1>2, <2>1, <2>3, Walk
  <2> QED BY <1>1, <2>1, <2>2, <2>3
<1>3. CASE dir = "left"
  <2>1. k \in 1 .. n + 1 /\ Border(n, dir) = n + 1 /\ Beyond(dir) = conf.P - 1
    BY <1>3 DEF Border, Beyond
  <2>2. CASE k = n + 1
    BY <1>1, <1>3, <2>1, <2>2, Walk
  <2>3. CASE k <= n
    BY <1>1, <1>3, <2>1, <2>3, Walk
  <2> QED BY <1>1, <2>1, <2>2, <2>3
<1> QED BY <1>2, <1>3

(* From where a message came is where it would be answered. *)
LEMMA ComesFrom ==
  ASSUME TypeOK, NEW n \in Node, NEW m \in Node
  PROVE  Neighbour(conf, n, "right", (conf.P + m - n) % conf.P) = m
<1>1. PICK P \in Nat \ {0} : P = conf.P /\ n \in 0 .. P - 1 /\ m \in 0 .. P - 1
  BY CollectiveType DEF Node
<1>2. PICK a \in Int : a = P + m - n
  BY <1>1
<1>3. PICK q \in Int : a = q * P + (a % P) /\ a % P \in 0 .. P - 1
  BY Divided
<1>4. PICK d \in 0 .. P - 1 : d = a % P
  BY <1>3
<1>5. PICK p \in Int : p = 2 - q
  OBVIOUS
<1>6. n + d + P = p * P + m
  <2>1. PICK x \in Int, y \in Int : x = q * P /\ y = p * P
    OBVIOUS
  <2>2. y = 2 * P - x
    BY <1>5, <2>1
  <2>3. P + m - n = x + d
    BY <1>2, <1>3, <1>4, <2>1
  <2>4. n + d + P = y + m
    BY <1>1, <2>2, <2>3
  <2> QED BY <2>1, <2>4
<1>7. (n + d + P) % P = m
  <2>1. n + d + P \in Int
    BY <1>1, <1>4
  <2> QED BY <1>1, <1>6, <2>1, Remainder
<1> QED BY <1>1, <1>2, <1>4, <1>7 DEF Neighbour

(***************************************************************************)
(* How far node n has come.  Whom it has sent to is headed for, as the     *)
(* message travels, has arrived or is lost with its receiver; a direction  *)
(* that ends at the root is over; and who it has heard of corrects itself. *)
(***************************************************************************)
Sent(n, dir, ring, headed) ==
  /\ \A j \in 1 .. ring.offset :
       Neighbour(conf, n, dir, j) \in headed \/ (~ Options.overRoot /\ j = Border(n, dir))
  /\ ~ Options.overRoot =>
       ring.offset <= Border(n, dir) /\ (ring.offset = Border(n, dir) => ring.minRecv <= 1)

Round(n, s, headed, by) ==
  /\ Sent(n, "left", s.left, headed) /\ Sent(n, "right", s.right, headed)
  /\ s.right.minRecv < IntMax =>
       \/ Neighbour(conf, n, "right", s.right.minRecv) \in by
       \/ ~ Options.overRoot /\ s.right.offset = Border(n, "right")

LEMMA SentMore ==
  ASSUME NEW n, NEW dir, NEW ring, NEW headed, NEW more, Sent(n, dir, ring, headed), headed \subseteq more
  PROVE  Sent(n, dir, ring, more)
BY DEF Sent

LEMMA RoundMore ==
  ASSUME NEW n, NEW s, NEW headed, NEW more, NEW by, NEW others, Round(n, s, headed, by),
         headed \subseteq more, by \subseteq others
  PROVE  Round(n, s, more, others)
BY SentMore DEF Round

LEMMA SameRound ==
  ASSUME NEW n, NEW s, NEW r, NEW headed, NEW by, Round(n, s, headed, by),
         r.left = s.left, r.right = s.right
  PROVE  Round(n, r, headed, by)
BY DEF Round

(* One message further, or the end at the root. *)
LEMMA SentNext ==
  ASSUME TypeOK, conf.P > 1, NEW n \in Node, NEW dir \in {"left", "right"}, NEW ring \in RingState,
         Active(ring), NEW headed, Sent(n, dir, ring, headed),
         NEW m, m = Neighbour(conf, n, dir, ring.offset + 1), NEW next \in RingState,
         next.offset = ring.offset + 1,
         Bars(dir, m) => next.minRecv = 1
  PROVE  /\ Sent(n, dir, next, headed \cup {m})
         /\ Bars(dir, m) => Sent(n, dir, next, headed) /\ next.offset = Border(n, dir)
<1>1. PICK o \in Nat : o = ring.offset /\ ring.minRecv \in Nat /\ o < ring.minRecv
  BY DEF RingState, Active
<1>2. Border(n, dir) \in Nat /\ Border(n, dir) >= 1
  BY CollectiveType DEF Border, Node
<1>3. ~ Options.overRoot => o + 1 \in 1 .. Border(n, dir)
  BY <1>1, <1>2 DEF Sent
<1>4. ~ Options.overRoot => (m = Beyond(dir) <=> o + 1 = Border(n, dir))
  BY <1>1, <1>3, AtTheBorder
<1>5. \A j \in 1 .. o + 1 : j \in 1 .. o \/ j = o + 1
  BY <1>1
<1>6. next.offset = o + 1
  BY <1>1
<1>7. ASSUME NEW j \in 1 .. next.offset
      PROVE  /\ Neighbour(conf, n, dir, j) \in headed \cup {m} \/ (~ Options.overRoot /\ j = Border(n, dir))
             /\ Bars(dir, m) =>
                  Neighbour(conf, n, dir, j) \in headed \/ (~ Options.overRoot /\ j = Border(n, dir))
  BY <1>1, <1>4, <1>5, <1>6, <1>7 DEF Sent, Bars
<1>8. ~ Options.overRoot =>
        next.offset <= Border(n, dir) /\ (next.offset = Border(n, dir) => next.minRecv <= 1)
  BY <1>1, <1>2, <1>3, <1>4, <1>6 DEF Bars
<1> QED BY <1>1, <1>4, <1>7, <1>8 DEF Sent, Bars

LEMMA SentHeard ==
  ASSUME NEW n, NEW dir, NEW ring \in RingState, NEW headed, Sent(n, dir, ring, headed), NEW dist \in Nat
  PROVE  Sent(n, dir, Heard(ring, dist), headed) /\ Heard(ring, dist).offset = ring.offset
         /\ Heard(ring, dist).minRecv \in {ring.minRecv, dist}
<1>1. PICK heard : heard = Heard(ring, dist)
  OBVIOUS
<1>2. heard.offset = ring.offset /\ heard.minRecv \in {ring.minRecv, dist} /\ heard.minRecv <= ring.minRecv
  BY <1>1 DEF Heard, RingState
<1>3. ring.minRecv \in Nat
  BY DEF RingState
<1>4. Sent(n, dir, heard, headed)
  BY <1>2, <1>3 DEF Sent
<1> QED BY <1>1, <1>2, <1>4

(* A direction that is barred at the root has come to it. *)
LEMMA BarredRound ==
  ASSUME TypeOK, conf.P > 1, NEW n \in Node, NEW s \in State, NEW headed, NEW by, Round(n, s, headed, by)
  PROVE  Round(n, Barred(conf, Options, n, s), headed, by)
<1>1. PICK dir \in {"left", "right"} : dir = Dir(Options, s)
  BY DirType
<1>2. PICK ended : ended = [Turned(Options, s) EXCEPT ![dir] = [offset |-> @.offset + 1, minRecv |-> 1]]
  OBVIOUS
<1>3. /\ ended[dir] = [offset |-> s[dir].offset + 1, minRecv |-> 1]
      /\ dir = "left" => ended.right = s.right
      /\ dir = "right" => ended.left = s.left
  BY <1>2, BarredEnds
<1>4. s[dir] \in RingState /\ Sent(n, dir, s[dir], headed)
  BY DEF State, Round
<1>5. ASSUME CrossesRoot(conf, Options, n, s)
      PROVE  Sent(n, dir, ended[dir], headed) /\ ended[dir].offset = Border(n, dir) /\ ~ Options.overRoot
  <2>1. /\ ~ Options.overRoot /\ Active(s[dir])
        /\ Neighbour(conf, n, dir, s[dir].offset + 1) = Beyond(dir)
    BY <1>1, <1>5 DEF CrossesRoot, Beyond
  <2>2. PICK ring, next : ring = s[dir] /\ next = ended[dir]
    OBVIOUS
  <2>3. /\ ring \in RingState /\ next \in RingState /\ next.offset = ring.offset + 1 /\ next.minRecv = 1
        /\ Active(ring) /\ Sent(n, dir, ring, headed)
    BY <1>3, <1>4, <2>1, <2>2 DEF RingState
  <2>4. PICK m : m = Neighbour(conf, n, dir, ring.offset + 1)
    OBVIOUS
  <2>5. m = Beyond(dir)
    BY <2>1, <2>2, <2>4
  <2>6. Bars(dir, m)
    BY <2>1, <2>5 DEF Bars
  <2>7. /\ Sent(n, dir, next, headed \cup {m})
        /\ Bars(dir, m) => Sent(n, dir, next, headed) /\ next.offset = Border(n, dir)
    BY <2>3, <2>4, <2>6, SentNext
  <2> QED BY <2>1, <2>2, <2>6, <2>7
<1>6. CrossesRoot(conf, Options, n, s) => Round(n, ended, headed, by)
  <2>1. CASE dir = "left"
    BY <1>3, <1>5, <2>1 DEF Round
  <2>2. CASE dir = "right"
    BY <1>3, <1>5, <2>2 DEF Round
  <2> QED BY <2>1, <2>2
<1>7. Barred(conf, Options, n, s) = IF CrossesRoot(conf, Options, n, s) THEN ended ELSE s
  BY <1>1, <1>2 DEF Barred
<1> QED BY <1>6, <1>7

(* After both directions were looked at, none is barred that is not over.  *)
LEMMA BarredTwice ==
  ASSUME NEW n, NEW s \in State, NEW once, once = Barred(conf, Options, n, s),
         NEW both, both = Barred(conf, Options, n, once)
  PROVE  Exhausted(conf, both) \/ ~ CrossesRoot(conf, Options, n, both)
<1>1. once \in State
  BY BarredType DEF SameBut
<1>2. PICK dir \in {"left", "right"} : dir = Dir(Options, s)
  BY DirType
<1>3. PICK next \in {"left", "right"} : next = Dir(Options, once)
  BY DirType
<1>4. CASE ~ CrossesRoot(conf, Options, n, s)
  <2>1. once = s
    BY <1>4 DEF Barred
  <2> QED BY <1>4, <2>1 DEF Barred
<1>5. CASE CrossesRoot(conf, Options, n, s) /\ ~ CrossesRoot(conf, Options, n, once)
  BY <1>5 DEF Barred
<1>6. CASE CrossesRoot(conf, Options, n, s) /\ CrossesRoot(conf, Options, n, once)
  <2>0. /\ once = [Turned(Options, s) EXCEPT ![dir] = [offset |-> @.offset + 1, minRecv |-> 1]]
        /\ both = [Turned(Options, once) EXCEPT ![next] = [offset |-> @.offset + 1, minRecv |-> 1]]
    BY <1>2, <1>3, <1>6 DEF Barred
  <2>1. /\ once[dir] = [offset |-> s[dir].offset + 1, minRecv |-> 1]
        /\ dir = "left" => once.right = s.right
        /\ dir = "right" => once.left = s.left
    BY <2>0, BarredEnds
  <2>2. /\ both[next] = [offset |-> once[next].offset + 1, minRecv |-> 1]
        /\ next = "left" => both.right = once.right
        /\ next = "right" => both.left = once.left
    BY <1>1, <2>0, BarredEnds
  <2>3. /\ next = "left" => both.right = once.right
        /\ next = "right" => both.left = once.left
    BY <2>2
  <2>4. s[dir].offset \in Nat /\ once[next].offset \in Nat
    BY <1>1 DEF State, RingState
  <2>5. ~ Active(once[dir]) /\ ~ Active(both[next])
    BY <2>1, <2>2, <2>4 DEF Active
  <2>6. Active(once[next])
    BY <1>3, <1>6 DEF CrossesRoot
  <2>7. next # dir
    BY <2>5, <2>6
  <2>8. ~ Active(both.left) /\ ~ Active(both.right)
    <3>1. CASE next = "left"
      BY <1>2, <2>3, <2>5, <2>7, <3>1
    <3>2. CASE next = "right"
      BY <1>2, <2>3, <2>5, <2>7, <3>2
    <3> QED BY <3>1, <3>2
  <2> QED BY <2>8 DEF Exhausted
<1> QED BY <1>4, <1>5, <1>6

LEMMA FewTargets ==
  /\ Targets(<<>>) = {}
  /\ \A x : Targets(<<x>>) = IF x.type = "SendStart" THEN {x.receiver} ELSE {}
<1>1. Targets(<<>>) = {}
  BY FewRange DEF Targets
<1>2. ASSUME NEW x
      PROVE  Targets(<<x>>) = IF x.type = "SendStart" THEN {x.receiver} ELSE {}
  <2>1. RangeOf(<<x>>) = {x}
    BY FewRange
  <2> QED BY <2>1 DEF Targets
<1> QED BY <1>1, <1>2

(* What an answer of the correction is worth. *)
Proceeds(n, out, at, headed, by) ==
  /\ Round(n, out.s, headed \cup Targets(out.reqs), by)
  /\ \A r \in RangeOf(out.reqs) : r.type = "SendStart" => r.time = at /\ r.tag \notin {"TREE", "GOSSIP"}

LEMMA QuietProceeds ==
  ASSUME NEW n, NEW at, NEW headed, NEW by, NEW out, NEW x, out.reqs \in {<<>>, <<x>>},
         x.type = "SendStart" => out.reqs = <<>>, Round(n, out.s, headed, by)
  PROVE  Proceeds(n, out, at, headed, by)
<1>1. Targets(out.reqs) = {} /\ \A r \in RangeOf(out.reqs) : r.type # "SendStart"
  <2>1. CASE out.reqs = <<>>
    BY <2>1, FewTargets, FewRange
  <2>2. CASE out.reqs = <<x>> /\ x.type # "SendStart"
    <3>1. Targets(<<x>>) = {} /\ RangeOf(<<x>>) = {x}
      BY <2>2, FewTargets, FewRange
    <3> QED BY <2>2, <3>1
  <2> QED BY <2>1, <2>2
<1>2. headed \cup Targets(out.reqs) = headed
  BY <1>1
<1> QED BY <1>1, <1>2 DEF Proceeds

LEMMA RoundPost ==
  ASSUME TypeOK, conf.P > 1, NEW n \in Node, NEW s \in State, NEW headed, NEW by, Round(n, s, headed, by),
         NEW at \in Nat, ~ Exhausted(conf, s), ~ CrossesRoot(conf, Options, n, s),
         NEW dir \in {"left", "right"}, dir = Dir(Options, s),
         NEW out, out = Post(conf, Options, n, s, at, dir)
  PROVE  Proceeds(n, out, at, headed, by) /\ out.res = "ONGOING"
<1>1. CASE ~ Active(s[dir])
  <2>1. PICK x : x = TimerRequest("INTERNAL", at + conf.o, n)
    OBVIOUS
  <2>2. out = Outcome("ONGOING", <<x>>, Turned(Options, s)) /\ x.type # "SendStart"
    BY <1>1, <2>1 DEF Post, TimerRequest
  <2>3. PICK r : r = Turned(Options, s) /\ r.left = s.left /\ r.right = s.right
    BY TurnedType
  <2>4. Round(n, r, headed, by)
    BY <2>3, SameRound
  <2>5. out.reqs = <<x>> /\ out.s = r /\ out.res = "ONGOING"
    BY <2>2, <2>3 DEF Outcome
  <2> QED BY <2>2, <2>4, <2>5, QuietProceeds
<1>2. CASE Active(s[dir])
  <2>0. PICK turned \in State : turned = Turned(Options, s) /\ turned.left = s.left /\ turned.right = s.right
    BY TurnedType DEF SameBut
  <2>1. PICK moved : moved = [turned EXCEPT ![dir].offset = @ + 1]
    OBVIOUS
  <2>2. /\ moved[dir] = [offset |-> s[dir].offset + 1, minRecv |-> s[dir].minRecv]
        /\ dir = "left" => moved.right = s.right
        /\ dir = "right" => moved.left = s.left
    <3>1. CASE dir = "left"
      BY <2>0, <2>1, <3>1 DEF State, RingState
    <3>2. CASE dir = "right"
      BY <2>0, <2>1, <3>2 DEF State, RingState
    <3> QED BY <3>1, <3>2
  <2>3. PICK ring, next : ring = s[dir] /\ next = moved[dir]
    OBVIOUS
  <2>4. /\ ring \in RingState /\ next \in RingState /\ next.offset = ring.offset + 1
        /\ next.minRecv = ring.minRecv /\ Active(ring) /\ Sent(n, dir, ring, headed)
    BY <1>2, <2>2, <2>3 DEF State, RingState, Round
  <2>5. PICK m : m = Neighbour(conf, n, dir, ring.offset + 1)
    OBVIOUS
  <2>6. ~ Bars(dir, m)
    BY <1>2, <2>3, <2>5 DEF CrossesRoot, Bars, Beyond
  <2>7. /\ Sent(n, dir, next, headed \cup {m})
        /\ Bars(dir, m) => Sent(n, dir, next, headed) /\ next.offset = Border(n, dir)
    BY <2>4, <2>5, <2>6, SentNext
  <2>8. PICK x : x = SendRequest(IF dir = "left" THEN "RING_LEFT" ELSE "RING_RIGHT", at, n, m)
    OBVIOUS
  <2>9. out = Outcome("ONGOING", <<x>>, moved)
    BY <1>2, <2>0, <2>1, <2>3, <2>4, <2>5, <2>8 DEF Post
  <2>10. out.reqs = <<x>> /\ out.s = moved /\ out.res = "ONGOING"
    BY <2>9 DEF Outcome
  <2>11. x.type = "SendStart" /\ x.receiver = m /\ x.time = at /\ x.tag \notin {"TREE", "GOSSIP"}
    BY <2>8 DEF SendRequest
  <2>12. Targets(out.reqs) = {m} /\ RangeOf(out.reqs) = {x}
    BY <2>10, <2>11, FewTargets, FewRange
  <2>13. PICK more : more = headed \cup {m} /\ headed \subseteq more
    OBVIOUS
  <2>14. Sent(n, "left", moved.left, more) /\ Sent(n, "right", moved.right, more)
    <3>1. Sent(n, "left", s.left, more) /\ Sent(n, "right", s.right, more)
      BY <2>13, SentMore DEF Round
    <3> QED BY <2>2, <2>3, <2>7, <2>13, <3>1
  <2>15. moved.right.minRecv < IntMax =>
           \/ Neighbour(conf, n, "right", moved.right.minRecv) \in by
           \/ ~ Options.overRoot /\ moved.right.offset = Border(n, "right")
    <3>1. CASE dir = "left"
      BY <2>2, <3>1 DEF Round
    <3>2. CASE dir = "right"
      <4>1. moved.right.minRecv = s.right.minRecv /\ s.right = ring
        BY <2>2, <2>3, <3>2
      <4>2. ~ (~ Options.overRoot /\ ring.offset = Border(n, "right"))
        <5>1. Border(n, "right") \in Nat /\ Border(n, "right") >= 1
          BY CollectiveType DEF Border, Node
        <5>2. ~ Options.overRoot /\ ring.offset = Border(n, "right") => ring.minRecv <= 1
          BY <2>4, <3>2 DEF Sent
        <5>3. ring.offset < ring.minRecv /\ ring.offset \in Nat /\ ring.minRecv \in Nat
          BY <2>4 DEF Active, RingState
        <5>4. ASSUME ~ Options.overRoot, ring.offset = Border(n, "right")
              PROVE  FALSE
          BY <5>1, <5>2, <5>3, <5>4
        <5> QED BY <5>4
      <4> QED BY <4>1, <4>2 DEF Round
    <3> QED BY <3>1, <3>2
  <2>16. Round(n, out.s, more, by)
    BY <2>10, <2>14, <2>15 DEF Round
  <2> QED BY <2>10, <2>11, <2>12, <2>13, <2>16 DEF Proceeds
<1> QED BY <1>1, <1>2

(* Who leaves the correction has sent to all it must, if it was reached.   *)
Leaves(s, out) ==
  out.res # "ONGOING" =>
    out.res = "DONE_PHASE" /\ out.reqs = <<>> /\ (s.reached => Exhausted(conf, out.s))

LEMMA RoundPosts ==
  ASSUME TypeOK, conf.P > 1, NEW n \in Node, NEW s \in State, NEW headed, NEW by, Round(n, s, headed, by),
         NEW at \in Nat, NEW out, out = PostMessage(conf, Options, n, s, at)
  PROVE  Proceeds(n, out, at, headed, by) /\ Leaves(s, out)
<1>1. PICK once \in State : once = Barred(conf, Options, n, s)
  BY BarredType DEF SameBut
<1>2. PICK both \in State : both = Barred(conf, Options, n, once)
  BY BarredType DEF SameBut
<1>3. Round(n, once, headed, by)
  BY <1>1, BarredRound
<1>4. Round(n, both, headed, by)
  BY <1>2, <1>3, BarredRound
<1>5. out = PostOpen(conf, Options, n, both, at)
  BY <1>1, <1>2 DEF PostMessage
<1>6. CASE Exhausted(conf, both)
  <2>1. out = Outcome("DONE_PHASE", <<>>, both)
    BY <1>5, <1>6 DEF PostOpen
  <2>2. out.reqs = <<>> /\ out.s = both /\ out.res = "DONE_PHASE"
    BY <2>1 DEF Outcome
  <2>3. Proceeds(n, out, at, headed, by)
    BY <1>4, <2>2, QuietRequests, QuietProceeds
  <2> QED BY <1>6, <2>2, <2>3 DEF Leaves
<1>7. CASE ~ Exhausted(conf, both)
  <2>1. PICK dir \in {"left", "right"} : dir = Dir(Options, both)
    BY DirType
  <2>2. out = Post(conf, Options, n, both, at, dir)
    BY <1>5, <1>7, <2>1 DEF PostOpen
  <2>3. ~ CrossesRoot(conf, Options, n, both)
    BY <1>1, <1>2, <1>7, BarredTwice
  <2>4. Proceeds(n, out, at, headed, by) /\ out.res = "ONGOING"
    BY <1>4, <1>7, <2>1, <2>2, <2>3, RoundPost
  <2> QED BY <2>4 DEF Leaves
<1> QED BY <1>6, <1>7

LEMMA RoundHears ==
  ASSUME TypeOK, NEW n \in Node, NEW s \in State, NEW headed, NEW by, Round(n, s, headed, by),
         NEW t \in Task, t.tag = "RING_LEFT" => t.sender \in by, NEW at,
         NEW out, out = CheckedRecvEnd(conf, n, s, t)
  PROVE  Proceeds(n, out, at, headed, by) /\ Leaves(s, out)
<1>1. t.sender \in Node
  BY DEF Task
<1>2. PICK above, below : above = (conf.P + t.sender - n) % conf.P /\ below = (conf.P + n - t.sender) % conf.P
  OBVIOUS
<1>3. above \in Nat /\ below \in Nat
  <2>1. PICK P \in Nat \ {0} : P = conf.P
    BY CollectiveType
  <2>2. PICK a \in Int, b \in Int : a = P + t.sender - n /\ b = P + n - t.sender
    BY <1>1, <2>1 DEF Node
  <2>3. a % P \in 0 .. P - 1 /\ b % P \in 0 .. P - 1
    BY Divided
  <2> QED BY <1>2, <2>1, <2>2, <2>3
<1>4. PICK left, right : left = Heard(s.left, below) /\ right = Heard(s.right, above)
  OBVIOUS
<1>5. s.left \in RingState /\ s.right \in RingState /\ Sent(n, "left", s.left, headed) /\ Sent(n, "right", s.right, headed)
  BY DEF State, Round
<1>6. Sent(n, "left", left, headed)
  BY <1>3, <1>4, <1>5, SentHeard
<1>7. Sent(n, "right", right, headed) /\ right.offset = s.right.offset /\ right.minRecv \in {s.right.minRecv, above}
  BY <1>3, <1>4, <1>5, SentHeard
<1>8. PICK heard : /\ heard = CASE t.tag = "RING_RIGHT" -> [s EXCEPT !.left = left]
                                [] t.tag = "RING_LEFT"  -> [s EXCEPT !.right = right]
                                [] OTHER                -> s
                   /\ out = Outcome(IF s.reached THEN "ONGOING" ELSE "DONE_PHASE", <<>>,
                                    [heard EXCEPT !.reached = TRUE])
  BY <1>2, <1>4 DEF CheckedRecvEnd
<1>9. PICK r : r = [heard EXCEPT !.reached = TRUE]
  OBVIOUS
<1>10. out.reqs = <<>> /\ out.s = r /\ out.res = IF s.reached THEN "ONGOING" ELSE "DONE_PHASE"
  BY <1>8, <1>9 DEF Outcome
<1>11. \/ r.left = left /\ r.right = s.right
       \/ r.left = s.left /\ r.right = right /\ t.tag = "RING_LEFT"
       \/ r.left = s.left /\ r.right = s.right
  BY <1>8, <1>9 DEF State
<1>12. Neighbour(conf, n, "right", above) = t.sender
  BY <1>1, <1>2, ComesFrom
<1>13. Round(n, r, headed, by)
  <2>1. CASE r.left = left /\ r.right = s.right
    BY <1>6, <2>1 DEF Round
  <2>2. CASE r.left = s.left /\ r.right = right /\ t.tag = "RING_LEFT"
    <3>1. right.minRecv < IntMax =>
            \/ Neighbour(conf, n, "right", right.minRecv) \in by
            \/ ~ Options.overRoot /\ right.offset = Border(n, "right")
      BY <1>7, <1>12, <2>2 DEF Round
    <3> QED BY <1>5, <1>7, <2>2, <3>1 DEF Round
  <2>3. CASE r.left = s.left /\ r.right = s.right
    BY <2>3, SameRound
  <2> QED BY <1>11, <2>1, <2>2, <2>3
<1>14. Proceeds(n, out, at, headed, by)
  BY <1>10, <1>13, QuietRequests, QuietProceeds
<1> QED BY <1>10, <1>14 DEF Leaves

LEMMA CheckedRounds ==
  ASSUME TypeOK, conf.P > 1, NEW n \in Node, NEW s \in State, NEW headed, NEW by, Round(n, s, headed, by),
         NEW t \in Task, t.type = "RecvEnd" /\ t.tag = "RING_LEFT" => t.sender \in by, NEW at \in Nat,
         NEW out, out = CheckedDispatch(conf, Options, n, s, t, at)
  PROVE  Proceeds(n, out, at, headed, by) /\ Leaves(s, out)
<1>1. CASE t.type = "Idle"
  <2>1. out = PostMessage(conf, Options, n, s, at)
    BY <1>1 DEF CheckedDispatch
  <2> QED BY <2>1, RoundPosts
<1>2. CASE t.type = "RecvEnd"
  <2>1. out = CheckedRecvEnd(conf, n, s, t)
    BY <1>2 DEF CheckedDispatch
  <2> QED BY <1>2, <2>1, RoundHears
<1>3. CASE t.type \notin {"Idle", "RecvEnd"}
  <2>1. PICK x : x = IdleRequest(n)
    OBVIOUS
  <2>2. out.reqs \in {<<>>, <<x>>} /\ out.s = s /\ out.res = "ONGOING"
    BY <1>3, <2>1 DEF CheckedDispatch, CorrectionInit, Ongoing, Outcome
  <2>3. x.type # "SendStart" /\ Round(n, out.s, headed, by)
    BY <2>1, <2>2, QuietRequests
  <2>4. Proceeds(n, out, at, headed, by)
    BY <2>2, <2>3, QuietProceeds
  <2> QED BY <2>2, <2>4 DEF Leaves
<1> QED BY <1>1, <1>2, <1>3

-----------------------------------------------------------------------------
(***************************************************************************)
(* The invariant.  Who corrects itself, or has sent all it must; where a   *)
(* message arrived or still arrives; and what is known of a message: when  *)
(* it arrives, as every step of it takes time, that it is not along the    *)
(* tree to the root, and, if it is none of the early phases, that their    *)
(* time had passed when it was sent.                                       *)
(***************************************************************************)
Through(s) == s.cur = Last \/ (s.cur > Last /\ Exhausted(conf, s))
Correctors == {n \in Live \cap Reached : Through(local[n])}

Strange(ph, tag) == IF ph.exclusive THEN tag # "TREE" ELSE tag \notin {"TREE", "GOSSIP"}
AfterAll(u) ==
  \A i \in 1 .. Last : Timed(conf.phases[i]) /\ Strange(conf.phases[i], u.tag) =>
    Elapsed(i) /\ Arrival(u) >= start + Period(conf.phases[i]) + Remaining("SendStart")
Fit(u) ==
  /\ Arrival(u) >= Remaining("SendStart")
  /\ u.tag = "TREE" => u.receiver # 0
  /\ u.tag \notin {"TREE", "GOSSIP"} => u.sender \in Correctors
  /\ AfterAll(u)
Letters == \A u \in queue : u.type \in MessageTypes => Fit(u)

RootInv ==
  /\ 0 \in Reached
  /\ local[0].cur > Last => Exhausted(conf, local[0])
  /\ \A u \in queue : u.type = "Init" /\ u.sender = 0 /\ local[0].cur < Last => u.time = 0

Rounds == \A n \in Node : Round(n, local[n], Headed, Correctors)

(* A checked correction on a machine on which messages take time and the   *)
(* root works.                                                             *)
Correcting ==
  Options.kind = "Checked" /\ conf.P > 1 /\ 0 \in Live /\ Remaining("SendStart") > 0
CoverInv == Correcting => RootInv /\ Letters /\ Rounds /\ DoneOver

LEMMA CorrectingType ==
  ASSUME TypeOK, Correcting
  PROVE  /\ Remaining("SendStart") \in Nat \ {0} /\ Remaining("RecvEnd") = 0
         /\ 0 \in Node /\ 0 \in Live /\ Last \in Nat \ {0}
         /\ \A i \in 1 .. Last : /\ conf.phases[i].kind \in Kinds
                                 /\ conf.phases[i].kind = "Checked" <=> i = Last
                                 /\ conf.phases[i].kind \in {"Opportunistic", "Gather", "MultiTree"} => i = Last
                                 /\ Timed(conf.phases[i]) => i < Last /\ Period(conf.phases[i]) \in Nat
                                 /\ conf.phases[i].exclusive \in BOOLEAN
<1>1. Last \in Nat \ {0}
  BY PhasesType
<1>2. conf.phases[Last].kind = "Checked" /\ Last \in 1 .. Last
  BY <1>1 DEF Correcting, Options
<1>3. ASSUME NEW i \in 1 .. Last
      PROVE  /\ conf.phases[i].kind \in Kinds
             /\ conf.phases[i].kind = "Checked" <=> i = Last
             /\ conf.phases[i].kind \in {"Opportunistic", "Gather", "MultiTree"} => i = Last
             /\ Timed(conf.phases[i]) => i < Last /\ Period(conf.phases[i]) \in Nat
             /\ conf.phases[i].exclusive \in BOOLEAN
  <2>1. /\ conf.phases[i].kind \in Kinds /\ conf.phases[i].exclusive \in BOOLEAN
        /\ conf.phases[i].exclusive => conf.phases[i].kind = "Tree"
    BY <1>1, PhasesType
  <2>2. conf.phases[i].kind \in {"Checked", "Opportunistic", "Gather", "MultiTree"} => i = Last
    BY PhaseOrder
  <2>3. Timed(conf.phases[i]) => conf.phases[i].kind \in {"Tree", "Gossip"}
    BY <2>1 DEF Timed
  <2>4. Period(conf.phases[i]) \in Nat
    BY CollectiveType DEF Period
  <2> QED BY <1>1, <1>2, <2>1, <2>2, <2>3, <2>4
<1>4. conf.o \in Nat /\ conf.g \in Nat /\ conf.L \in Nat
  BY CollectiveType DEF IsConfiguration
<1>5. Remaining("SendStart") \in Nat /\ Remaining("RecvEnd") = 0
  BY <1>4 DEF Remaining, Effort, LaterOf
<1> QED BY <1>1, <1>3, <1>5 DEF Correcting, Live

(***************************************************************************)
(* The root stays until the early phases are over: no message but gossip   *)
(* gets to it before.                                                      *)
(***************************************************************************)
LEMMA RootPatient ==
  ASSUME TypeOK, LocalOK, NoTimewarp, Guided, WindowInv, CoverInv, Correcting,
         NEW t \in Upcoming, Pop(t), t.type = "RecvEnd", t.receiver = 0, local[0].cur < Last
  PROVE  conf.phases[local[0].cur].kind = "Gossip" /\ t.tag = "GOSSIP"
<1>1. /\ RootInv /\ Letters /\ DoneOver
  BY DEF CoverInv
<1>2. PICK i \in 1 .. Last : i = local[0].cur /\ i < Last
  BY CorrectingType DEF LocalOK
<1>3. PICK ph : ph = conf.phases[i]
  OBVIOUS
<1>4. /\ ph.kind \in {"DepInit", "ReductionDepInit", "Tree", "Gossip"} /\ ph.exclusive \in BOOLEAN
      /\ Timed(ph) => Period(ph) \in Nat
  BY <1>2, <1>3, CorrectingType DEF Kinds, Stage
<1>5. PICK r \in Nat \ {0} : r = Remaining("SendStart")
  BY CorrectingType
<1>6. t \in queue /\ t \in Task
  BY UpcomingType, ReadyTasks
<1>7. Fit(t) /\ Arrival(t) = t.time /\ t.time \in Nat
  BY <1>1, <1>6, CorrectingType DEF Letters, MessageTypes, Arrival, Task
<1>8. PICK u \in queue : u.sender = 0 /\ IsCue(ph, u)
  <2>1. 0 \in Reached \ done
    <3>1. 0 \in done => i > Last
      BY <1>1, <1>2 DEF DoneOver
    <3>2. ~ (i > Last)
      BY <1>2, CorrectingType
    <3> QED BY <1>1, <3>1, <3>2 DEF RootInv
  <2>2. Guide(0)
    BY CorrectingType DEF Guided
  <2>3. Cued(0, ph)
    BY <1>2, <1>3, <1>4, <2>1, <2>2 DEF Guide
  <2> QED BY <1>4, <2>3 DEF Cued, Corrects
<1>9. u.time >= t.time
  <2>1. u \in Ready
    BY DEF Ready
  <2>2. u.type # "Finish"
    BY <1>8 DEF IsCue
  <2>3. now' = Clock(t)
    BY PopClock
  <2> QED BY <2>1, <2>2, <2>3, PopClock DEF Clock
<1>10. u.type # "Init"
  BY <1>1, <1>2, <1>5, <1>7, <1>8, <1>9 DEF RootInv, Fit
<1>11. Timed(ph) /\ u.type = "Timer"
  BY <1>4, <1>8, <1>10 DEF IsCue, Timed
<1>12. u.time = start + Period(ph) /\ start \in Nat
  <2>1. Window(i)
    BY <1>3, <1>11 DEF WindowInv, Correcting
  <2> QED BY <1>2, <1>3, <1>8, <1>11, <2>1 DEF Window, TimersFit, LocalOK
<1>13. ~ Strange(ph, t.tag)
  <2>1. Strange(ph, t.tag) => t.time >= start + Period(ph) + r
    BY <1>3, <1>5, <1>7, <1>11 DEF Fit, AfterAll
  <2> QED BY <1>4, <1>5, <1>7, <1>9, <1>11, <1>12, <2>1
<1>14. t.tag # "TREE"
  BY <1>7 DEF Fit
<1>15. ~ ph.exclusive /\ t.tag = "GOSSIP"
  BY <1>4, <1>13, <1>14 DEF Strange
<1> QED BY <1>2, <1>3, <1>11, <1>15 DEF Timed

-----------------------------------------------------------------------------
(* The steps of a collective. *)

(* A message that goes on is as it was. *)
LEMMA FitLater ==
  ASSUME TypeOK, conf' = conf, start \in Nat, NEW t \in Task, NEW u \in Task,
         u.tag = t.tag, u.sender = t.sender, u.receiver = t.receiver, Arrival(u) >= Arrival(t), Fit(t),
         Correctors \subseteq Correctors',
         \A i \in 1 .. Last : Elapsed(i) => Elapsed(i)' /\ start' = start
  PROVE  Fit(u)'
<1>1. /\ Last' = Last /\ \A i \in 1 .. Last : conf.phases[i]' = conf.phases[i]
      /\ \A i \in 1 .. Last : Period(conf.phases[i])' = Period(conf.phases[i])
  BY DEF Last, Period
<1>2. Remaining("SendStart")' = Remaining("SendStart") /\ Arrival(u)' = Arrival(u)
  BY DEF Remaining, Arrival, Effort
<1>3. /\ Remaining("SendStart") \in Nat /\ Arrival(u) \in Nat /\ Arrival(t) \in Nat
      /\ \A i \in 1 .. Last : Period(conf.phases[i]) \in Nat
  <2>1. conf.o \in Nat /\ conf.g \in Nat /\ conf.L \in Nat /\ conf.deadline \in Nat /\ conf.gossip \in Nat
    BY CollectiveType DEF IsConfiguration
  <2>2. Effort \in Nat
    BY <2>1 DEF Effort, LaterOf
  <2>3. \A type : Remaining(type) \in Nat
    BY <2>1, <2>2 DEF Remaining
  <2> QED BY <2>1, <2>3 DEF Arrival, Task, Period
<1>4. Arrival(u) >= Remaining("SendStart")
  BY <1>3 DEF Fit
<1>5. /\ u.tag = "TREE" => u.receiver # 0
      /\ u.tag \notin {"TREE", "GOSSIP"} => u.sender \in Correctors'
  BY DEF Fit
<1>6. ASSUME NEW i \in 1 .. Last, Timed(conf.phases[i]), Strange(conf.phases[i], u.tag)
      PROVE  Elapsed(i)' /\ Arrival(u) >= start' + Period(conf.phases[i]) + Remaining("SendStart")
  <2>1. Elapsed(i) /\ Arrival(t) >= start + Period(conf.phases[i]) + Remaining("SendStart")
    BY <1>6 DEF Fit, AfterAll
  <2> QED BY <1>3, <2>1
<1>7. AfterAll(u)'
  BY <1>1, <1>2, <1>6 DEF AfterAll, Timed, Strange
<1> QED BY <1>1, <1>2, <1>4, <1>5, <1>7 DEF Fit

(* A message of node n that is new: of an early phase, or a correction.    *)
Fresh(n, at, r) ==
  /\ r.time = at
  /\ \/ r.tag = "TREE" /\ r.receiver # 0
     \/ r.tag = "GOSSIP" /\ \E i \in 1 .. Last : conf.phases[i].kind = "Gossip"
     \/ r.tag \notin {"TREE", "GOSSIP"} /\ local[n].cur = Last /\ local'[n].cur = Last

LEMMA FitFresh ==
  ASSUME TypeOK, LocalOK, WindowInv, Correcting, conf' = conf, NEW n \in Node, NEW at \in Nat, now \in Nat, at >= now,
         NEW r, Fresh(n, at, r), NEW u \in Task, SameTask(u, r), u.type = "SendStart",
         n \in Live \cap Reached', u.sender = n,
         \A i \in 1 .. Last : Elapsed(i) => Elapsed(i)' /\ start' = start
  PROVE  Fit(u)'
<1>1. /\ Last' = Last /\ \A i \in 1 .. Last : conf.phases[i]' = conf.phases[i]
      /\ \A i \in 1 .. Last : Period(conf.phases[i])' = Period(conf.phases[i])
      /\ Live' = Live
  BY DEF Last, Period, Live, Node
<1>2. Remaining("SendStart")' = Remaining("SendStart") /\ Arrival(u)' = Arrival(u)
  BY DEF Remaining, Arrival, Effort
<1>3. PICK cost \in Nat : cost = Remaining("SendStart")
  BY CorrectingType
<1>4. Arrival(u) = at + cost /\ u.tag = r.tag /\ u.receiver = r.receiver
  BY <1>3 DEF Arrival, SameTask, Fresh
<1>5. Arrival(u) >= cost
  BY <1>3, <1>4
<1>6. u.tag = "TREE" => u.receiver # 0
  BY <1>4 DEF Fresh
<1>7. u.tag \notin {"TREE", "GOSSIP"} => u.sender \in Correctors'
  BY <1>1, <1>4 DEF Fresh, Correctors, Through
<1>8. ASSUME NEW i \in 1 .. Last, Timed(conf.phases[i]), Strange(conf.phases[i], u.tag)
      PROVE  Elapsed(i)' /\ Arrival(u) >= start' + Period(conf.phases[i]) + cost
  <2>1. u.tag # "TREE"
    BY <1>8 DEF Strange
  <2>2. u.tag # "GOSSIP"
    <3>1. SUFFICES ASSUME u.tag = "GOSSIP" PROVE FALSE
      OBVIOUS
    <3>2. conf.phases[i].exclusive
      BY <1>8, <3>1 DEF Strange
    <3>3. PICK j \in 1 .. Last : conf.phases[j].kind = "Gossip"
      BY <1>4, <3>1 DEF Fresh
    <3> QED BY <3>2, <3>3, PhaseOrder
  <2>3. local[n].cur = Last
    BY <1>4, <2>1, <2>2 DEF Fresh
  <2>4. i < Last /\ Period(conf.phases[i]) \in Nat /\ Last \in Nat
    BY <1>8, CorrectingType
  <2>5. Passed(i)
    BY <1>8 DEF WindowInv, Window, Correcting
  <2>6. Elapsed(i)
    BY <2>3, <2>4, <2>5 DEF Passed
  <2>7. start \in Nat /\ now >= start + Period(conf.phases[i])
    BY <2>6 DEF Elapsed, LocalOK
  <2>8. Elapsed(i)' /\ start' = start
    BY <2>6
  <2> QED BY <1>3, <1>4, <2>4, <2>7, <2>8
<1>9. AfterAll(u)'
  BY <1>1, <1>2, <1>3, <1>8 DEF AfterAll, Timed, Strange
<1> QED BY <1>1, <1>2, <1>3, <1>5, <1>6, <1>7, <1>9 DEF Fit

(* What the node that is notified makes of it. *)
Advances(n, at, asked) ==
  /\ Round(n, local'[n], Headed', Correctors)
  /\ n \in Correctors => Through(local'[n])
  /\ \A r \in asked : r.type = "SendStart" => Fresh(n, at, r)
  /\ n = 0 => /\ local'[0].cur > Last => Exhausted(conf, local'[0])
              /\ \A r \in asked : r.type = "Init" /\ local'[0].cur < Last => r.time = 0

LEMMA SteadyAdvances ==
  ASSUME TypeOK, Correcting, CoverInv, NEW n \in Node, NEW t, NEW at, NEW asked,
         Headed \subseteq Headed', Steady(n, t, asked)
  PROVE  Advances(n, at, asked)
<1>1. Round(n, local[n], Headed, Correctors)
  BY DEF CoverInv, Rounds
<1>2. local'[n].cur = local[n].cur /\ local'[n].left = local[n].left /\ local'[n].right = local[n].right
  BY DEF Steady
<1>3. Round(n, local'[n], Headed', Correctors)
  BY <1>1, <1>2, SameRound, RoundMore
<1>4. \A r \in asked : r.type \notin {"SendStart", "Init"}
  BY DEF Steady
<1>5. Exhausted(conf, local'[n]) <=> Exhausted(conf, local[n])
  BY <1>2 DEF Exhausted
<1>6. n \in Correctors => Through(local'[n])
  BY <1>2, <1>5 DEF Correctors, Through
<1>7. n = 0 /\ local'[0].cur > Last => Exhausted(conf, local'[0])
  BY <1>2, <1>5 DEF CoverInv, RootInv
<1> QED BY <1>3, <1>4, <1>6, <1>7 DEF Advances

(* Before the correction. *)
LEMMA EarlyAdvances ==
  ASSUME TypeOK, LocalOK, NoTimewarp, Guided, WindowInv, Correcting, CoverInv, Headed \subseteq Headed',
         NEW t \in Upcoming, NEW n \in Node, NEW draw \in Node, NEW at \in Nat, NEW asked, Hears(n, t, at, asked),
         local[n].cur # Last, NEW inner,
         inner = PhaseDispatch(conf.phases[local[n].cur], n, local[n], t, at, draw),
         Moves(n, t, at, asked, inner)
  PROVE  Advances(n, at, asked)
<1>1. PICK cur \in 1 .. Last : cur = local[n].cur /\ cur # Last
  BY DEF Moves
<1>2. Last \in Nat \ {0} /\ cur < Last /\ cur + 1 <= Last
  BY <1>1, CorrectingType
<1>3. PICK ph, s : ph = conf.phases[cur] /\ s = local[n] /\ s \in State
  BY DEF LocalOK
<1>4. start \in Nat /\ t \in Task /\ Options.kind = "Checked"
  BY UpcomingType DEF LocalOK, Correcting
<1>5. inner = PhaseDispatch(ph, n, s, t, at, draw)
  BY <1>1, <1>3
<1>6. /\ \A r \in RangeOf(inner.reqs) : EarlyAsks(ph, t, at, r)
      /\ OnlyReached(s, inner.s)
      /\ Timed(ph) => cur + 1 = Last
      /\ inner.res \in {"DONE_PHASE", "DONE_FORWARD"} =>
           t.type \in {"Init", "RecvEnd"} \/ Timed(ph)
      /\ inner.res = "DONE_COLL" =>
           \/ t.type = "RecvEnd" /\ (ph.kind = "Gossip" => t.tag # "GOSSIP")
           \/ ~ s.reached
  <2>1. Early(cur, ph, s, t, at, inner)
    BY <1>1, <1>3, <1>4, <1>5, BeforeChecked
  <2> QED BY <2>1 DEF Early
<1>7. local'[n].left = s.left /\ local'[n].right = s.right
  <2>1. PICK r : r = inner.s /\ OnlyReached(s, r)
    BY <1>6
  <2>2. r.left = s.left /\ r.right = s.right /\ (s.reached => r.reached)
    BY <1>3, <2>1, OnlyReachedKeeps
  <2> QED BY <2>1, <2>2 DEF Moves
<1>8. Round(n, local'[n], Headed', Correctors)
  <2>1. Round(n, s, Headed, Correctors)
    BY <1>3 DEF CoverInv, Rounds
  <2> QED BY <1>7, <2>1, SameRound, RoundMore
<1>9. n \notin Correctors
  BY <1>1, <1>2 DEF Correctors, Through
<1>10. \A r \in asked : r \in RangeOf(inner.reqs) \/ (r = InitRequest(at, n) /\ cur < local'[n].cur) \/ r.type = "Finish"
  BY <1>1 DEF Moves
<1>11. ASSUME NEW r \in asked, r.type = "SendStart"
       PROVE  Fresh(n, at, r)
  <2>1. r \in RangeOf(inner.reqs)
    BY <1>10, <1>11 DEF InitRequest
  <2>2. EarlyAsks(ph, t, at, r)
    BY <1>6, <2>1
  <2> QED BY <1>3, <1>11, <2>2 DEF EarlyAsks, Fresh
<1>12. ASSUME n = 0
       PROVE  /\ ~ (local'[0].cur > Last)
              /\ \A r \in asked : r.type = "Init" /\ local'[0].cur < Last => r.time = 0
  <2>1. Pop(t) /\ NotifiedNode(t) = 0 /\ at = Clock(t)
    BY <1>12 DEF Hears, Heap
  <2>2. t.type = "RecvEnd" => ph.kind = "Gossip" /\ t.tag = "GOSSIP"
    BY <1>1, <1>2, <1>3, <1>12, <2>1, RootPatient DEF NotifiedNode
  <2>3. s.reached
    BY <1>3, <1>12 DEF CoverInv, RootInv, Reached
  <2>4. inner.res \in Result /\ local'[0].cur = NextPhase(cur, inner.res)
    BY <1>1, <1>12 DEF Moves, Proper
  <2>5. inner.res # "DONE_COLL"
    BY <1>6, <2>2, <2>3
  <2>6. local'[0].cur = IF inner.res = "ONGOING" THEN cur ELSE cur + 1
    BY <2>4, <2>5 DEF NextPhase
  <2>7. ASSUME NEW r \in asked, r.type = "Init", local'[0].cur < Last
        PROVE  r.time = 0
    <3>1. r \notin RangeOf(inner.reqs)
      BY <1>6, <2>7 DEF EarlyAsks
    <3>2. r = InitRequest(at, n) /\ cur < local'[0].cur
      BY <1>10, <1>12, <2>7, <3>1
    <3>3. inner.res \in {"DONE_PHASE", "DONE_FORWARD"} /\ ~ Timed(ph)
      BY <1>2, <1>6, <2>4, <2>5, <2>6, <2>7, <3>2 DEF Result
    <3>4. t.type = "Init"
      BY <1>6, <2>2, <3>3 DEF Timed
    <3>5. t \in queue /\ t.sender = 0
      BY <2>1, <3>4, UpcomingType, ReadyTasks DEF NotifiedNode
    <3>6. t.time = 0
      BY <1>1, <1>2, <1>12, <3>4, <3>5 DEF CoverInv, RootInv
    <3> QED BY <2>1, <3>2, <3>4, <3>6 DEF Clock, InitRequest
  <2> QED BY <1>2, <2>6, <2>7
<1> QED BY <1>8, <1>9, <1>11, <1>12 DEF Advances

(* In the correction. *)
LEMMA LastAdvances ==
  ASSUME TypeOK, LocalOK, conf' = conf, Correcting, CoverInv, Headed \subseteq Headed',
         NEW t \in Upcoming, NEW n \in Live, NEW draw \in Node, NEW at \in Nat, NEW asked, Hears(n, t, at, asked),
         local[n].cur = Last, NEW inner,
         inner = PhaseDispatch(conf.phases[local[n].cur], n, local[n], t, at, draw),
         Moves(n, t, at, asked, inner)
  PROVE  Advances(n, at, asked)
<1>1. /\ Last \in Nat \ {0} /\ conf.P > 1 /\ n \in Node /\ t \in Task /\ local[n] \in State
      /\ Options.kind = "Checked" /\ ~ Options.exclusive
  <2>1. Last \in 1 .. Last
    BY CorrectingType
  <2>2. Options.kind = "Checked" /\ Options.exclusive \in BOOLEAN /\ (Timed(Options) => Last < Last)
    BY <2>1, CorrectingType DEF Correcting, Options
  <2> QED BY <2>1, <2>2, CorrectingType, UpcomingType DEF Correcting, Live, LocalOK, Timed
<1>2. PICK s : s = local[n]
  OBVIOUS
<1>3. inner = CheckedDispatch(conf, Options, n, s, t, at)
  BY <1>1, <1>2 DEF PhaseDispatch, PlainDispatch, Options
<1>4. Round(n, s, Headed, Correctors)
  BY <1>1, <1>2 DEF CoverInv, Rounds
<1>5. t.type = "RecvEnd" /\ t.tag = "RING_LEFT" => t.sender \in Correctors
  <2>1. t.type = "RecvEnd" => t \in queue
    BY UpcomingType, ReadyTasks
  <2> QED BY <2>1 DEF CoverInv, Letters, Fit, MessageTypes
<1>6. Proceeds(n, inner, at, Headed, Correctors) /\ Leaves(s, inner)
  BY <1>1, <1>2, <1>3, <1>4, <1>5, CheckedRounds
<1>7. /\ inner.reqs \in Seq(Wish(n, at)) /\ inner.res \in Result
      /\ local'[n].cur = NextPhase(Last, inner.res)
      /\ local'[n].left = inner.s.left /\ local'[n].right = inner.s.right
      /\ RangeOf(inner.reqs) \subseteq asked
  BY DEF Moves, Proper
<1>8. Headed \cup Targets(inner.reqs) \subseteq Headed'
  <2>1. ASSUME NEW r \in RangeOf(inner.reqs), r.type = "SendStart"
        PROVE  r.receiver \in Headed'
    <3>1. r \in Demand(n, at)
      BY <1>7 DEF RangeOf, Wish
    <3>2. r.receiver \in Node
      BY <1>1, <3>1 DEF Demand
    <3>3. r \in asked /\ Heap(t, asked) /\ \A q \in asked : q.sender = n
      BY <1>7 DEF Hears
    <3> QED BY <2>1, <3>2, <3>3, TargetsHeaded
  <2> QED BY <2>1 DEF Targets
<1>9. Round(n, local'[n], Headed', Correctors)
  <2>1. PICK more : more = Headed \cup Targets(inner.reqs)
    OBVIOUS
  <2>2. Round(n, inner.s, more, Correctors)
    BY <1>6, <2>1 DEF Proceeds
  <2>3. Round(n, local'[n], more, Correctors)
    BY <1>7, <2>2, SameRound
  <2> QED BY <1>8, <2>1, <2>3, RoundMore
<1>10. \/ inner.res = "ONGOING" /\ local'[n].cur = Last
       \/ /\ inner.res # "ONGOING" /\ local'[n].cur = Last + 1 /\ inner.reqs = <<>>
          /\ s.reached => Exhausted(conf, local'[n])
  <2>1. CASE inner.res = "ONGOING"
    BY <1>7, <2>1 DEF NextPhase
  <2>2. CASE inner.res # "ONGOING"
    <3>1. inner.res = "DONE_PHASE" /\ inner.reqs = <<>> /\ (s.reached => Exhausted(conf, inner.s))
      BY <1>6, <2>2 DEF Leaves
    <3>2. Exhausted(conf, inner.s) => Exhausted(conf, local'[n])
      BY <1>7 DEF Exhausted
    <3> QED BY <1>7, <2>2, <3>1, <3>2 DEF NextPhase
  <2> QED BY <2>1, <2>2
<1>11. n \in Correctors => Through(local'[n])
  BY <1>1, <1>2, <1>10 DEF Correctors, Reached, Through
<1>12. ASSUME NEW r \in asked, r.type = "SendStart"
       PROVE  Fresh(n, at, r)
  <2>1. r \in RangeOf(inner.reqs)
    BY <1>12 DEF Moves, InitRequest
  <2>2. r.time = at /\ r.tag \notin {"TREE", "GOSSIP"}
    BY <1>6, <1>12, <2>1 DEF Proceeds
  <2>3. inner.reqs # <<>>
    BY <2>1, FewRange
  <2> QED BY <1>10, <2>2, <2>3 DEF Fresh
<1>13. n = 0 => local[0].reached
  BY DEF CoverInv, RootInv, Reached
<1>14. n = 0 => /\ local'[0].cur > Last => Exhausted(conf, local'[0])
                /\ ~ (local'[0].cur < Last)
  BY <1>1, <1>2, <1>10, <1>13
<1> QED BY <1>9, <1>11, <1>12, <1>14 DEF Advances

(* The messages after a step. *)
LEMMA LettersStay ==
  ASSUME TypeOK, LocalOK, WindowInv, Senders', Correcting, Letters, conf' = conf, queue' \subseteq Task,
         now \in Nat, NEW t \in Upcoming, NEW asked, Heap(t, asked), NEW n \in Node, NEW at \in Nat, at >= now,
         \A r \in asked : /\ r.type \in {"SendStart", "Timer", "Init", "Idle", "Finish"} /\ r.sender = n
                          /\ r.type = "SendStart" => Fresh(n, at, r),
         Correctors \subseteq Correctors',
         \A i \in 1 .. Last : Elapsed(i) => Elapsed(i)' /\ start' = start
  PROVE  Letters'
<1>1. SUFFICES ASSUME NEW u \in queue', u.type \in MessageTypes PROVE Fit(u)'
  BY DEF Letters
<1>2. start \in Nat /\ queue \subseteq Task /\ u \in Task /\ Live' = Live /\ t \in Ready
  BY UpcomingType DEF LocalOK, TypeOK, Live, Node
<1>3. \A r \in asked : r.type \in {"SendStart", "Timer", "Init", "Idle", "Finish"}
  OBVIOUS
<1>4. CASE u \in queue
  <2>1. Fit(u)
    BY <1>1, <1>4 DEF Letters
  <2>2. Arrival(u) >= Arrival(u)
    <3>1. conf.o \in Nat /\ conf.g \in Nat /\ conf.L \in Nat /\ u.time \in Nat
      BY <1>2, CollectiveType DEF IsConfiguration, Task
    <3> QED BY <3>1 DEF Arrival, Remaining, Effort, LaterOf
  <2> QED BY <1>2, <2>1, <2>2, FitLater
<1>5. CASE t \in queue /\ t.type \in MessageTypes /\ Succeeds(t, u)
  <2>1. Fit(t) /\ t \in Task
    BY <1>2, <1>5 DEF Letters
  <2>2. u.tag = t.tag /\ u.sender = t.sender /\ u.receiver = t.receiver /\ Arrival(u) >= Arrival(t)
    BY <1>5 DEF Succeeds
  <2> QED BY <1>2, <2>1, <2>2, FitLater
<1>6. CASE \E r \in asked : r.type = "SendStart" /\ SameTask(u, r)
  <2>1. PICK r \in asked : r.type = "SendStart" /\ SameTask(u, r)
    BY <1>6
  <2>2. u.type = "SendStart" /\ u.sender = n /\ Fresh(n, at, r)
    BY <2>1 DEF SameTask
  <2>3. n \in Live \cap Reached'
    BY <1>1, <1>2, <2>2 DEF Senders
  <2> QED BY <1>2, <2>1, <2>2, <2>3, FitFresh
<1> QED BY <1>1, <1>2, <1>3, <1>4, <1>5, <1>6, MessageOrigin

(* The round of a node depends on the nodes alone. *)
LEMMA RoundPrime ==
  ASSUME conf' = conf, NEW n, Round(n, local'[n], Headed', Correctors')
  PROVE  Round(n, local[n], Headed, Correctors)'
BY DEF Round, Sent, Border, Neighbour, Options, Last

(* All nodes after a step in which n was notified, or nobody. *)
LEMMA NodesStay ==
  ASSUME TypeOK, LocalOK, Correcting, CoverInv, conf' = conf, NEW t \in Upcoming, NEW asked, Heap(t, asked),
         NEW n \in Node, NEW at, \A m \in Node : m # n => local'[m] = local[m],
         Advances(n, at, asked), Headed \subseteq Headed', Reached \subseteq Reached',
         \A r \in asked : r.type \in {"SendStart", "Timer", "Init", "Idle", "Finish"} /\ r.sender = n,
         local'[0].cur \in Nat /\ local[0].cur \in Nat /\ local'[0].cur >= local[0].cur
  PROVE  RootInv' /\ Rounds' /\ Correctors \subseteq Correctors'
<1>1. /\ Last' = Last /\ Live' = Live /\ Node' = Node /\ 0 \in Node /\ Last \in Nat
      /\ \A s : Exhausted(conf, s)' <=> Exhausted(conf', s)
  BY CorrectingType DEF Last, Live, Node
<1>2. ASSUME NEW m \in Node
      PROVE  Round(m, local'[m], Headed', Correctors) /\ (m \in Correctors => Through(local'[m]))
  <2>1. CASE m = n
    BY <2>1 DEF Advances
  <2>2. CASE m # n
    <3>1. local'[m] = local[m] /\ Round(m, local[m], Headed, Correctors)
      BY <1>2, <2>2 DEF CoverInv, Rounds
    <3> QED BY <3>1, RoundMore DEF Correctors
  <2> QED BY <2>1, <2>2
<1>3. Correctors \subseteq Correctors'
  <2>1. ASSUME NEW m \in Correctors
        PROVE  m \in Correctors'
    <3>1. m \in Node /\ m \in Live' /\ m \in Reached' /\ Through(local'[m])
      BY <1>1, <1>2, <2>1 DEF Correctors, Live
    <3>2. Through(local[m])'
      BY <1>1, <3>1 DEF Through, Exhausted
    <3> QED BY <3>1, <3>2 DEF Correctors
  <2> QED BY <2>1
<1>4. ASSUME NEW m \in Node
      PROVE  Round(m, local[m], Headed, Correctors)'
  <2>1. Round(m, local'[m], Headed', Correctors')
    BY <1>2, <1>3, RoundMore
  <2> QED BY <2>1, RoundPrime
<1>5. 0 \in Reached'
  BY DEF CoverInv, RootInv
<1>6. local'[0].cur > Last => Exhausted(conf, local'[0])
  <2>1. CASE n = 0
    BY <2>1 DEF Advances
  <2>2. CASE n # 0
    BY <1>1, <2>2 DEF CoverInv, RootInv
  <2> QED BY <2>1, <2>2
<1>7. ASSUME NEW u \in queue', u.type = "Init", u.sender = 0, local'[0].cur < Last
      PROVE  u.time = 0
  <2>1. Origin(t, asked, u)
    BY <1>7 DEF Heap
  <2>2. CASE u \in Ready
    <3>1. u \in queue
      BY <1>7, <2>2, ReadyTasks
    <3> QED BY <1>1, <1>7, <3>1 DEF CoverInv, RootInv
  <2>3. CASE \E r \in asked : SameTask(u, r)
    <3>1. PICK r \in asked : SameTask(u, r)
      BY <2>3
    <3>2. r.type = "Init" /\ r.sender = 0 /\ u.time = r.time
      BY <1>7, <3>1 DEF SameTask
    <3>3. n = 0
      BY <3>2
    <3> QED BY <1>7, <3>2, <3>3 DEF Advances
  <2>4. ~ Succeeds(t, u)
    BY <1>7, SameImage DEF MessageTypes
  <2> QED BY <1>7, <2>1, <2>2, <2>3, <2>4 DEF Origin
<1>8. RootInv'
  BY <1>1, <1>5, <1>6, <1>7 DEF RootInv, Exhausted
<1>9. Rounds'
  BY <1>1, <1>4 DEF Rounds
<1> QED BY <1>3, <1>8, <1>9

LEMMA AnswerCover ==
  ASSUME TypeOK, LocalOK, Senders, Senders', NoTimewarp, Guided, InTime, WindowInv, Correcting, CoverInv, conf' = conf,
         queue' \subseteq Task, now \in Nat, now' \in Nat, now' >= now, start' \in Nat,
         NEW t \in Upcoming, NEW n \in Live, NEW draw \in Node, NEW at \in Nat, NEW asked, Hears(n, t, at, asked),
         \/ Steady(n, t, asked)
         \/ \E inner : /\ inner = PhaseDispatch(conf.phases[local[n].cur], n, local[n], t, at, draw)
                       /\ Moves(n, t, at, asked, inner),
         Reached \subseteq Reached', t.type = "RecvEnd" => n \in Reached',
         local'[0].cur \in Nat /\ local[0].cur \in Nat /\ local'[0].cur >= local[0].cur
  PROVE  RootInv' /\ Letters' /\ Rounds'
<1>1. n \in Node /\ Heap(t, asked) /\ at = now' /\ n = NotifiedNode(t)
  BY DEF Live, Hears
<1>2. \A r \in asked : r.type \in {"SendStart", "Timer", "Init", "Idle", "Finish"} /\ r.sender = n
  BY AnswerAsks DEF Hears
<1>3. Headed \subseteq Headed'
  <2>1. t.type = "RecvEnd" => t.receiver \in Reached'
    BY <1>1 DEF NotifiedNode
  <2> QED BY <1>1, <2>1, HeadedStays
<1>4. Advances(n, at, asked)
  <2>1. CASE Steady(n, t, asked)
    BY <1>1, <1>3, <2>1, SteadyAdvances
  <2>2. ASSUME NEW inner, inner = PhaseDispatch(conf.phases[local[n].cur], n, local[n], t, at, draw),
               Moves(n, t, at, asked, inner)
        PROVE  Advances(n, at, asked)
    <3>1. CASE local[n].cur # Last
      BY <1>1, <1>3, <2>2, <3>1, EarlyAdvances
    <3>2. CASE local[n].cur = Last
      BY <1>3, <2>2, <3>2, LastAdvances
    <3> QED BY <3>1, <3>2
  <2> QED BY <2>1, <2>2
<1>5. RootInv' /\ Rounds' /\ Correctors \subseteq Correctors'
  BY <1>1, <1>2, <1>3, <1>4, NodesStay DEF Hears
<1>6. \A i \in 1 .. Last : Elapsed(i) => Elapsed(i)' /\ start' = start
  <2>1. start' = start \/ (start = TimeMax /\ status = "running")
    BY <1>1 DEF Hears, StartTime, Heap
  <2> QED BY <2>1, ElapsedStays
<1>7. \A r \in asked : /\ r.type \in {"SendStart", "Timer", "Init", "Idle", "Finish"} /\ r.sender = n
                       /\ r.type = "SendStart" => Fresh(n, at, r)
  BY <1>2, <1>4 DEF Advances
<1>8. Letters
  BY DEF CoverInv
<1>9. Letters'
  BY <1>1, <1>5, <1>6, <1>7, <1>8, LettersStay
<1> QED BY <1>5, <1>9

LEMMA StepCover ==
  ASSUME TypeOK, TypeOK', LocalOK, LocalOK', StartUp, NoTimewarp, Senders, Senders', OneWait, Guided, WindowInv,
         CoverInv, [CNext]_vars
  PROVE  CoverInv'
<1>1. /\ conf' = conf /\ Last' = Last /\ Node' = Node /\ queue' \subseteq Task /\ start' \in Nat /\ start \in Nat
      /\ now \in Nat /\ now' \in Nat /\ now' >= now /\ InTime
  <2>1. conf' = conf /\ queue' \subseteq Task'
    BY StepLocal DEF TypeOK
  <2>2. Node' = Node /\ Task' = Task
    BY <2>1 DEF Node, Task
  <2>3. [OpenNext]_qvars
    BY StepOpens
  <2>4. InTime
    BY DEF WindowInv
  <2>5. now \in Nat /\ now' \in Nat /\ now' >= now /\ InTime'
    BY <2>3, <2>4, ClockGoesOn
  <2> QED BY <2>1, <2>2, <2>4, <2>5 DEF Last, LocalOK
<1>2. Correcting' <=> Correcting
  BY <1>1 DEF Correcting, Options, Live, Remaining, Effort
<1>3. SUFFICES ASSUME Correcting PROVE RootInv' /\ Letters' /\ Rounds' /\ DoneOver'
  BY <1>2 DEF CoverInv
<1>4. RootInv /\ Letters /\ Rounds /\ DoneOver
  BY <1>3 DEF CoverInv
<1>5. 0 \in Node /\ 0 \in Live /\ Live \subseteq Node
  BY <1>3, CorrectingType DEF Live
<1>6. CASE Rests
  <2>1. local' = local /\ queue' = queue /\ start' = start /\ done' = done
    BY <1>6 DEF Rests, cvars
  <2>2. Reached' = Reached /\ Live' = Live
    BY <1>1, <2>1 DEF Reached, Live
  <2>3. Headed' = Headed /\ Correctors' = Correctors
    <3>1. \A n : Through(local[n])' <=> Through(local[n])
      BY <1>1, <2>1 DEF Through, Exhausted
    <3>2. \A x : Toward(x)' <=> Toward(x)
      BY <1>1, <2>1, <2>2 DEF Toward
    <3> QED BY <1>1, <2>2, <3>1, <3>2 DEF Headed, Correctors
  <2>4. RootInv' /\ DoneOver'
    BY <1>1, <1>4, <2>1, <2>2 DEF RootInv, DoneOver, Exhausted
  <2>5. Rounds'
    <3>1. ASSUME NEW n \in Node
          PROVE  Round(n, local[n], Headed, Correctors)'
      <4>1. Round(n, local'[n], Headed', Correctors')
        BY <1>4, <2>1, <2>3 DEF Rounds
      <4> QED BY <1>1, <4>1, RoundPrime
    <3> QED BY <1>1, <3>1 DEF Rounds
  <2>6. \A i \in 1 .. Last : Elapsed(i) => Elapsed(i)' /\ start' = start
    BY <1>1, <2>1, ElapsedStays
  <2>7. ASSUME NEW u \in queue', u.type \in MessageTypes
        PROVE  Fit(u)'
    <3>1. Fit(u) /\ u \in Task
      BY <1>1, <1>4, <2>1, <2>7 DEF Letters
    <3>2. Arrival(u) >= Arrival(u)
      <4>1. conf.o \in Nat /\ conf.g \in Nat /\ conf.L \in Nat /\ u.time \in Nat
        BY <3>1, CollectiveType DEF IsConfiguration, Task
      <4> QED BY <4>1 DEF Arrival, Remaining, Effort, LaterOf
    <3> QED BY <1>1, <2>3, <2>6, <3>1, <3>2, FitLater
  <2>8. Letters'
    BY <2>7 DEF Letters
  <2> QED BY <2>4, <2>5, <2>8
<1>7. ASSUME NEW t \in Upcoming, Passes(t), Heap(t, {}), UNCHANGED cvars
      PROVE  RootInv' /\ Letters' /\ Rounds' /\ DoneOver'
  <2>1. local' = local /\ start' = start /\ done' = done
    BY <1>7 DEF cvars
  <2>2. PICK n, asked : n = 0 /\ asked = {} /\ Heap(t, asked)
    BY <1>7
  <2>3. t.type # "RecvEnd"
    BY <1>7 DEF Passes, DelaySend, DelayRecv, Msg, Failure
  <2>4. Reached' = Reached
    BY <1>1, <2>1 DEF Reached
  <2>5. Headed \subseteq Headed'
    BY <1>1, <2>2, <2>3, <2>4, HeadedStays
  <2>6. Steady(n, t, asked)
    BY <2>1, <2>2, <2>3 DEF Steady
  <2>7. PICK at \in Nat : at = now'
    BY <1>1
  <2>8. Advances(n, at, asked)
    BY <1>3, <1>5, <2>2, <2>5, <2>6, SteadyAdvances
  <2>9. local'[0].cur \in Nat /\ local[0].cur \in Nat /\ local'[0].cur >= local[0].cur
    BY <1>5, <2>1 DEF LocalOK, State
  <2>10. RootInv' /\ Rounds' /\ Correctors \subseteq Correctors'
    BY <1>1, <1>3, <1>5, <2>1, <2>2, <2>4, <2>5, <2>8, <2>9, NodesStay
  <2>11. \A i \in 1 .. Last : Elapsed(i) => Elapsed(i)' /\ start' = start
    BY <1>1, <2>1, ElapsedStays
  <2>12. Letters'
    BY <1>1, <1>3, <1>4, <1>5, <2>2, <2>7, <2>10, <2>11, LettersStay
  <2>13. DoneOver'
    BY <1>1, <1>4, <2>1 DEF DoneOver
  <2> QED BY <2>10, <2>12, <2>13
<1>8. ASSUME NEW t \in Upcoming, NEW draw \in Draws(NotifiedNode(t), t), NEW out,
             RootBegins(NotifiedNode(t), t), t.type \in DOMAIN Priority \ {"Msg", "Failure"},
             Answers(t, NotifiedNode(t), draw, out)
      PROVE  RootInv' /\ Letters' /\ Rounds' /\ DoneOver'
  <2>1. PICK n : n = NotifiedNode(t) /\ AnswerOf(t, n, out)
    BY <1>1, <1>8, AnswerIs
  <2>2. /\ out = CombinerDispatch(n, t, Clock(t), draw) /\ draw \in Draws(n, t)
        /\ RootBegins(n, t) /\ draw \in Node /\ n \in Node
    BY <1>8, <2>1, UpcomingType DEF Answers, Draws
  <2>3. PICK at \in Nat : \E asked :
          /\ Hears(n, t, at, asked)
          /\ \/ Steady(n, t, asked)
             \/ \E inner : /\ inner = PhaseDispatch(conf.phases[local[n].cur], n, local[n], t, at, draw)
                           /\ Moves(n, t, at, asked, inner)
    BY <1>1, <2>1, <2>2, AnswerParts
  <2>4. PICK asked :
          /\ Hears(n, t, at, asked)
          /\ \/ Steady(n, t, asked)
             \/ \E inner : /\ inner = PhaseDispatch(conf.phases[local[n].cur], n, local[n], t, at, draw)
                           /\ Moves(n, t, at, asked, inner)
    BY <2>3
  <2>5. DoneOver' /\ \A m \in Node : local'[m].cur \in Nat /\ local[m].cur \in Nat /\ local'[m].cur >= local[m].cur
    BY <1>1, <1>4, <2>1, <2>2, StepDone
  <2>6. Reached \subseteq Reached' /\ (t.type = "RecvEnd" => n \in Reached') /\ n \in Live
    BY <2>1 DEF AnswerOf
  <2>7. local'[0].cur \in Nat /\ local[0].cur \in Nat /\ local'[0].cur >= local[0].cur
    BY <1>5, <2>5
  <2>8. RootInv' /\ Letters' /\ Rounds'
    BY <1>1, <1>3, <2>2, <2>4, <2>6, <2>7, AnswerCover
  <2> QED BY <2>5, <2>8
<1> QED BY <1>6, <1>7, <1>8, StepCases

LEMMA InitCover ==
  ASSUME NEW first \in Nat, CStart(first)
  PROVE  CoverInv
<1>1. /\ CInv /\ TypeOK /\ LocalOK
  BY StartCInv DEF CInv, IInv
<1>2. SUFFICES ASSUME Correcting PROVE RootInv /\ Letters /\ Rounds /\ DoneOver
  BY DEF CoverInv
<1>3. 0 \in Node /\ 0 \in Live /\ Last \in Nat \ {0} /\ conf.P \in Nat
  BY <1>1, <1>2, CorrectingType, CollectiveType
<1>4. local = [n \in Node |-> InitialState(n \in FirstReached, Len(conf.receivers[n]))] /\ done = {}
  BY DEF CStart
<1>5. 0 \in FirstReached
  <2>1. \A i \in 1 .. Last : conf.phases[i].kind # "ReductionDepInit"
    BY <1>1, <1>2, PhaseOrder DEF Correcting
  <2> QED BY <2>1 DEF FirstReached
<1>6. \A n \in Node : /\ local[n].cur = 1 /\ local[n].left = Ring /\ local[n].right = Ring
                      /\ local[n].reached <=> n \in FirstReached
  BY <1>4 DEF InitialState
<1>7. \A u \in queue : u.type \in {"Init", "Failure"} /\ u.time = 0
  BY DEF CStart, QStart, AllAdmitted, Admitted
<1>8. RootInv
  <2>1. 0 \in Reached
    BY <1>3, <1>5, <1>6 DEF Reached
  <2>2. ~ (local[0].cur > Last)
    BY <1>3, <1>6
  <2> QED BY <1>7, <2>1, <2>2 DEF RootInv
<1>9. Letters
  BY <1>7 DEF Letters, MessageTypes
<1>10. ASSUME NEW n \in Node
       PROVE  Round(n, local[n], Headed, Correctors)
  <2>1. local[n].left = Ring /\ local[n].right = Ring
    BY <1>6
  <2>2. Ring.offset = 0 /\ Ring.minRecv = IntMax
    BY DEF Ring
  <2>3. Border(n, "left") \in Nat \ {0} /\ Border(n, "right") \in Nat \ {0}
    BY <1>3 DEF Border, Node
  <2>4. Sent(n, "left", Ring, Headed) /\ Sent(n, "right", Ring, Headed)
    BY <2>2, <2>3 DEF Sent
  <2>5. ~ (Ring.minRecv < IntMax)
    BY <2>2 DEF IntMax
  <2> QED BY <2>1, <2>4, <2>5 DEF Round
<1> QED BY <1>4, <1>8, <1>9, <1>10 DEF Rounds, DoneOver

CoveredInv == TimedInv /\ Crossing /\ CoverInv
LEMMA CoverInvariant == RepeatedSpec => []CoveredInv
<1>1. CStarted => CoverInv
  BY InitCover DEF CStarted
<1>2. TimedInv /\ TimedInv' /\ CoverInv /\ [CNext]_vars => CoverInv'
  BY StepCover DEF TimedInv, CompInv, CInv, IInv
<1> QED BY <1>1, <1>2, TimedInvariant, CrossingInvariant, PTL DEF RepeatedSpec, CoveredInv

-----------------------------------------------------------------------------
(***************************************************************************)
(* The end.  Between a node that is through with its correction and the    *)
(* next one that is, everybody is headed for: what it sent to the right    *)
(* got as far as the one it heard of, or to the root, or met what it sent  *)
(* to the left.                                                            *)
(***************************************************************************)
LEMMA Gapless ==
  ASSUME TypeOK, conf.P > 1, NEW c \in Node, NEW s \in State, NEW headed, NEW by, Round(c, s, headed, by),
         Exhausted(conf, s), RingsFine(s), NEW x \in Node, c < x,
         \A m \in by : m \in Node /\ ~ (c < m /\ m <= x)
  PROVE  x \in headed
<1>1. PICK P \in Nat : P = conf.P /\ P > 1 /\ P <= IntMax /\ c \in 0 .. P - 1 /\ x \in 0 .. P - 1
  BY CollectiveType DEF IsCollective, Node
<1>2. PICK k \in 1 .. P - 1, j \in c + 1 .. P : k = x - c /\ j = P - k
  <2>1. x - c \in 1 .. P - 1 /\ P - (x - c) \in c + 1 .. P
    BY <1>1
  <2> QED BY <2>1
<1>3. PICK lo \in Nat, lm \in Nat, ro \in Nat, rm \in Nat :
        lo = s.left.offset /\ lm = s.left.minRecv /\ ro = s.right.offset /\ rm = s.right.minRecv
  BY DEF State, RingState
<1>4. SUFFICES ASSUME x \notin headed PROVE FALSE
  OBVIOUS
<1>5. Border(c, "left") = c + 1 /\ Border(c, "right") = P - c
  BY <1>1 DEF Border
<1>6. Neighbour(conf, c, "right", k) = x /\ Neighbour(conf, c, "left", j) = x
  <2>1. c + k = x /\ k \in Nat /\ j \in Nat /\ c - j + P = x /\ j \in c + 1 .. conf.P
    BY <1>1, <1>2
  <2> QED BY <1>1, <2>1, Walk
<1>7. ro < k
  <2>1. SUFFICES ASSUME k \in 1 .. ro PROVE FALSE
    BY <1>2, <1>3
  <2>2. k = P - c
    BY <1>3, <1>4, <1>5, <1>6, <2>1 DEF Round, Sent
  <2> QED BY <1>1, <1>2, <2>2
<1>8. ~ Options.overRoot => ro # P - c
  BY <1>1, <1>2, <1>7
<1>9. rm > ro
  <2>1. SUFFICES ASSUME rm <= ro PROVE FALSE
    BY <1>3
  <2>2. rm > 0 /\ rm < IntMax
    <3>1. IntMax \in Nat
      BY DEF IntMax
    <3>2. rm > 0
      BY <1>3 DEF RingsFine
    <3> QED BY <1>1, <1>2, <1>7, <2>1, <3>1, <3>2
  <2>3. Neighbour(conf, c, "right", rm) = c + rm
    BY <1>1, <1>2, <1>7, <2>1, Walk
  <2>4. c + rm \in by
    BY <1>3, <1>5, <1>8, <2>2, <2>3 DEF Round
  <2>5. c < c + rm /\ c + rm <= x
    BY <1>1, <1>2, <1>7, <2>1, <2>2
  <2> QED BY <2>4, <2>5
<1>10. lo + ro >= P
  BY <1>1, <1>3, <1>9 DEF Exhausted, Active
<1>11. j \in 1 .. lo
  BY <1>1, <1>2, <1>7, <1>10
<1>12. ~ Options.overRoot /\ j = c + 1 /\ lo <= c + 1
  BY <1>3, <1>4, <1>5, <1>6, <1>11 DEF Round, Sent
<1> QED BY <1>1, <1>2, <1>7, <1>10, <1>12

LEMMA GreatestBelow ==
  ASSUME NEW x \in Nat, NEW S \in SUBSET Nat, NEW a \in S, a < x
  PROVE  \E c \in S : c < x /\ \A m \in S : ~ (c < m /\ m < x)
<1>1. PICK D : D = {x - m : m \in {m \in S : m < x}}
  OBVIOUS
<1>2. D \in SUBSET Nat /\ D # {}
  BY <1>1
<1>3. PICK k \in D : \A y \in D : k <= y
  BY <1>2, LeastNatural
<1>4. PICK c \in S : c < x /\ k = x - c
  BY <1>1, <1>3
<1>5. ASSUME NEW m \in S, c < m, m < x
      PROVE  FALSE
  <2>1. x - m \in D
    BY <1>1, <1>5
  <2> QED BY <1>3, <1>4, <1>5, <2>1
<1> QED BY <1>4, <1>5

(* When nothing is left to do whoever corrects itself is through with it.  *)
LEMMA EndExhausts ==
  ASSUME CoveredInv, Correcting, status = "done"
  PROVE  /\ \A c \in Correctors : Exhausted(conf, local[c])
         /\ 0 \in Correctors
<1>1. TypeOK /\ LocalOK /\ Guided /\ Counted /\ RootInv /\ DoneOver
  BY DEF CoveredInv, TimedInv, CompInv, CInv, IInv, CoverInv
<1>2. queue = {} /\ \A n \in Node : ~ pending[n]
  BY <1>1 DEF Counted
<1>3. Last \in Nat \ {0} /\ 0 \in Live /\ conf.phases[Last].kind = "Checked"
  BY <1>1, CorrectingType
<1>4. Live \subseteq Node
  BY DEF Live
<1>5. ASSUME NEW n \in Live, n \in Reached
      PROVE  local[n].cur > Last
  <2>1. CASE n \in done
    BY <1>1, <2>1 DEF DoneOver
  <2>2. CASE n \notin done
    <3>1. local[n].cur \in 1 .. Last
      BY <1>1, <1>3, <1>4, <1>5, <2>2 DEF Guided, Guide, LocalOK
    <3>2. conf.phases[local[n].cur].kind # "Gather"
      BY <1>1, <1>3, <3>1, CorrectingType
    <3>3. Cued(n, conf.phases[local[n].cur])
      BY <1>1, <1>5, <2>2, <3>2 DEF Guided, Guide
    <3> QED BY <1>2, <1>4, <3>3 DEF Cued
  <2> QED BY <2>1, <2>2
<1>6. ASSUME NEW c \in Correctors
      PROVE  Exhausted(conf, local[c])
  <2>1. c \in Live /\ c \in Reached /\ Through(local[c])
    BY DEF Correctors
  <2>2. local[c].cur > Last
    BY <1>5, <2>1
  <2>3. local[c].cur # Last
    BY <1>3, <2>2
  <2> QED BY <2>1, <2>3 DEF Through
<1>7. 0 \in Correctors
  <2>1. 0 \in Reached
    BY <1>1 DEF RootInv
  <2>2. local[0].cur > Last
    BY <1>3, <1>5, <2>1
  <2>3. Through(local[0])
    BY <1>1, <2>2 DEF RootInv, Through
  <2> QED BY <1>3, <2>1, <2>3 DEF Correctors
<1> QED BY <1>6, <1>7

LEMMA EndCovers ==
  ASSUME CoveredInv, Correcting, status = "done"
  PROVE  Live \subseteq Reached
<1>1. /\ TypeOK /\ LocalOK /\ Counted /\ Rounds /\ CompInv /\ conf.P > 1
      /\ \A n \in Node : RingsFine(local[n])
  BY DEF CoveredInv, TimedInv, CompInv, CInv, IInv, CoverInv, Crossing, RingInv, Correcting
<1>2. queue = {}
  BY <1>1 DEF Counted
<1>3. SUFFICES ASSUME NEW x \in Live, x \notin Reached PROVE FALSE
  OBVIOUS
<1>4. x \in Node /\ x \notin conf.failed
  BY DEF Live
<1>5. x \notin Headed
  BY <1>2, <1>3, <1>4 DEF Headed, Toward
<1>6. 0 \in Correctors /\ \A c \in Correctors : Exhausted(conf, local[c])
  BY EndExhausts
<1>7. /\ Correctors \subseteq Node /\ Correctors \in SUBSET Nat /\ x \in Nat /\ x \notin Correctors
      /\ x # 0 /\ 0 < x
  <2>1. Node \subseteq Nat
    BY <1>1, CollectiveType DEF Node
  <2>2. Correctors \subseteq Node /\ x \notin Correctors
    BY <1>3 DEF Correctors, Reached
  <2> QED BY <1>4, <1>6, <2>1, <2>2
<1>8. PICK c \in Correctors : c < x /\ \A m \in Correctors : ~ (c < m /\ m < x)
  BY <1>6, <1>7, GreatestBelow
<1>9. c \in Node /\ local[c] \in State
  BY <1>1, <1>7 DEF LocalOK
<1>10. \A m \in Correctors : m \in Node /\ ~ (c < m /\ m <= x)
  <2> SUFFICES ASSUME NEW m \in Correctors PROVE m \in Node /\ ~ (c < m /\ m <= x)
    OBVIOUS
  <2>1. m \in Nat /\ c \in Nat /\ m # x
    BY <1>7
  <2> QED BY <1>7, <1>8, <2>1
<1>11. Round(c, local[c], Headed, Correctors)
  BY <1>1, <1>9 DEF Rounds
<1>12. Exhausted(conf, local[c]) /\ RingsFine(local[c])
  BY <1>1, <1>6, <1>9
<1>13. x \in Headed
  BY <1>1, <1>4, <1>8, <1>9, <1>10, <1>11, <1>12, Gapless
<1> QED BY <1>5, <1>13

LEMMA CheckedCorrectsAgain ==
  RepeatedSpec => [](conf.P > 1 /\ conf.o + conf.g + conf.L > 0 => CheckedReachesAll)
<1>1. CoveredInv => (conf.P > 1 /\ conf.o + conf.g + conf.L > 0 => CheckedReachesAll)
  <2> SUFFICES ASSUME CoveredInv, conf.P > 1, conf.o + conf.g + conf.L > 0, status = "done",
                      0 \in Live, Options.kind = "Checked"
               PROVE  Live \subseteq finished
    BY DEF CheckedReachesAll
  <2>1. TypeOK /\ CompInv
    BY DEF CoveredInv, TimedInv, CompInv, CInv, IInv
  <2>2. Remaining("SendStart") > 0
    <3>1. conf.o \in Nat /\ conf.g \in Nat /\ conf.L \in Nat
      BY <2>1, CollectiveType DEF IsConfiguration
    <3>2. Effort \in Nat /\ Effort >= conf.o /\ Effort >= conf.g
      BY <3>1 DEF Effort, LaterOf
    <3>3. Remaining("SendStart") = 2 * Effort + conf.L
      BY DEF Remaining
    <3> QED BY <3>1, <3>2, <3>3
  <2>3. Correcting
    BY <2>2 DEF Correcting
  <2>4. Live \subseteq Reached
    BY <2>3, EndCovers
  <2>5. finished = Live \cap Reached
    BY <2>1, EndCounts DEF StatisticsAgree
  <2> QED BY <2>4, <2>5
<1> QED BY <1>1, CoverInvariant, PTL

(***************************************************************************)
(* Checked correction does what it promises: on a machine of several nodes *)
(* where messages take time, every live node is reached and finishes if    *)
(* the root works, whichever other nodes failed and however the tree or    *)
(* the gossip before it went.                                              *)
(***************************************************************************)
THEOREM CheckedCorrects ==
  CSpec => [](conf.P > 1 /\ conf.o + conf.g + conf.L > 0 => CheckedReachesAll)
BY OneCollective, CheckedCorrectsAgain, PTL

-----------------------------------------------------------------------------
(***************************************************************************)
(* Opportunistic correction behind a tree that forwards, and no phase      *)
(* waits for a time.  What node n has sent to the left and to the right is *)
(* headed for, but for what lies beyond the root; and whoever is through   *)
(* the collective has covered all its neighbours, as a message of the      *)
(* correction that comes early goes on to the correction, and nobody       *)
(* leaves the collective otherwise.                                        *)
(***************************************************************************)
Lands(n, i) == IF Options.overRoot THEN (n + i + conf.P) % conf.P ELSE n + i
Circled(n, s, headed) ==
  \A i \in Int : /\ (- s.sentLeft <= i /\ i < 0) \/ (0 < i /\ i <= s.sentRight)
                 /\ Lands(n, i) \in Node
                 => Lands(n, i) \in headed
Forwarding ==
  /\ Options.kind = "Opportunistic" /\ ~ Options.optimised
  /\ \A i \in 1 .. Last : ~ Timed(conf.phases[i]) /\ (conf.phases[i].kind = "Tree" => conf.phases[i].forward)
Circles ==
  \A n \in Live : Circled(n, local[n], Headed) /\ (local[n].cur > Last => Covered(conf, local[n]))
CircleInv == Forwarding => Circles

LEMMA CircledMore ==
  ASSUME NEW n, NEW s, NEW r, NEW headed, NEW more, Circled(n, s, headed), headed \subseteq more,
         r.sentLeft = s.sentLeft, r.sentRight = s.sentRight
  PROVE  Circled(n, r, more)
BY DEF Circled

(* One message further. *)
LEMMA CircledNext ==
  ASSUME TypeOK, NEW n \in Node, NEW s \in State, NEW headed, Circled(n, s, headed),
         NEW goLeft \in BOOLEAN, NEW next \in State,
         next.sentLeft = (IF goLeft THEN s.sentLeft + 1 ELSE s.sentLeft),
         next.sentRight = (IF goLeft THEN s.sentRight ELSE s.sentRight + 1),
         NEW i \in Int, i = (IF goLeft THEN - next.sentLeft ELSE next.sentRight),
         NEW more, headed \subseteq more, Lands(n, i) \in Node => Lands(n, i) \in more
  PROVE  Circled(n, next, more)
<1>1. s.sentLeft \in Nat /\ s.sentRight \in Nat
  BY DEF State
<1>2. ASSUME NEW j \in Int, (- next.sentLeft <= j /\ j < 0) \/ (0 < j /\ j <= next.sentRight)
      PROVE  j = i \/ (- s.sentLeft <= j /\ j < 0) \/ (0 < j /\ j <= s.sentRight)
  <2>1. CASE goLeft
    BY <1>1, <1>2, <2>1
  <2>2. CASE ~ goLeft
    BY <1>1, <1>2, <2>2
  <2> QED BY <2>1, <2>2
<1>3. ASSUME NEW j \in Int, (- next.sentLeft <= j /\ j < 0) \/ (0 < j /\ j <= next.sentRight), Lands(n, j) \in Node
      PROVE  Lands(n, j) \in more
  BY <1>2, <1>3 DEF Circled
<1> QED BY <1>3 DEF Circled

(* Who answers a task in the correction: it leaves only when it has        *)
(* covered its neighbours.                                                 *)
Circling(n, out, headed) ==
  /\ Circled(n, out.s, headed \cup Targets(out.reqs))
  /\ out.res # "ONGOING" => out.res = "DONE_PHASE" /\ Covered(conf, out.s)

LEMMA AppendTargets ==
  ASSUME NEW reqs, NEW x, reqs \in {<<>>, <<x>>}, NEW wish, wish.type # "SendStart"
  PROVE  Targets(Append(reqs, wish)) = Targets(reqs)
<1>1. reqs \in Seq({x})
  BY Few
<1>2. RangeOf(Append(reqs, wish)) = RangeOf(reqs) \cup {wish}
  BY <1>1, AppendRange
<1> QED BY <1>2 DEF Targets

LEMMA OngoingCircling ==
  ASSUME TypeOK, NEW n \in Node, NEW s \in State, NEW headed, Circled(n, s, headed)
  PROVE  /\ Circling(n, Ongoing(s), headed) /\ Circling(n, CorrectionInit(n, s), headed)
         /\ Circling(n, Outcome("ONGOING", <<IdleRequest(n)>>, [s EXCEPT !.reached = TRUE]), headed)
<1>1. ASSUME NEW out, out.res = "ONGOING", out.s.sentLeft = s.sentLeft, out.s.sentRight = s.sentRight
      PROVE  Circling(n, out, headed)
  BY <1>1, CircledMore DEF Circling
<1>2. Circling(n, Ongoing(s), headed) /\ Circling(n, CorrectionInit(n, s), headed)
  BY <1>1 DEF Ongoing, CorrectionInit, Outcome
<1>3. PICK r : r = [s EXCEPT !.reached = TRUE]
  OBVIOUS
<1>4. r.sentLeft = s.sentLeft /\ r.sentRight = s.sentRight
  BY <1>3 DEF State
<1>5. Circling(n, Outcome("ONGOING", <<IdleRequest(n)>>, r), headed)
  BY <1>1, <1>4 DEF Outcome
<1> QED BY <1>2, <1>3, <1>5

LEMMA IdleCircling ==
  ASSUME TypeOK, NEW n \in Node, NEW s \in State, NEW headed, Circled(n, s, headed), NEW at \in Nat
  PROVE  Circling(n, OpportunisticIdle(conf, Options, n, s, at), headed)
<1>1. PICK goLeft \in BOOLEAN : goLeft <=> s.sentLeft < s.sentRight
  OBVIOUS
<1>2. PICK next \in State : next = IF goLeft THEN [s EXCEPT !.sentLeft = @ + 1] ELSE [s EXCEPT !.sentRight = @ + 1]
  <2>1. PICK k \in Nat, j \in Nat : k = s.sentLeft + 1 /\ j = s.sentRight + 1
    BY DEF State
  <2>2. [s EXCEPT !.sentLeft = k] \in State /\ [s EXCEPT !.sentRight = j] \in State
    BY DEF State
  <2> QED BY <2>1, <2>2
<1>3. /\ next.sentLeft = (IF goLeft THEN s.sentLeft + 1 ELSE s.sentLeft)
      /\ next.sentRight = (IF goLeft THEN s.sentRight ELSE s.sentRight + 1)
      /\ s.sentLeft \in Nat /\ s.sentRight \in Nat
  BY <1>2 DEF State
<1>4. PICK i \in Int : i = IF goLeft THEN - next.sentLeft ELSE next.sentRight
  BY <1>3
<1>5. PICK m : m = Lands(n, i)
  OBVIOUS
<1>6. PICK x : x = SendRequest(IF goLeft THEN "RING_LEFT" ELSE "RING_RIGHT", at, n, m)
               /\ x.receiver = m /\ x.type = "SendStart"
  <2>1. PICK tag : tag = IF goLeft THEN "RING_LEFT" ELSE "RING_RIGHT"
    OBVIOUS
  <2>2. PICK x : x = SendRequest(tag, at, n, m)
    OBVIOUS
  <2>3. x.receiver = m /\ x.type = "SendStart"
    BY <2>2 DEF SendRequest
  <2> QED BY <2>1, <2>2, <2>3
<1>7. PICK send : send = IF m \in 0 .. conf.P - 1 THEN <<x>> ELSE <<>>
  OBVIOUS
<1>8. m \in Node => m \in Targets(send)
  BY <1>6, <1>7, FewTargets DEF Node
<1>9. Circled(n, next, headed \cup Targets(send))
  <2>1. PICK more : more = headed \cup Targets(send)
    OBVIOUS
  <2>2. headed \subseteq more /\ (Lands(n, i) \in Node => Lands(n, i) \in more)
    BY <1>5, <1>8, <2>1
  <2>3. Circled(n, next, more)
    BY <1>3, <1>4, <2>2, CircledNext
  <2> QED BY <2>1, <2>3
<1>10. Circling(n, CoverOrWait(conf, n, send, next), headed)
  <2>1. PICK wish : wish = IdleRequest(n) /\ wish.type # "SendStart"
    BY QuietRequests
  <2>2. Targets(Append(send, wish)) = Targets(send)
    BY <1>7, <2>1, AppendTargets
  <2>3. CASE Covered(conf, next)
    <3>1. CoverOrWait(conf, n, send, next) = Outcome("DONE_PHASE", send, next)
      BY <2>3 DEF CoverOrWait
    <3> QED BY <1>9, <2>3, <3>1 DEF Circling, Outcome
  <2>4. CASE ~ Covered(conf, next)
    <3>1. CoverOrWait(conf, n, send, next) = Outcome("ONGOING", Append(send, wish), next)
      BY <2>1, <2>4 DEF CoverOrWait
    <3> QED BY <1>9, <2>2, <3>1 DEF Circling, Outcome
  <2> QED BY <2>3, <2>4
<1>11. OpportunisticIdle(conf, Options, n, s, at)
         = IF s.reached THEN CoverOrWait(conf, n, send, next) ELSE Ongoing(s)
  <2>1. PICK direct : direct = IF goLeft THEN n - next.sentLeft ELSE n + next.sentRight
    OBVIOUS
  <2>2. n \in Int /\ next.sentLeft \in Nat /\ next.sentRight \in Nat
    BY <1>3, CollectiveType DEF Node
  <2>3. direct = n + i
    BY <1>4, <2>1, <2>2
  <2>4. m = IF Options.overRoot THEN (direct + conf.P) % conf.P ELSE direct
    BY <1>5, <2>3 DEF Lands
  <2>5. next = IF s.sentLeft < s.sentRight THEN [s EXCEPT !.sentLeft = @ + 1]
               ELSE [s EXCEPT !.sentRight = @ + 1]
    BY <1>1, <1>2
  <2>6. direct = IF s.sentLeft < s.sentRight THEN n - next.sentLeft ELSE n + next.sentRight
    BY <1>1, <2>1
  <2>7. x = SendRequest(IF s.sentLeft < s.sentRight THEN "RING_LEFT" ELSE "RING_RIGHT", at, n, m)
    BY <1>1, <1>6
  <2> QED BY <1>7, <2>4, <2>5, <2>6, <2>7 DEF OpportunisticIdle
<1> QED BY <1>10, <1>11, OngoingCircling

LEMMA CorrectionCircling ==
  ASSUME TypeOK, ~ Options.optimised, NEW n \in Node, NEW s \in State, NEW headed, Circled(n, s, headed),
         NEW t, NEW at \in Nat
  PROVE  Circling(n, OpportunisticDispatch(conf, Options, n, s, t, at), headed)
<1>1. t.type = "RecvEnd" => OpportunisticRecvEnd(conf, Options, n, s, t)
                              = Outcome("ONGOING", <<IdleRequest(n)>>, [s EXCEPT !.reached = TRUE])
  BY DEF OpportunisticRecvEnd
<1> QED BY <1>1, OngoingCircling, IdleCircling DEF OpportunisticDispatch

(* The phases before. *)
LEMMA ForwardingType ==
  ASSUME TypeOK, Forwarding
  PROVE  /\ Last \in Nat \ {0} /\ FirstReached = {0}
         /\ \A i \in 1 .. Last : /\ ~ conf.phases[i].exclusive
                                 /\ i < Last => conf.phases[i].kind \in {"DepInit", "Tree"}
<1>1. Last \in Nat \ {0} /\ Last \in 1 .. Last
  BY PhasesType
<1>2. ASSUME NEW i \in 1 .. Last
      PROVE  /\ ~ conf.phases[i].exclusive /\ conf.phases[i].kind # "ReductionDepInit"
             /\ i < Last => conf.phases[i].kind \in {"DepInit", "Tree"}
  <2>1. ~ conf.phases[i].exclusive /\ conf.phases[i].kind # "Gossip" /\ conf.phases[i].kind \in Kinds
    BY PhasesType DEF Forwarding, Timed
  <2>2. conf.phases[i].kind # "ReductionDepInit"
    BY PhaseOrder DEF Forwarding
  <2>3. i < Last => conf.phases[i].kind \notin {"Checked", "Opportunistic", "Gather", "MultiTree"}
    BY <1>1, PhaseOrder
  <2> QED BY <2>1, <2>2, <2>3 DEF Kinds, Stage
<1> QED BY <1>1, <1>2 DEF FirstReached

LEMMA BeforeForwards ==
  ASSUME TypeOK, LocalOK, Forwarding, NEW cur \in 1 .. Last, cur < Last, NEW n \in Node, NEW s \in State,
         NEW t \in Task, NEW at \in Nat, NEW draw \in Node, NEW inner,
         inner = PhaseDispatch(conf.phases[cur], n, s, t, at, draw)
  PROVE  /\ inner.s.sentLeft = s.sentLeft /\ inner.s.sentRight = s.sentRight
         /\ inner.res \in {"ONGOING", "DONE_PHASE", "DONE_FORWARD"}
<1>1. PICK ph : ph = conf.phases[cur] /\ ph.kind \in {"DepInit", "Tree"} /\ ~ ph.exclusive
                /\ (ph.kind = "Tree" => ph.forward)
  BY ForwardingType DEF Forwarding
<1>2. start \in Nat /\ ph.exclusive \in BOOLEAN
  BY <1>1, PhasesType DEF LocalOK
<1>3. OnlyReached(s, inner.s)
  BY <1>1, <1>2, EarlyState
<1>4. inner.s.sentLeft = s.sentLeft /\ inner.s.sentRight = s.sentRight
  BY <1>3 DEF OnlyReached, State
<1>5. CASE ph.kind = "DepInit"
  <2>1. inner = DepInitDispatch(s, t)
    BY <1>1, <1>5 DEF PhaseDispatch, PlainDispatch
  <2> QED BY <1>4, <2>1 DEF DepInitDispatch, Outcome, Ongoing
<1>6. CASE ph.kind = "Tree"
  <2>1. inner = TreeDispatch(conf, ph, n, s, t, at)
    BY <1>1, <1>6 DEF PhaseDispatch, PlainDispatch
  <2>2. inner.res \in {"ONGOING", "DONE_PHASE", "DONE_FORWARD"}
    BY <1>1, <1>6, <2>1 DEF TreeDispatch, TreeInit, TreeRecvEnd, Outcome, Ongoing
  <2> QED BY <1>4, <2>2
<1> QED BY <1>1, <1>5, <1>6

(* The node that hears of a task. *)
LEMMA TurnCircles ==
  ASSUME TypeOK, LocalOK, LocalOK', Senders, conf' = conf, Forwarding, Circles,
         NEW t \in Upcoming, NEW n \in Live, NEW at, NEW draw, NEW asked, Turn(t, n, at, draw, asked)
  PROVE  Circled(n, local'[n], Headed') /\ (local'[n].cur > Last => Covered(conf, local'[n]))
<1>1. /\ n \in Node /\ at \in Nat /\ draw \in Node /\ t \in Task /\ local[n] \in State /\ Headed \subseteq Headed'
      /\ \A r \in asked : r.type = "SendStart" /\ r.receiver \in Node => r.receiver \in Headed'
  <2>1. n \in Node
    BY DEF Live
  <2> QED BY <2>1, TurnKeeps, UpcomingType DEF Turn
<1>2. Circled(n, local[n], Headed) /\ (local[n].cur > Last => Covered(conf, local[n]))
  BY DEF Circles
<1>3. CASE Steady(n, t, asked)
  BY <1>1, <1>2, <1>3, CircledMore DEF Steady, Covered
<1>4. CASE ~ Steady(n, t, asked)
  <2>1. PICK inner : /\ inner = PhaseDispatch(conf.phases[local[n].cur], n, local[n], t, at, draw)
                     /\ Moves(n, t, at, asked, inner)
    BY <1>4 DEF Turn
  <2>2. /\ local[n].cur \in 1 .. Last /\ local'[n].cur = NextPhase(local[n].cur, inner.res)
        /\ local'[n].sentLeft = inner.s.sentLeft /\ local'[n].sentRight = inner.s.sentRight
        /\ RangeOf(inner.reqs) \subseteq asked
    BY <2>1 DEF Moves
  <2>3. CASE local[n].cur < Last
    <3>1. /\ inner.s.sentLeft = local[n].sentLeft /\ inner.s.sentRight = local[n].sentRight
          /\ inner.res \in {"ONGOING", "DONE_PHASE", "DONE_FORWARD"}
      BY <1>1, <2>1, <2>2, <2>3, BeforeForwards
    <3>2. Circled(n, local'[n], Headed')
      BY <1>1, <1>2, <2>2, <3>1, CircledMore
    <3>3. ~ (local'[n].cur > Last)
      <4>1. local'[n].cur \in {local[n].cur, local[n].cur + 1}
        BY <2>2, <3>1 DEF NextPhase
      <4> QED BY <2>2, <2>3, <4>1, ForwardingType
    <3> QED BY <3>2, <3>3
  <2>4. CASE local[n].cur = Last
    <3>1. inner = OpportunisticDispatch(conf, Options, n, local[n], t, at)
      <4>1. PICK ph : ph = Options /\ ph = conf.phases[local[n].cur] /\ ph.kind = "Opportunistic" /\ ~ ph.exclusive
        BY <2>2, <2>4, ForwardingType DEF Forwarding, Options
      <4> QED BY <2>1, <4>1 DEF PhaseDispatch, PlainDispatch
    <3>2. Circling(n, inner, Headed)
      BY <1>1, <1>2, <3>1, CorrectionCircling DEF Forwarding
    <3>3. \A m \in Targets(inner.reqs) : m \in Node => m \in Headed'
      BY <1>1, <2>2 DEF Targets
    <3>4. Circled(n, inner.s, Headed')
      BY <1>1, <3>2, <3>3 DEF Circling, Circled
    <3>5. Circled(n, local'[n], Headed')
      BY <2>2, <3>4, CircledMore
    <3>6. ASSUME local'[n].cur > Last PROVE Covered(conf, local'[n])
      <4>1. inner.res # "ONGOING"
        BY <2>2, <2>4, <3>6, ForwardingType DEF NextPhase
      <4> QED BY <2>2, <3>2, <4>1 DEF Circling, Covered
    <3> QED BY <3>5, <3>6
  <2> QED BY <2>2, <2>3, <2>4, ForwardingType
<1> QED BY <1>3, <1>4

LEMMA StepCircles ==
  ASSUME TypeOK, LocalOK, LocalOK', StartUp, Senders, OneWait, CircleInv, [CNext]_vars
  PROVE  CircleInv'
<1>1. conf' = conf
  BY StepLocal
<1>2. (Forwarding' <=> Forwarding) /\ Last' = Last /\ Live' = Live
  BY <1>1 DEF Forwarding, Options, Last, Timed, Live, Node
<1>3. SUFFICES ASSUME Forwarding PROVE Circles'
  BY <1>2 DEF CircleInv
<1>4. Circles
  BY <1>3 DEF CircleInv
<1>5. SUFFICES ASSUME NEW m \in Live
               PROVE  Circled(m, local'[m], Headed') /\ (local'[m].cur > Last => Covered(conf, local'[m]))
  BY <1>1, <1>2 DEF Circles, Circled, Lands, Options, Last, Node, Covered, LeftDist, RightDist
<1>6. m \in Node /\ Circled(m, local[m], Headed) /\ (local[m].cur > Last => Covered(conf, local[m]))
  BY <1>4 DEF Circles, Live
<1>7. CASE Rests
  <2>1. local' = local /\ Headed' = Headed
    BY <1>7 DEF Rests, cvars, Reached, Node, Headed, Toward
  <2> QED BY <1>6, <2>1
<1>8. ASSUME NEW t \in Upcoming, NEW n, NEW at, NEW draw, NEW asked, Turn(t, n, at, draw, asked)
      PROVE  Circled(m, local'[m], Headed') /\ (local'[m].cur > Last => Covered(conf, local'[m]))
  <2>1. CASE m = n
    BY <1>1, <1>3, <1>4, <1>8, <2>1, TurnCircles
  <2>2. CASE m # n
    <3>1. local'[m] = local[m]
      BY <1>6, <1>8, <2>2 DEF Turn
    <3>2. Headed \subseteq Headed'
      BY <1>1, <1>8, TurnKeeps
    <3> QED BY <1>6, <3>1, <3>2, CircledMore
  <2> QED BY <2>1, <2>2
<1> QED BY <1>7, <1>8, StepTurns

LEMMA InitCircles ==
  ASSUME NEW first \in Nat, CStart(first)
  PROVE  CircleInv
<1>1. TypeOK /\ LocalOK
  BY StartCInv DEF CInv, IInv
<1>2. Last \in Nat \ {0}
  BY <1>1, PhasesType
<1>3. ASSUME NEW n \in Live
      PROVE  local[n].cur = 1 /\ local[n].sentLeft = 0 /\ local[n].sentRight = 0
  <2>1. local[n] = InitialState(n \in FirstReached, Len(conf.receivers[n]))
    BY DEF CStart, Live
  <2> QED BY <2>1 DEF InitialState
<1>4. ASSUME NEW n \in Live
      PROVE  Circled(n, local[n], Headed) /\ ~ (local[n].cur > Last)
  BY <1>2, <1>3 DEF Circled
<1> QED BY <1>4 DEF CircleInv, Circles

LEMMA CircleInvariant == RepeatedSpec => [](CompInv /\ SpreadInv /\ CircleInv)
<1>1. CStarted => CircleInv
  BY InitCircles DEF CStarted
<1>2. CompInv /\ CircleInv /\ [CNext]_vars => CircleInv'
  <2> SUFFICES ASSUME CompInv, CircleInv, [CNext]_vars PROVE CircleInv'
    OBVIOUS
  <2>1. TypeOK /\ LocalOK /\ StartUp /\ Senders /\ OneWait
    BY DEF CompInv, CInv, IInv
  <2>2. LocalOK'
    BY <2>1, StepLocal
  <2> QED BY <2>1, <2>2, StepCircles
<1> QED BY <1>1, <1>2, SpreadInvariant, PTL DEF RepeatedSpec

(* In the end nobody waits in a phase and no message is underway.          *)
LEMMA EndCircles ==
  ASSUME CompInv, SpreadInv, CircleInv, Forwarding, status = "done", NEW n \in Reached \cap Live
  PROVE  Neighbourhood(n) \cap Live \subseteq Reached
<1>1. TypeOK /\ LocalOK /\ Guided /\ Counted /\ DoneOver
  BY DEF CompInv, CInv, IInv, SpreadInv
<1>2. queue = {} /\ \A m \in Node : ~ pending[m]
  BY <1>1 DEF Counted
<1>3. n \in Node /\ local[n] \in State /\ Last \in Nat \ {0}
  BY <1>1, ForwardingType DEF LocalOK, Live
<1>4. local[n].cur > Last
  <2>1. CASE n \in done
    BY <1>1, <2>1 DEF DoneOver
  <2>2. CASE n \notin done
    <3>1. local[n].cur \in 1 .. Last
      BY <1>1, <1>3, <2>2 DEF Guided, Guide, LocalOK
    <3>2. conf.phases[local[n].cur].kind # "Gather"
      <4>1. PICK i \in 1 .. Last : i = local[n].cur
        BY <3>1
      <4>2. i < Last \/ conf.phases[i].kind = "Opportunistic"
        BY <1>3, <4>1 DEF Forwarding, Options
      <4> QED BY <1>1, <4>1, <4>2, ForwardingType
    <3>3. Cued(n, conf.phases[local[n].cur])
      BY <1>1, <2>2, <3>2 DEF Guided, Guide
    <3> QED BY <1>2, <1>3, <3>3 DEF Cued
  <2> QED BY <2>1, <2>2
<1>5. PICK left \in Nat, right \in Nat : left = LeftDist(conf) /\ right = RightDist(conf)
  BY <1>1, Distances
<1>6. /\ Circled(n, local[n], Headed) /\ local[n].sentLeft \in Nat /\ local[n].sentRight \in Nat
      /\ local[n].sentLeft >= left /\ local[n].sentRight >= right
  BY <1>3, <1>4, <1>5 DEF CircleInv, Circles, Covered, State
<1>7. ASSUME NEW i \in - left .. right, Lands(n, i) \in Live
      PROVE  Lands(n, i) \in Reached
  <2>1. CASE i = 0
    <3>1. conf.P \in Nat \ {0} /\ n \in 0 .. conf.P - 1
      BY <1>1, <1>3, CollectiveType DEF Node
    <3>2. (n + 0 + conf.P) % conf.P = n
      BY <3>1
    <3>3. Lands(n, i) = n
      BY <2>1, <3>1, <3>2 DEF Lands
    <3> QED BY <3>3
  <2>2. CASE i # 0
    <3>1. Lands(n, i) \in Headed
      BY <1>6, <1>7, <2>2 DEF Circled, Live
    <3> QED BY <1>2, <1>7, <3>1 DEF Headed, Toward, Live
  <2> QED BY <2>1, <2>2
<1>8. ASSUME NEW m \in Neighbourhood(n)
      PROVE  \E i \in - left .. right : m = Lands(n, i)
  <2>1. PICK near : near = {n + i : i \in - left .. right}
    OBVIOUS
  <2>2. Neighbourhood(n) = IF Options.overRoot THEN {(k + conf.P) % conf.P : k \in near} ELSE near
    BY <1>5, <2>1 DEF Neighbourhood
  <2>3. CASE Options.overRoot
    <3>1. PICK k \in near : m = (k + conf.P) % conf.P
      BY <1>8, <2>2, <2>3
    <3>2. PICK i \in - left .. right : k = n + i
      BY <2>1
    <3> QED BY <2>3, <3>1, <3>2 DEF Lands
  <2>4. CASE ~ Options.overRoot
    <3>1. PICK i \in - left .. right : m = n + i
      BY <1>8, <2>1, <2>2, <2>4
    <3> QED BY <2>4, <3>1 DEF Lands
  <2> QED BY <2>3, <2>4
<1> QED BY <1>7, <1>8

LEMMA ForwardingCoversAgain ==
  RepeatedSpec => []((\A i \in 1 .. Last : ~ conf.phases[i].exclusive /\ conf.phases[i].kind # "Gossip")
                => NeighboursCovered)
<1>1. CompInv /\ SpreadInv /\ CircleInv =>
        ((\A i \in 1 .. Last : ~ conf.phases[i].exclusive /\ conf.phases[i].kind # "Gossip")
           => NeighboursCovered)
  <2> SUFFICES ASSUME CompInv, SpreadInv, CircleInv,
                      \A i \in 1 .. Last : ~ conf.phases[i].exclusive /\ conf.phases[i].kind # "Gossip",
                      status = "done", Options.kind = "Opportunistic", ~ Options.optimised,
                      NEW i \in 1 .. Last, conf.phases[i].kind = "Tree", conf.phases[i].forward
               PROVE  Covering
    BY DEF NeighboursCovered
  <2>1. TypeOK
    BY DEF CompInv, CInv, IInv
  <2>2. \A j \in 1 .. Last : conf.phases[j].kind = "Tree" => j = i
    BY <2>1, PhaseOrder
  <2>3. Forwarding
    BY <2>2 DEF Forwarding, Timed
  <2>4. PlainAt(i) /\ (0 \in Live => 0 \in Reached)
    BY <2>1, <2>3, ForwardingType DEF PlainAt, SpreadInv
  <2>5. TreeReached \subseteq Reached \cap Live
    BY <2>4, TreeIsReached
  <2> QED BY <2>3, <2>5, EndCircles DEF Covering
<1> QED BY <1>1, CircleInvariant, PTL

(***************************************************************************)
(* Opportunistic correction, plain, behind a tree that forwards: whoever   *)
(* the tree alone would reach covers the live nodes within the distance,   *)
(* whether it is reached by the tree or by a correction first, for every   *)
(* tree, failure pattern and machine.  No phase waits for a time.          *)
(***************************************************************************)
THEOREM ForwardingCovers ==
  CSpec => []((\A i \in 1 .. Last : ~ conf.phases[i].exclusive /\ conf.phases[i].kind # "Gossip")
                => NeighboursCovered)
BY OneCollective, ForwardingCoversAgain, PTL

(***************************************************************************)
(* What a broadcast promises is promised in every repetition, although     *)
(* other nodes fail in each, and the sequence numbers that decide between  *)
(* tasks of one time go on.                                                *)
(***************************************************************************)
BroadcastPromises ==
  /\ StatisticsAgree
  /\ Options.kind # "Gather" => TotalTimeCoversAll
  /\ conf.P > 1 => GossipWindow
  /\ ExclusiveBarrier
  /\ ~ Options.exclusive => TreeReachesBelow
  /\ Options.kind = "Tree" => Live \cap Reached \subseteq TreeReached
  /\ Spans /\ LeavesLast => FewFailuresTolerated
  /\ conf.P > 1 => RingsMeet
  /\ conf.P > 1 /\ conf.o + conf.g + conf.L > 0 => CheckedReachesAll
  /\ (\A i \in 1 .. Last : ~ conf.phases[i].exclusive /\ conf.phases[i].kind # "Gossip") => NeighboursCovered

THEOREM EveryRepetition == RSpec => []BroadcastPromises
<1>1. RepeatedSpec => [](/\ StatisticsAgree
                         /\ Options.kind # "Gather" => TotalTimeCoversAll
                         /\ conf.P > 1 => GossipWindow
                         /\ ExclusiveBarrier
                         /\ ~ Options.exclusive => TreeReachesBelow)
  BY StatisticsHoldAgain, TotalTimeHoldsAgain, GossipLastsAgain, BarrierHoldsAgain, TreeReachesAgain, PTL
<1>2. RepeatedSpec => [](/\ Options.kind = "Tree" => Live \cap Reached \subseteq TreeReached
                         /\ Spans /\ LeavesLast => FewFailuresTolerated
                         /\ conf.P > 1 => RingsMeet
                         /\ conf.P > 1 /\ conf.o + conf.g + conf.L > 0 => CheckedReachesAll
                         /\ (\A i \in 1 .. Last : ~ conf.phases[i].exclusive /\ conf.phases[i].kind # "Gossip")
                              => NeighboursCovered)
  BY NobodyElseReachedAgain, FewFailuresAgain, RingsNeverCrossAgain, CheckedCorrectsAgain,
     ForwardingCoversAgain, PTL
<1> QED BY <1>1, <1>2, RepetitionsAreCollectives, PTL DEF BroadcastPromises
=============================================================================
