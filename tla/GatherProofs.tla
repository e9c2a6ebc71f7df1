---------------------------- MODULE GatherProofs -----------------------------
(***************************************************************************)
(* Gathering: proofs that a node counts the children it has not heard from *)
(* correctly, that acknowledged broadcasts and reductions implement the    *)
(* abstract convergecast, and who finishes in the end.                     *)
(***************************************************************************)
EXTENDS PhaseProofs, Registered

(* The two registered styles that gather, on a tree: nobody has two parents. *)
Acknowledges == conf.phases = Phases("ack")
Reduces == conf.phases = Phases("reduction")
OneParent ==
  \A m, n \in Node : \A i \in DOMAIN conf.receivers[m], j \in DOMAIN conf.receivers[n] :
    conf.receivers[m][i] = conf.receivers[n][j] => m = n /\ i = j
Gathers == (Acknowledges \/ Reduces) /\ OneParent

PlainTree == TreePhase(FALSE, FALSE)

LEMMA GatherPhases ==
  ASSUME Gathers
  PROVE  /\ Options = GatherPhase /\ conf.phases[Last] = GatherPhase /\ Last \in {2, 3}
         /\ Acknowledges => /\ Last = 3 /\ conf.phases[1] = DepInit
                            /\ conf.phases[2] = PlainTree
         /\ ~ Acknowledges => Last = 2 /\ conf.phases[1] = ReductionDepInit
<1>1. PICK first, tree, gather, last :
        first = DepInit /\ tree = PlainTree /\ gather = GatherPhase /\ last = ReductionDepInit
  OBVIOUS
<1>2. Phases("ack") = Append(<<first, tree>>, gather)
  BY <1>1, Zenon DEF Phases, PlainTree
<1>3. Phases("reduction") = <<last, gather>>
  BY <1>1, Zenon DEF Phases
<1>4. PICK two : two = <<first, tree>>
  OBVIOUS
<1>5. CASE Acknowledges
  <2>1. conf.phases = Append(two, gather)
    BY <1>2, <1>4, <1>5 DEF Acknowledges
  <2>2. two \in Seq({first, tree, gather}) /\ Len(two) = 2 /\ two[1] = first /\ two[2] = tree
    BY <1>4
  <2>3. /\ Len(Append(two, gather)) = 3 /\ Append(two, gather)[1] = first
        /\ Append(two, gather)[2] = tree /\ Append(two, gather)[3] = gather
    <3>1. PICK S : S = {first, tree, gather}
      OBVIOUS
    <3>2. two \in Seq(S) /\ gather \in S
      BY <2>2, <3>1
    <3>3. /\ Len(Append(two, gather)) = Len(two) + 1 /\ Append(two, gather)[Len(two) + 1] = gather
          /\ \A i \in 1 .. Len(two) : Append(two, gather)[i] = two[i]
      BY <3>2, AppendProperties
    <3> QED BY <2>2, <3>3
  <2> QED BY <1>1, <1>5, <2>1, <2>3 DEF Last, Options
<1>6. CASE ~ Acknowledges
  <2>1. conf.phases = <<last, gather>>
    BY <1>3, <1>6 DEF Gathers, Reduces
  <2> QED BY <1>1, <1>6, <2>1 DEF Last, Options
<1> QED BY <1>5, <1>6

(* What the dispatch of such a phase is. *)
LEMMA GatherDispatches ==
  ASSUME Gathers, NEW n, NEW s, NEW t, NEW at, NEW draw
  PROVE  /\ PhaseDispatch(conf.phases[1], n, s, t, at, draw) = DepInitDispatch(s, t)
         /\ Acknowledges => PhaseDispatch(conf.phases[2], n, s, t, at, draw)
                              = TreeDispatch(conf, PlainTree, n, s, t, at)
         /\ PhaseDispatch(conf.phases[Last], n, s, t, at, draw) = GatherDispatch(conf, n, s, t, at)
<1>1. \A ph : ph \in {DepInit, ReductionDepInit} =>
        PhaseDispatch(ph, n, s, t, at, draw) = DepInitDispatch(s, t)
  <2>1. \A ph : ph \in {DepInit, ReductionDepInit} => /\ ph.kind \in {"DepInit", "ReductionDepInit"}
                                                       /\ ph.exclusive = FALSE
    BY DEF DepInit, ReductionDepInit
  <2> QED BY <2>1 DEF PhaseDispatch, PlainDispatch
<1>2. PhaseDispatch(PlainTree, n, s, t, at, draw)
        = TreeDispatch(conf, PlainTree, n, s, t, at)
  <2>1. PICK ph : ph = PlainTree
    OBVIOUS
  <2>2. ph.kind = "Tree" /\ ph.exclusive = FALSE
    BY <2>1 DEF PlainTree, TreePhase
  <2>3. PhaseDispatch(ph, n, s, t, at, draw) = TreeDispatch(conf, ph, n, s, t, at)
    BY <2>2 DEF PhaseDispatch, PlainDispatch
  <2> QED BY <2>1, <2>3
<1>3. PhaseDispatch(GatherPhase, n, s, t, at, draw) = GatherDispatch(conf, n, s, t, at)
  <2>1. PICK ph : ph = GatherPhase
    OBVIOUS
  <2>2. ph.kind = "Gather" /\ ph.exclusive = FALSE
    BY <2>1 DEF GatherPhase
  <2>3. PhaseDispatch(ph, n, s, t, at, draw) = GatherDispatch(conf, n, s, t, at)
    BY <2>2 DEF PhaseDispatch, PlainDispatch
  <2> QED BY <2>1, <2>3
<1> QED BY <1>1, <1>2, <1>3, GatherPhases

(* The tree, seen from below and from above. *)
LEMMA Parents ==
  ASSUME TypeOK, Gathers
  PROVE  /\ \A n \in Node : ChildrenOf(n) \subseteq Node /\ n \notin ChildrenOf(n)
         /\ \A m, n, c \in Node : c \in ChildrenOf(m) /\ c \in ChildrenOf(n) => m = n
         /\ \A n \in Node : Upwards(conf, n) = {m \in Node : n \in ChildrenOf(m)}
<1>1. \A n \in Node : \A i \in DOMAIN conf.receivers[n] : conf.receivers[n][i] \in Node
  BY CollectiveType
<1>2. \A n \in Node : \A i \in DOMAIN conf.receivers[n] : conf.receivers[n][i] # n
  BY CollectiveType DEF IsCollective, Node
<1>3. DOMAIN conf.receivers = Node
  BY CollectiveType
<1>4. \A m, n, c \in Node : c \in ChildrenOf(m) /\ c \in ChildrenOf(n) => m = n
  BY DEF ChildrenOf, Gathers, OneParent
<1> QED BY <1>1, <1>2, <1>3, <1>4 DEF ChildrenOf, Upwards

-----------------------------------------------------------------------------
(* What a node does about a task. *)

Sends(reqs) == {r \in RangeOf(reqs) : r.type = "SendStart"}

(* No two messages for the same node. *)
Separate(reqs) ==
  \A i, j \in DOMAIN reqs :
    reqs[i].type = "SendStart" /\ reqs[j].type = "SendStart" /\ reqs[i].receiver = reqs[j].receiver => i = j

(***************************************************************************)
(* Node n is now in phase cur and the state s, and sends: it goes on with  *)
(* nothing to count, passes the message on along the tree, counts a child, *)
(* or has heard from all and reports.                                      *)
(***************************************************************************)
Missing(n, t) == local[n].toReceive - (IF t.type = "RecvEnd" THEN 1 ELSE 0)
Listens(n, t, cur, s, sends) ==
  /\ sends = {} /\ s.toReceive = local[n].toReceive
  /\ cur = local[n].cur \/ (local[n].cur = 1 /\ cur = 2)
  /\ t.type = "RecvEnd" => local[n].cur # Last
  /\ t.type = "Init" /\ local[n].cur = Last /\ local[n].reached => s.toReceive > 0
Relays(n, cur, s, sends) ==
  /\ Acknowledges /\ local[n].cur = 2 /\ cur = 3
  /\ s.reached /\ s.toReceive = local[n].toReceive
  /\ \A r \in sends : r.tag = "TREE" /\ r.sender = n /\ r.receiver \in ChildrenOf(n)
Counts(n, t, cur, s, sends) ==
  /\ t.type = "RecvEnd" /\ local[n].cur = Last /\ cur = Last
  /\ sends = {} /\ s.toReceive = Missing(n, t) /\ Missing(n, t) > 0
Reports(n, t, cur, s, sends) ==
  /\ local[n].cur = Last /\ cur = Last + 1 /\ s.reached
  /\ s.toReceive = Missing(n, t) - 1 /\ Missing(n, t) <= 0
  /\ \A r \in sends : r.tag = "GATHER" /\ r.sender = n /\ r.receiver \in Node /\ n \in ChildrenOf(r.receiver)
  /\ \A m \in Node : n \in ChildrenOf(m) => \E r \in sends : r.receiver = m
Acts(n, t, cur, s, sends) ==
  \/ Listens(n, t, cur, s, sends) \/ Relays(n, cur, s, sends)
  \/ Counts(n, t, cur, s, sends) \/ Reports(n, t, cur, s, sends)

LEMMA NothingSent ==
  /\ Separate(<<>>) /\ Sends(<<>>) = {} /\ RangeOf(<<>>) = {}
  /\ \A x : /\ Separate(<<x>>) /\ RangeOf(<<x>>) = {x}
           /\ Sends(<<x>>) = IF x.type = "SendStart" THEN {x} ELSE {}
BY FewRange DEF Separate, Sends

(* Nor does a list of at most one request that is no message. *)
LEMMA AtMostOneRequest ==
  ASSUME NEW x, x.type # "SendStart", NEW q, q = <<>> \/ q = <<x>>
  PROVE  Sends(q) = {} /\ Separate(q) /\ \A r \in RangeOf(q) : r = x
<1>1. CASE q = <<>>
  <2>1. Sends(q) = {} /\ Separate(q) /\ RangeOf(q) = {}
    BY <1>1, NothingSent
  <2> QED BY <2>1
<1>2. CASE q = <<x>>
  <2>1. Sends(<<x>>) = IF x.type = "SendStart" THEN {x} ELSE {}
    BY NothingSent
  <2>2. Separate(<<x>>) /\ RangeOf(<<x>>) = {x}
    BY NothingSent
  <2> QED BY <1>2, <2>1, <2>2
<1> QED BY <1>1, <1>2

LEMMA SeparateAppend ==
  ASSUME NEW S, NEW a \in Seq(S), Separate(a), NEW x, x.type # "SendStart"
  PROVE  Separate(Append(a, x)) /\ Sends(Append(a, x)) = Sends(a)
<1>1. PICK k \in Nat : DOMAIN a = 1 .. k /\ Len(a) = k
  OBVIOUS
<1>2. DOMAIN Append(a, x) = 1 .. k + 1 /\ \A i \in 1 .. k + 1 : Append(a, x)[i] = IF i = k + 1 THEN x ELSE a[i]
  BY <1>1
<1>3. Separate(Append(a, x))
  BY <1>1, <1>2 DEF Separate
<1> QED BY <1>3, AppendRange DEF Sends

(* The first phase sends nothing. *)
LEMMA FirstPhaseActs ==
  ASSUME TypeOK, LocalOK, Gathers, NEW n \in Node, local[n].cur = 1, NEW t \in Task, NEW at \in Nat,
         NEW draw \in Node, NEW inner, inner = PhaseDispatch(conf.phases[1], n, local[n], t, at, draw)
  PROVE  /\ Acts(n, t, NextPhase(1, inner.res), inner.s, Sends(inner.reqs))
         /\ Separate(inner.reqs) /\ Sends(inner.reqs) = RangeOf(inner.reqs) /\ inner.res # "DONE_FORWARD"
<1>1. inner = DepInitDispatch(local[n], t)
  <2>1. \A s : PhaseDispatch(conf.phases[1], n, s, t, at, draw) = DepInitDispatch(s, t)
    BY GatherDispatches
  <2> QED BY <2>1
<1>2. /\ inner.s = local[n] /\ inner.reqs = <<>> /\ inner.res \in {"DONE_PHASE", "ONGOING"}
  BY <1>1 DEF DepInitDispatch, Ongoing, Outcome
<1>3. NextPhase(1, inner.res) \in {1, 2}
  BY <1>2 DEF NextPhase
<1>4. Last # 1
  BY GatherPhases
<1> QED BY <1>2, <1>3, <1>4, NothingSent DEF Acts, Listens

LEMMA TreeActs ==
  ASSUME TypeOK, LocalOK, Gathers, Acknowledges, NEW n \in Node, local[n].cur = 2, NEW t \in Task, NEW at \in Nat,
         NEW draw \in Node, NEW inner, inner = PhaseDispatch(conf.phases[2], n, local[n], t, at, draw),
         t.type = "RecvEnd" => t.tag = "TREE"
  PROVE  /\ Acts(n, t, NextPhase(2, inner.res), inner.s, Sends(inner.reqs))
         /\ Separate(inner.reqs) /\ Sends(inner.reqs) = RangeOf(inner.reqs) /\ inner.res # "DONE_FORWARD"
<1>1. inner = TreeDispatch(conf, PlainTree, n, local[n], t, at) /\ Last = 3
  <2>1. \A s : PhaseDispatch(conf.phases[2], n, s, t, at, draw)
                 = TreeDispatch(conf, PlainTree, n, s, t, at)
    BY GatherDispatches
  <2> QED BY <2>1, GatherPhases
<1>2. local[n] \in State
  BY DEF LocalOK
<1>3. PICK posts : posts = PostSends(conf, n, at)
  OBVIOUS
<1>4. /\ DOMAIN posts = DOMAIN conf.receivers[n]
      /\ \A i \in DOMAIN posts : posts[i] = SendRequest("TREE", at, n, conf.receivers[n][i])
  BY <1>3 DEF PostSends
<1>5. ASSUME NEW i \in DOMAIN posts
      PROVE  /\ posts[i].type = "SendStart" /\ posts[i].tag = "TREE"
             /\ posts[i].sender = n /\ posts[i].receiver = conf.receivers[n][i]
  <2>1. PICK m : m = conf.receivers[n][i]
    OBVIOUS
  <2>2. posts[i] = SendRequest("TREE", at, n, m)
    BY <1>4, <2>1
  <2> QED BY <2>1, <2>2 DEF SendRequest
<1>6. /\ Separate(posts) /\ Sends(posts) = RangeOf(posts)
      /\ \A r \in Sends(posts) : r.tag = "TREE" /\ r.sender = n /\ r.receiver \in ChildrenOf(n)
  <2>1. \A i, j \in DOMAIN conf.receivers[n] : conf.receivers[n][i] = conf.receivers[n][j] => i = j
    BY DEF Gathers, OneParent
  <2>2. Separate(posts)
    BY <1>4, <1>5, <2>1 DEF Separate
  <2> QED BY <1>4, <1>5, <2>2 DEF Sends, RangeOf, ChildrenOf
<1>7. CASE inner = Ongoing(local[n]) /\ t.type # "RecvEnd"
  <2>1. inner.res = "ONGOING" /\ inner.reqs = <<>> /\ inner.s = local[n]
    BY <1>7 DEF Ongoing, Outcome
  <2>2. NextPhase(2, inner.res) = 2 /\ local[n].cur # Last
    BY <1>1, <2>1 DEF NextPhase
  <2>3. Listens(n, t, 2, inner.s, Sends(inner.reqs))
    BY <1>7, <2>1, <2>2, NothingSent DEF Listens
  <2> QED BY <2>1, <2>2, <2>3, NothingSent DEF Acts
<1>8. ASSUME NEW s, s.reached, s.toReceive = local[n].toReceive, inner = Outcome("DONE_PHASE", posts, s)
      PROVE  /\ Acts(n, t, NextPhase(2, inner.res), inner.s, Sends(inner.reqs))
             /\ Separate(inner.reqs) /\ Sends(inner.reqs) = RangeOf(inner.reqs) /\ inner.res # "DONE_FORWARD"
  <2>1. inner.res = "DONE_PHASE" /\ inner.reqs = posts /\ inner.s = s
    BY <1>8 DEF Outcome
  <2>2. NextPhase(2, inner.res) = 3
    BY <2>1 DEF NextPhase
  <2> QED BY <1>6, <1>8, <2>1, <2>2 DEF Acts, Relays
<1>9. CASE t.type = "RecvEnd"
  <2>1. PICK s : s = [local[n] EXCEPT !.reached = TRUE]
    OBVIOUS
  <2>2. s.reached /\ s.toReceive = local[n].toReceive
    BY <1>2, <2>1 DEF State
  <2>3. inner = Outcome("DONE_PHASE", posts, s)
    BY <1>1, <1>3, <1>9, <2>1 DEF TreeDispatch, TreeRecvEnd
  <2> QED BY <1>8, <2>2, <2>3
<1>10. CASE t.type = "Init" /\ local[n].reached
  BY <1>1, <1>3, <1>8, <1>10 DEF TreeDispatch, TreeInit
<1>11. CASE t.type # "RecvEnd" /\ ~ (t.type = "Init" /\ local[n].reached)
  BY <1>1, <1>7, <1>11 DEF TreeDispatch, TreeInit
<1> QED BY <1>9, <1>10, <1>11

(* post_sends of a node that has Missing(n, t) children to hear from. *)
LEMMA GatherSendsActs ==
  ASSUME TypeOK, LocalOK, Gathers, NEW n \in Node, local[n].cur = Last, NEW t \in Task, NEW at \in Nat,
         NEW s \in State, s.reached, s.toReceive = Missing(n, t),
         NEW inner, inner = GatherSends(conf, n, s, at)
  PROVE  /\ Acts(n, t, NextPhase(Last, inner.res), inner.s, Sends(inner.reqs))
         /\ Separate(inner.reqs) /\ Sends(inner.reqs) = RangeOf(inner.reqs) /\ inner.res # "DONE_FORWARD"
<1>0. Last \in Nat /\ Missing(n, t) \in Int
  <2>1. s.toReceive \in Int
    BY DEF State
  <2> QED BY <2>1, GatherPhases
<1>1. CASE s.toReceive > 0
  <2>1. inner.res = "ONGOING" /\ inner.reqs = <<>> /\ inner.s = s /\ NextPhase(Last, inner.res) = Last
    BY <1>1 DEF GatherSends, Ongoing, Outcome, NextPhase
  <2>2. CASE t.type = "RecvEnd"
    BY <1>1, <2>1, <2>2, NothingSent DEF Acts, Counts
  <2>3. CASE t.type # "RecvEnd"
    <3>1. s.toReceive = local[n].toReceive
      BY <2>3 DEF Missing, LocalOK, State
    <3> QED BY <1>1, <2>1, <2>3, <3>1, NothingSent DEF Acts, Listens
  <2> QED BY <2>2, <2>3
<1>2. CASE ~ (s.toReceive > 0)
  <2>1. PICK reqs : reqs = IF Upwards(conf, n) = {} THEN <<>>
                           ELSE <<SendRequest("GATHER", at, n, CHOOSE m \in Upwards(conf, n) : TRUE)>>
    OBVIOUS
  <2>2. PICK r : r = [s EXCEPT !.toReceive = @ - 1]
    OBVIOUS
  <2>3. r.toReceive = Missing(n, t) - 1 /\ r.reached
    BY <2>2 DEF State
  <2>4. inner = Outcome("DONE_PHASE", reqs, r)
    BY <1>2, <2>1, <2>2 DEF GatherSends
  <2>5. /\ Separate(reqs) /\ Sends(reqs) = RangeOf(reqs)
        /\ \A x \in Sends(reqs) : x.tag = "GATHER" /\ x.sender = n /\ x.receiver \in Node /\ n \in ChildrenOf(x.receiver)
        /\ \A m \in Node : n \in ChildrenOf(m) => \E x \in Sends(reqs) : x.receiver = m
    <3>1. CASE Upwards(conf, n) = {}
      BY <2>1, <3>1, NothingSent, Parents
    <3>2. CASE Upwards(conf, n) # {}
      <4>1. PICK p : p = CHOOSE m \in Upwards(conf, n) : TRUE
        OBVIOUS
      <4>2. p \in Node /\ n \in ChildrenOf(p) /\ \A m \in Node : n \in ChildrenOf(m) => m = p
        <5>1. p \in Upwards(conf, n)
          BY <3>2, <4>1
        <5> QED BY <5>1, Parents
      <4>3. PICK x : x = SendRequest("GATHER", at, n, p)
        OBVIOUS
      <4>4. x.type = "SendStart" /\ x.tag = "GATHER" /\ x.sender = n /\ x.receiver = p
        BY <4>3 DEF SendRequest
      <4>5. Separate(reqs) /\ Sends(reqs) = {x} /\ RangeOf(reqs) = {x}
        BY <2>1, <3>2, <4>1, <4>3, <4>4, NothingSent
      <4> QED BY <4>2, <4>4, <4>5
    <3> QED BY <3>1, <3>2
  <2>6. Missing(n, t) <= 0
    BY <1>0, <1>2
  <2> QED BY <2>3, <2>4, <2>5, <2>6 DEF Outcome, NextPhase, Acts, Reports
<1> QED BY <1>1, <1>2

LEMMA GatherActs ==
  ASSUME TypeOK, LocalOK, Gathers, NEW n \in Node, local[n].cur = Last, NEW t \in Task, NEW at \in Nat,
         NEW draw \in Node, NEW inner, inner = PhaseDispatch(conf.phases[Last], n, local[n], t, at, draw)
  PROVE  /\ Acts(n, t, NextPhase(Last, inner.res), inner.s, Sends(inner.reqs))
         /\ Separate(inner.reqs) /\ Sends(inner.reqs) = RangeOf(inner.reqs) /\ inner.res # "DONE_FORWARD"
<1>1. inner = GatherDispatch(conf, n, local[n], t, at)
  BY GatherDispatches
<1>2. local[n] \in State /\ local[n].toReceive \in Int
  BY DEF LocalOK, State
<1>3. CASE inner = Ongoing(local[n]) /\ t.type # "RecvEnd" /\ ~ (t.type = "Init" /\ local[n].reached)
  <2>1. inner.res = "ONGOING" /\ inner.reqs = <<>> /\ inner.s = local[n]
    BY <1>3 DEF Ongoing, Outcome
  <2>2. NextPhase(Last, inner.res) = local[n].cur
    BY <2>1 DEF NextPhase
  <2> QED BY <1>3, <2>1, <2>2, NothingSent DEF Acts, Listens
<1>4. CASE t.type = "RecvEnd"
  <2>1. PICK k \in Int : k = local[n].toReceive - 1
    BY <1>2
  <2>2. PICK s : s = [local[n] EXCEPT !.reached = TRUE, !.toReceive = k]
    OBVIOUS
  <2>3. s \in State /\ s.toReceive = Missing(n, t) /\ s.reached
    BY <1>2, <1>4, <2>1, <2>2 DEF State, Missing
  <2>4. inner = GatherSends(conf, n, s, at)
    BY <1>1, <1>4, <2>1, <2>2 DEF GatherDispatch, GatherRecvEnd
  <2> QED BY <2>3, <2>4, GatherSendsActs
<1>5. CASE t.type = "Init" /\ local[n].reached
  <2>1. local[n].toReceive = Missing(n, t)
    BY <1>2, <1>5 DEF Missing
  <2>2. inner = GatherSends(conf, n, local[n], at)
    BY <1>1, <1>5 DEF GatherDispatch, GatherInit
  <2> QED BY <1>2, <1>5, <2>1, <2>2, GatherSendsActs
<1>6. CASE t.type # "RecvEnd" /\ ~ (t.type = "Init" /\ local[n].reached)
  BY <1>1, <1>3, <1>6 DEF GatherDispatch, GatherInit
<1> QED BY <1>4, <1>5, <1>6

(* What the combiner and the collective make of it. *)
LEMMA NodeActs ==
  ASSUME TypeOK, LocalOK, Gathers, NEW n \in Node, NEW t \in Task, NEW at \in Nat, NEW draw \in Node,
         RootBegins(n, t), NEW out, out = CombinerDispatch(n, t, at, draw),
         Acknowledges /\ local[n].cur = 2 /\ t.type = "RecvEnd" => t.tag = "TREE"
  PROVE  /\ Acts(n, t, out.s.cur, out.s, Sends(Accept(n, out))) /\ Separate(Accept(n, out)) /\ out.again = {}
         /\ \A r \in RangeOf(Accept(n, out)) : /\ r.tag = "GATHER" => r.type = "SendStart"
                                               /\ r.type = "Init" => r.tag = "INIT" /\ r.time = at
         /\ local[n].cur < out.s.cur /\ out.s.cur <= Last => InitRequest(at, n) \in RangeOf(Accept(n, out))
<1>1. /\ FinishRequest(n).type = "Finish" /\ FinishRequest(n).tag = "INTERNAL"
      /\ InitRequest(at, n).type = "Init" /\ InitRequest(at, n).tag = "INIT" /\ InitRequest(at, n).time = at
  BY DEF FinishRequest, InitRequest
<1>2. Last \in {2, 3} /\ local[n] \in State /\ local[n].cur \in 1 .. Last + 1
  BY GatherPhases DEF LocalOK
<1>3. CASE t.type = "Finish" /\ out = Nothing(n, "ONGOING")
  <2>1. Accept(n, out) = <<>> /\ out.s = local[n] /\ out.again = {}
    BY <1>3 DEF Nothing, Accept, Finishing
  <2>2. out.s.cur = local[n].cur /\ ~ (local[n].cur < out.s.cur)
    BY <1>2, <2>1
  <2>3. Acts(n, t, out.s.cur, out.s, Sends(Accept(n, out)))
    BY <1>3, <2>1, NothingSent DEF Acts, Listens
  <2> QED BY <2>1, <2>2, <2>3, NothingSent
<1>4. CASE local[n].cur > Last /\ out = Colour(t, Nothing(n, "DONE_PHASE"))
  <2>1. PICK s : s = IF t.type = "RecvEnd" THEN [local[n] EXCEPT !.reached = TRUE] ELSE local[n]
    OBVIOUS
  <2>2. s.cur = local[n].cur /\ s.toReceive = local[n].toReceive
    BY <1>2, <2>1 DEF State
  <2>3. out.s = s /\ out.again = {} /\ out.reqs = <<>>
    BY <1>4, <2>1 DEF Colour, Nothing
  <2>4. Accept(n, out) = IF Finishing(n, out) THEN Append(<<>>, FinishRequest(n)) ELSE <<>>
    BY <2>3 DEF Accept
  <2>5. PICK x : x = FinishRequest(n)
    OBVIOUS
  <2>6. Append(<<>>, x) = <<x>>
    OBVIOUS
  <2>7. Accept(n, out) = <<>> \/ Accept(n, out) = <<x>>
    BY <2>4, <2>5, <2>6
  <2>8. local[n].cur # Last
    BY <1>2, <1>4
  <2>9. /\ Sends(Accept(n, out)) = {} /\ Separate(Accept(n, out))
        /\ \A r \in RangeOf(Accept(n, out)) : r = x
    <3>1. x.type # "SendStart"
      BY <1>1, <2>5
    <3> QED BY <2>7, <3>1, AtMostOneRequest
  <2>10. out.s.cur = local[n].cur /\ ~ (local[n].cur < out.s.cur)
    BY <1>2, <2>2, <2>3
  <2>11. Acts(n, t, out.s.cur, out.s, Sends(Accept(n, out)))
    BY <2>2, <2>3, <2>8, <2>9 DEF Acts, Listens
  <2> QED BY <1>1, <2>3, <2>5, <2>9, <2>10, <2>11
<1>5. ASSUME NEW inner, local[n].cur \in 1 .. Last,
             inner = PhaseDispatch(conf.phases[local[n].cur], n, local[n], t, at, draw),
             Proper(n, local[n], t, at, inner), out = Colour(t, Switch(n, t, at, inner))
      PROVE  /\ Acts(n, t, out.s.cur, out.s, Sends(Accept(n, out))) /\ Separate(Accept(n, out)) /\ out.again = {}
             /\ \A r \in RangeOf(Accept(n, out)) : /\ r.tag = "GATHER" => r.type = "SendStart"
                                                   /\ r.type = "Init" => r.tag = "INIT" /\ r.time = at
             /\ local[n].cur < out.s.cur /\ out.s.cur <= Last => InitRequest(at, n) \in RangeOf(Accept(n, out))
  <2>1. PICK cur : cur = NextPhase(local[n].cur, inner.res)
    OBVIOUS
  <2>2. /\ Acts(n, t, cur, inner.s, Sends(inner.reqs))
        /\ Separate(inner.reqs) /\ Sends(inner.reqs) = RangeOf(inner.reqs) /\ inner.res # "DONE_FORWARD"
    <3>1. CASE local[n].cur = 1
      BY <1>5, <2>1, <3>1, FirstPhaseActs
    <3>2. CASE local[n].cur = Last
      BY <1>5, <2>1, <3>2, GatherActs
    <3>3. CASE local[n].cur = 2 /\ Acknowledges
      BY <1>5, <2>1, <3>3, TreeActs
    <3> QED BY <1>2, <1>5, <3>1, <3>2, <3>3, GatherPhases
  <2>3. inner.s \in State /\ inner.reqs \in Seq(Demand(n, at))
    BY <1>5, RequestTypes DEF Proper
  <2>4. /\ out.s.cur = cur /\ out.s.toReceive = inner.s.toReceive
        /\ inner.s.reached => out.s.reached
    <3>1. out = Colour(t, Switch(n, t, at, inner)) /\ inner.s \in State
      BY <1>5, <2>3
    <3>2. /\ out.s.cur = NextPhase(local[n].cur, inner.res) /\ out.s.toReceive = inner.s.toReceive
          /\ out.s.reached <=> t.type = "RecvEnd" \/ inner.s.reached
      BY <3>1, SwitchState
    <3> QED BY <2>1, <3>2
  <2>5. PICK reqs : reqs = IF cur <= Last /\ cur > local[n].cur THEN Append(inner.reqs, InitRequest(at, n))
                           ELSE inner.reqs
    OBVIOUS
  <2>6. out.reqs = reqs /\ out.again = {}
    <3>1. Switch(n, t, at, inner).reqs = reqs /\ Switch(n, t, at, inner).again = {}
      BY <2>1, <2>2, <2>5 DEF Switch, MoveOn
    <3> QED BY <1>5, <3>1 DEF Colour, Switch, MoveOn
  <2>7. /\ reqs \in Seq(Demand(n, at)) /\ Separate(reqs) /\ Sends(reqs) = RangeOf(inner.reqs)
        /\ RangeOf(reqs) \subseteq RangeOf(inner.reqs) \cup {InitRequest(at, n)}
        /\ local[n].cur < cur /\ cur <= Last => InitRequest(at, n) \in RangeOf(reqs)
    <3>1. CASE reqs = inner.reqs /\ ~ (cur <= Last /\ cur > local[n].cur)
      BY <1>2, <2>2, <2>3, <3>1
    <3>2. CASE reqs = Append(inner.reqs, InitRequest(at, n))
      <4>1. PICK S, x : S = Demand(n, at) /\ x = InitRequest(at, n)
        OBVIOUS
      <4>2. inner.reqs \in Seq(S) /\ x \in S /\ x.type # "SendStart" /\ Separate(inner.reqs)
        BY <1>1, <2>2, <2>3, <4>1, RequestTypes
      <4>3. Separate(Append(inner.reqs, x)) /\ Sends(Append(inner.reqs, x)) = Sends(inner.reqs)
        BY <4>2, SeparateAppend
      <4>4. RangeOf(Append(inner.reqs, x)) = RangeOf(inner.reqs) \cup {x} /\ Append(inner.reqs, x) \in Seq(S)
        BY <4>2, AppendRange, Few
      <4> QED BY <2>2, <3>2, <4>1, <4>3, <4>4
    <3> QED BY <2>5, <3>1, <3>2
  <2>8. /\ Separate(Accept(n, out)) /\ Sends(Accept(n, out)) = RangeOf(inner.reqs)
        /\ RangeOf(Accept(n, out)) \subseteq RangeOf(reqs) \cup {FinishRequest(n)}
        /\ RangeOf(reqs) \subseteq RangeOf(Accept(n, out))
    <3>1. CASE Accept(n, out) = reqs
      BY <2>7, <3>1
    <3>2. CASE Accept(n, out) = Append(reqs, FinishRequest(n))
      <4>1. PICK S, x : S = Demand(n, at) /\ x = FinishRequest(n)
        OBVIOUS
      <4>2. reqs \in Seq(S) /\ x.type # "SendStart" /\ Separate(reqs)
        BY <1>1, <2>7, <4>1
      <4>3. Separate(Append(reqs, x)) /\ Sends(Append(reqs, x)) = Sends(reqs)
        BY <4>2, SeparateAppend
      <4>4. RangeOf(Append(reqs, x)) = RangeOf(reqs) \cup {x}
        BY <4>2, AppendRange
      <4> QED BY <2>7, <3>2, <4>1, <4>3, <4>4
    <3> QED BY <2>6, <3>1, <3>2 DEF Accept
  <2>9. Acts(n, t, cur, out.s, Sends(Accept(n, out)))
    BY <2>2, <2>4, <2>8 DEF Acts, Listens, Relays, Counts, Reports
  <2>10. \A r \in RangeOf(inner.reqs) : r.type = "SendStart"
    BY <2>2 DEF Sends
  <2> QED BY <1>1, <2>4, <2>6, <2>7, <2>8, <2>9, <2>10
<1> QED BY <1>3, <1>4, <1>5, CombinerCases

-----------------------------------------------------------------------------
(***************************************************************************)
(* The messages underway: down the tree to nodes that are not reached, by  *)
(* whoever went on to gather, or up the tree from whoever has reported; no *)
(* two of them are the same; nothing else looks like a report; and nobody  *)
(* has to wait for an InitTask.                                            *)
(***************************************************************************)
Traffic ==
  \A t \in queue :
    /\ t.type \in MessageTypes =>
         \/ /\ t.tag = "TREE" /\ Acknowledges /\ t.receiver \in ChildrenOf(t.sender)
            /\ local[t.sender].cur > 2 /\ t.receiver \notin Reached
         \/ t.tag = "GATHER" /\ t.sender \in ChildrenOf(t.receiver) /\ HasSent(t.sender)
    /\ t.tag = "GATHER" => t.type \in MessageTypes \cup {"Failure"}
    /\ t.type = "Init" => t.tag = "INIT" /\ t.time <= now

Lone ==
  \A t, u \in queue :
    /\ t.type \in MessageTypes /\ u.type \in MessageTypes
    /\ t.tag = u.tag /\ t.sender = u.sender /\ t.receiver = u.receiver
    => t = u

(* While anybody is in the first phase, no message has been sent. *)
Early ==
  (\E n \in Live : local[n].cur = 1) => \A t \in queue : t.type \in MessageTypes => t.type = "SendStart"

(* A broadcast goes down the tree: who gathers is reached, and whoever is  *)
(* reached has a parent that gathers.                                      *)
Descends ==
  Acknowledges => \A n \in Node : /\ local[n].cur > 2 => n \in Reached
                                  /\ ChildrenOf(n) \cap Reached # {} => local[n].cur > 2

(* The counter is negative for those who have reported, and for them only. *)
Complete ==
  \A n \in Node : local[n].toReceive >= -1 /\ (HasSent(n) <=> local[n].cur = Last + 1)

Expected == \A n \in Live : LaterOf(local[n].toReceive, 0) = Cardinality(Awaited(n))

GatherInv == Traffic /\ Lone /\ Early /\ Descends /\ Complete /\ Expected

(* The phase in which a message finds its receiver. *)
LEMMA Arrives ==
  ASSUME TypeOK, LocalOK, Senders, Gathers, GatherInv, NEW t \in queue, t.type = "RecvEnd"
  PROVE  /\ t.tag \in {"TREE", "GATHER"} /\ t.receiver \in Live
         /\ t.tag = "TREE" => Acknowledges /\ local[t.receiver].cur <= 2 /\ t.receiver \notin Reached
         /\ t.tag = "GATHER" =>
              /\ t.sender \in ChildrenOf(t.receiver) /\ HasSent(t.sender)
              /\ t.sender \in Awaited(t.receiver)
              /\ local[t.receiver].cur = Last /\ local[t.receiver].toReceive > 0
<1>1. t \in Task /\ t.type \in MessageTypes
  BY DEF TypeOK, MessageTypes
<1>2. t.receiver \in Live /\ t.receiver \in Node /\ t.sender \in Node /\ t.sender \in Reached
  BY <1>1 DEF Senders, Task, Live
<1>3. Last \in {2, 3} /\ \A n \in Node : local[n].cur \in 1 .. Last + 1 /\ local[n] \in State
  BY GatherPhases DEF LocalOK
<1>4. CASE t.tag = "TREE" /\ Acknowledges /\ t.receiver \notin Reached
  BY <1>2, <1>3, <1>4 DEF GatherInv, Descends
<1>5. CASE t.tag = "GATHER" /\ t.sender \in ChildrenOf(t.receiver) /\ HasSent(t.sender)
  <2>1. PICK n \in Live : n = t.receiver /\ n \in Node
    BY <1>2
  <2>2. t.sender \in Awaited(n)
    BY <1>5, <2>1 DEF Awaited
  <2>3. local[n].cur >= Last
    <3>1. CASE Acknowledges
      <4>1. ChildrenOf(n) \cap Reached # {}
        BY <1>2, <1>5, <2>1
      <4> QED BY <1>3, <2>1, <3>1, <4>1, GatherPhases DEF GatherInv, Descends
    <3>2. CASE ~ Acknowledges
      <4>1. local[n].cur # 1
        BY <1>1, <2>1 DEF GatherInv, Early
      <4> QED BY <1>3, <2>1, <3>2, <4>1, GatherPhases
    <3> QED BY <3>1, <3>2
  <2>4. Awaited(n) \subseteq Node
    BY <2>1, Parents DEF Awaited
  <2>5. PICK k \in Nat : k = Cardinality(Awaited(n)) /\ k # 0
    <3>1. IsFiniteSet(Awaited(n)) /\ Cardinality(Awaited(n)) \in Nat
      BY <2>4, NodeSets
    <3> QED BY <2>2, <3>1, FS_EmptySet
  <2>6. PICK r \in Int : r = local[n].toReceive
    BY <1>3, <2>1 DEF State
  <2>7. LaterOf(r, 0) = k
    BY <2>1, <2>5, <2>6 DEF GatherInv, Expected
  <2>8. r > 0
    BY <2>5, <2>7 DEF LaterOf
  <2>9. local[n].cur # Last + 1
    BY <2>1, <2>6, <2>8 DEF GatherInv, Complete, HasSent
  <2> QED BY <1>2, <1>3, <1>5, <2>1, <2>2, <2>3, <2>6, <2>8, <2>9
<1> QED BY <1>1, <1>4, <1>5 DEF GatherInv, Traffic

-----------------------------------------------------------------------------
(* The steps of a collective that gathers. *)

(* Where a message in the heap comes from, when reqs are asked for. *)
Flows(t, reqs) ==
  \A u \in queue' : u.type \in MessageTypes =>
    \/ u \in queue /\ u # t
    \/ t \in queue /\ t.type \in MessageTypes \ {"RecvEnd"} /\ Succeeds(t, u)
    \/ \E i \in DOMAIN reqs : reqs[i].type = "SendStart" /\ u = Numbered(reqs[i], FirstSeq + i - 1)

(* Node n takes the state s and asks for reqs; or t passes by, and it asks *)
(* for nothing and stays as it is.                                         *)
Step(t, n, s, reqs) ==
  /\ conf' = conf /\ n \in Node /\ s \in State
  /\ t.type = "RecvEnd" => t \in queue /\ n = t.receiver
  /\ t.type = "Init" => n = t.sender
  /\ local' = [local EXCEPT ![n] = s] /\ (n \in Live \/ s = local[n])
  /\ s.reached <=> local[n].reached \/ t.type = "RecvEnd"
  /\ Acts(n, t, s.cur, s, Sends(reqs)) /\ Separate(reqs)
  /\ Heap(t, RangeOf(reqs)) /\ Flows(t, reqs)
  /\ \A r \in RangeOf(reqs) : /\ r.type \in {"SendStart", "Timer", "Init", "Idle", "Finish"} /\ r.sender = n
                              /\ r.tag = "GATHER" => r.type = "SendStart"
                              /\ r.type = "Init" => r.tag = "INIT" /\ r.time = Clock(t)
                              /\ n \in Live
  /\ local[n].cur < s.cur /\ s.cur <= Last => \E r \in RangeOf(reqs) : r.type = "Init" /\ r.receiver = n

LEMMA PassFlows ==
  ASSUME TypeOK, NEW t \in Upcoming, t.type # "RecvEnd", Heap(t, {})
  PROVE  Flows(t, <<>>)
<1> SUFFICES ASSUME NEW u \in queue', u.type \in MessageTypes
    PROVE  (u \in queue /\ u # t) \/ (t \in queue /\ t.type \in MessageTypes \ {"RecvEnd"} /\ Succeeds(t, u))
  BY DEF Flows
<1>1. PICK asked : asked = {} /\ Heap(t, asked)
  OBVIOUS
<1>2. (u \in Ready /\ u # t) \/ Succeeds(t, u) \/ u.type = "Failure"
  BY <1>1 DEF Heap, Origin
<1>3. CASE u \in Ready /\ u # t
  BY <1>3, ReadyTasks DEF MessageTypes
<1>4. CASE Succeeds(t, u)
  <2>1. t.type \in MessageTypes \ {"RecvEnd"}
    BY <1>4 DEF Succeeds, Successors, MessageTypes
  <2>2. t \in queue
    BY <2>1, UpcomingType, ReadyTasks DEF MessageTypes
  <2> QED BY <1>4, <2>1, <2>2
<1> QED BY <1>2, <1>3, <1>4 DEF MessageTypes

LEMMA AnswerFlows ==
  ASSUME TypeOK, NEW t \in Upcoming, NEW reqs, Traced(t, reqs, {}),
         \A r \in RangeOf(reqs) : r.type \in {"SendStart", "Timer", "Init", "Idle", "Finish"}
  PROVE  Flows(t, reqs)
<1> SUFFICES ASSUME NEW u \in queue', u.type \in MessageTypes
    PROVE  \/ u \in queue /\ u # t
           \/ t \in queue /\ t.type \in MessageTypes \ {"RecvEnd"} /\ Succeeds(t, u)
           \/ \E i \in DOMAIN reqs : reqs[i].type = "SendStart" /\ u = Numbered(reqs[i], FirstSeq + i - 1)
  BY DEF Flows
<1>1. \/ u \in Ready /\ u # t
      \/ Succeeds(t, u)
      \/ \E i \in DOMAIN reqs : u = Numbered(reqs[i], FirstSeq + i - 1)
  BY DEF Traced, MessageTypes
<1>2. CASE u \in Ready /\ u # t
  BY <1>2, ReadyTasks DEF MessageTypes
<1>3. CASE Succeeds(t, u)
  <2>1. t.type \in MessageTypes \ {"RecvEnd"}
    BY <1>3 DEF Succeeds, Successors, MessageTypes
  <2>2. t \in queue
    BY <2>1, UpcomingType, ReadyTasks DEF MessageTypes
  <2> QED BY <1>3, <2>1, <2>2
<1>4. ASSUME NEW i \in DOMAIN reqs, u = Numbered(reqs[i], FirstSeq + i - 1)
      PROVE  reqs[i].type = "SendStart"
  <2>1. u.type = reqs[i].type
    BY <1>4 DEF Numbered
  <2>2. reqs[i].type \in {"SendStart", "Timer", "Init", "Idle", "Finish"}
    BY DEF RangeOf
  <2> QED BY <2>1, <2>2 DEF MessageTypes
<1> QED BY <1>1, <1>2, <1>3, <1>4

LEMMA GatherSteps ==
  ASSUME TypeOK, LocalOK, StartUp, Senders, OneWait, Gathers, GatherInv, [CNext]_vars
  PROVE  Rests \/ \E t \in Upcoming : \E n, s, reqs : Step(t, n, s, reqs)
<1>1. conf' = conf
  BY StepLocal
<1>2. ASSUME NEW t \in Upcoming, Passes(t), Heap(t, {}), UNCHANGED cvars
      PROVE  \E n, s, reqs : Step(t, n, s, reqs)
  <2>1. PICK n \in Node : n = NotifiedNode(t)
    BY UpcomingType
  <2>2. t.type \notin {"RecvEnd", "Init"}
    BY <1>2 DEF Passes, DelaySend, DelayRecv, Msg, Failure
  <2>3. PICK s \in State : s = local[n]
    BY DEF LocalOK
  <2>4. local' = [local EXCEPT ![n] = s]
    BY <1>2, <2>3 DEF cvars, LocalOK
  <2>5. PICK reqs : reqs = <<>>
    OBVIOUS
  <2>6. RangeOf(reqs) = {} /\ Sends(reqs) = {} /\ Separate(reqs)
    BY <2>5, NothingSent
  <2>7. Acts(n, t, s.cur, s, Sends(reqs))
    BY <2>2, <2>3, <2>6 DEF Acts, Listens
  <2>8. Flows(t, reqs)
    BY <1>2, <2>2, <2>5, PassFlows
  <2>9. Heap(t, RangeOf(reqs))
    BY <1>2, <2>6
  <2>10. ~ (local[n].cur < s.cur) /\ (s.reached <=> local[n].reached)
    BY <2>3 DEF LocalOK
  <2>11. Step(t, n, s, reqs)
    BY <1>1, <2>2, <2>3, <2>4, <2>6, <2>7, <2>8, <2>9, <2>10 DEF Step
  <2> QED BY <2>11
<1>3. ASSUME NEW t \in Upcoming, NEW draw \in Draws(NotifiedNode(t), t), NEW out,
             RootBegins(NotifiedNode(t), t), t.type \in DOMAIN Priority \ {"Msg", "Failure"},
             Answers(t, NotifiedNode(t), draw, out)
      PROVE  \E n, s, reqs : Step(t, n, s, reqs)
  <2>1. PICK n : n = NotifiedNode(t) /\ AnswerOf(t, n, out)
    BY <1>1, <1>3, AnswerIs
  <2>2. /\ out = CombinerDispatch(n, t, Clock(t), draw) /\ draw \in Draws(n, t)
        /\ RootBegins(n, t) /\ Traced(t, Accept(n, out), out.again)
    BY <1>3, <2>1 DEF Answers
  <2>3. n \in Live /\ n \in Node /\ t \in Task /\ t \in Ready /\ draw \in Node
    BY <2>1, <2>2, UpcomingType DEF AnswerOf, Live, Draws
  <2>4. PICK at \in Nat : at = Clock(t)
    BY UpcomingType
  <2>5. t.type = "RecvEnd" => t \in queue /\ n = t.receiver
    BY <2>1, <2>3, ReadyTasks DEF NotifiedNode
  <2>6. Acknowledges /\ local[n].cur = 2 /\ t.type = "RecvEnd" => t.tag = "TREE"
    <3>1. SUFFICES ASSUME Acknowledges, local[n].cur = 2, t.type = "RecvEnd" PROVE t.tag # "GATHER"
      BY <2>5, Arrives
    <3>2. t.tag = "GATHER" => local[n].cur = Last
      BY <2>5, <3>1, Arrives
    <3> QED BY <3>1, <3>2, GatherPhases
  <2>7. PICK reqs : reqs = Accept(n, out)
    OBVIOUS
  <2>8. /\ Acts(n, t, out.s.cur, out.s, Sends(reqs)) /\ Separate(reqs) /\ out.again = {}
        /\ \A r \in RangeOf(reqs) : /\ r.tag = "GATHER" => r.type = "SendStart"
                                    /\ r.type = "Init" => r.tag = "INIT" /\ r.time = at
        /\ local[n].cur < out.s.cur /\ out.s.cur <= Last => InitRequest(at, n) \in RangeOf(reqs)
    BY <2>2, <2>3, <2>4, <2>6, <2>7, NodeActs
  <2>9. /\ \A r \in RangeOf(reqs) : /\ r.type \in {"SendStart", "Timer", "Init", "Idle", "Finish"}
                                    /\ r.sender = n
        /\ Heap(t, RangeOf(reqs)) /\ local' = [local EXCEPT ![n] = out.s] /\ Combined(n, t, Clock(t), out)
        /\ t.type = "RecvEnd" => out.s.reached
    BY <2>1, <2>7 DEF AnswerOf
  <2>10. Flows(t, reqs)
    BY <2>2, <2>7, <2>8, <2>9, AnswerFlows
  <2>11. out.s \in State /\ (out.s.reached <=> local[n].reached \/ t.type = "RecvEnd")
    BY <2>9 DEF Combined, Colours, State
  <2>12. t.type = "Init" => n = t.sender
    BY <2>1 DEF NotifiedNode
  <2>13. local[n].cur < out.s.cur /\ out.s.cur <= Last => \E r \in RangeOf(reqs) : r.type = "Init" /\ r.receiver = n
    <3>1. InitRequest(at, n).type = "Init" /\ InitRequest(at, n).receiver = n
      BY DEF InitRequest
    <3> QED BY <2>8, <3>1
  <2>14. Step(t, n, out.s, reqs)
    BY <1>1, <2>3, <2>4, <2>5, <2>8, <2>9, <2>10, <2>11, <2>12, <2>13 DEF Step
  <2> QED BY <2>14
<1> QED BY <1>2, <1>3, StepCases

(* What such a step leaves alone, and how far it takes the nodes. *)
LEMMA StepEffects ==
  ASSUME TypeOK, LocalOK, Gathers, GatherInv, NEW t \in Upcoming, NEW n, NEW s, NEW reqs, Step(t, n, s, reqs)
  PROVE  /\ Last' = Last /\ Node' = Node /\ Live' = Live /\ (Acknowledges' <=> Acknowledges)
         /\ \A m : ChildrenOf(m)' = ChildrenOf(m)
         /\ local'[n] = s /\ \A m \in Node : m # n => local'[m] = local[m]
         /\ \A m \in Node : local[m].cur <= local'[m].cur /\ (HasSent(m) => HasSent(m)')
         /\ Reached' = IF t.type = "RecvEnd" THEN Reached \cup {n} ELSE Reached
<1>1. conf' = conf /\ n \in Node /\ local \in [Node -> State] /\ Last \in {2, 3}
  BY GatherPhases DEF Step, LocalOK
<1>2. Last' = Last /\ Node' = Node /\ Live' = Live /\ (Acknowledges' <=> Acknowledges)
  BY <1>1 DEF Last, Node, Live, Acknowledges
<1>3. \A m : ChildrenOf(m)' = ChildrenOf(m)
  BY <1>1 DEF ChildrenOf
<1>4. local'[n] = s /\ \A m \in Node : m # n => local'[m] = local[m]
  BY <1>1 DEF Step
<1>5. /\ local[n].cur \in 1 .. Last + 1 /\ local[n].toReceive \in Int /\ s.toReceive \in Int
      /\ HasSent(n) => local[n].cur = Last + 1
  BY <1>1 DEF LocalOK, State, Step, GatherInv, Complete
<1>6. local[n].cur <= s.cur /\ (HasSent(n) => s.toReceive = local[n].toReceive)
  <2>1. CASE Listens(n, t, s.cur, s, Sends(reqs))
    BY <1>5, <2>1 DEF Listens
  <2>2. CASE Relays(n, s.cur, s, Sends(reqs))
    BY <1>5, <2>2 DEF Relays
  <2>3. CASE Counts(n, t, s.cur, s, Sends(reqs)) \/ Reports(n, t, s.cur, s, Sends(reqs))
    BY <1>1, <1>5, <2>3 DEF Counts, Reports
  <2> QED BY <2>1, <2>2, <2>3 DEF Step, Acts
<1>7. HasSent(n) => HasSent(n)'
  BY <1>4, <1>6 DEF HasSent
<1>8. ASSUME NEW m \in Node
      PROVE  local[m].cur <= local'[m].cur /\ (HasSent(m) => HasSent(m)')
  <2>1. local[m].cur \in Int
    BY DEF LocalOK
  <2>2. CASE m = n
    BY <1>4, <1>6, <1>7, <2>2
  <2>3. CASE m # n
    BY <1>4, <2>1, <2>3 DEF HasSent
  <2> QED BY <2>2, <2>3
<1>9. Reached' = IF t.type = "RecvEnd" THEN Reached \cup {n} ELSE Reached
  <2>1. \A m \in Node : local'[m].reached <=> local[m].reached \/ (m = n /\ t.type = "RecvEnd")
    BY <1>4 DEF Step
  <2> QED BY <1>1, <1>2, <2>1 DEF Reached
<1> QED BY <1>2, <1>3, <1>4, <1>8, <1>9

(* Who begins to send: a node that relays the message to its children, or  *)
(* one that reports to its parent.                                         *)
LEMMA SendsOf ==
  ASSUME TypeOK, LocalOK, Gathers, GatherInv, NEW t \in Upcoming, NEW n, NEW s, NEW reqs, Step(t, n, s, reqs),
         NEW i \in DOMAIN reqs, reqs[i].type = "SendStart"
  PROVE  /\ reqs[i].sender = n /\ n \in Live
         /\ \/ /\ reqs[i].tag = "TREE" /\ Acknowledges /\ reqs[i].receiver \in ChildrenOf(n)
               /\ local[n].cur = 2 /\ local'[n].cur > 2
            \/ /\ reqs[i].tag = "GATHER" /\ reqs[i].receiver \in Node /\ n \in ChildrenOf(reqs[i].receiver)
               /\ ~ HasSent(n) /\ HasSent(n)' /\ Reports(n, t, s.cur, s, Sends(reqs))
<1>1. reqs[i] \in Sends(reqs)
  BY DEF Sends, RangeOf
<1>2. local'[n] = s
  BY StepEffects
<1>3. reqs[i].sender = n /\ n \in Live
  BY DEF Step, RangeOf
<1>4. CASE Relays(n, s.cur, s, Sends(reqs))
  BY <1>1, <1>2, <1>3, <1>4 DEF Relays
<1>5. CASE Reports(n, t, s.cur, s, Sends(reqs))
  <2>1. n \in Node /\ Last \in {2, 3} /\ local[n].toReceive \in Int
    BY GatherPhases DEF Step, LocalOK, State
  <2>2. ~ HasSent(n)
    <3>1. local[n].cur # Last + 1
      BY <1>5, <2>1 DEF Reports
    <3> QED BY <2>1, <3>1 DEF GatherInv, Complete
  <2>3. PICK k \in Int : k = Missing(n, t)
    BY <2>1 DEF Missing
  <2>4. HasSent(n)'
    BY <1>2, <1>5, <2>3 DEF HasSent, Reports
  <2> QED BY <1>1, <1>3, <1>5, <2>2, <2>4 DEF Reports
<1> QED BY <1>1, <1>4, <1>5 DEF Step, Acts, Listens, Counts

LEMMA StepEnded ==
  ASSUME TypeOK, LocalOK, Senders, Gathers, GatherInv, NEW t \in Upcoming, NEW n, NEW s, NEW reqs,
         Step(t, n, s, reqs)
  PROVE  Complete'
<1>1. Last' = Last /\ Node' = Node /\ local'[n] = s /\ \A m \in Node : m # n => local'[m] = local[m]
  BY StepEffects
<1>2. n \in Node /\ Last \in {2, 3} /\ local[n].toReceive \in Int /\ local[n].cur \in 1 .. Last + 1
  BY GatherPhases DEF Step, LocalOK, State
<1>3. local[n].toReceive >= -1 /\ (local[n].toReceive < 0 <=> local[n].cur = Last + 1)
  BY <1>2 DEF GatherInv, Complete, HasSent
<1>4. s.toReceive >= -1 /\ (s.toReceive < 0 <=> s.cur = Last + 1)
  <2>1. CASE Listens(n, t, s.cur, s, Sends(reqs))
    BY <1>2, <1>3, <2>1 DEF Listens
  <2>2. CASE Relays(n, s.cur, s, Sends(reqs))
    <3>1. Last = 3
      BY <2>2, GatherPhases DEF Relays
    <3> QED BY <1>2, <1>3, <2>2, <3>1 DEF Relays
  <2>3. CASE Counts(n, t, s.cur, s, Sends(reqs))
    BY <1>2, <2>3 DEF Counts, Missing
  <2>4. CASE Reports(n, t, s.cur, s, Sends(reqs))
    <3>1. local[n].cur = Last /\ local[n].toReceive >= 0
      BY <1>2, <1>3, <2>4 DEF Reports
    <3>2. t.type = "RecvEnd" => local[n].toReceive > 0
      <4>1. SUFFICES ASSUME t.type = "RecvEnd" PROVE local[n].toReceive > 0
        OBVIOUS
      <4>2. t \in queue /\ n = t.receiver
        BY <4>1 DEF Step
      <4>3. t.tag # "TREE"
        <5>1. SUFFICES ASSUME t.tag = "TREE" PROVE FALSE
          OBVIOUS
        <5>2. Acknowledges /\ local[n].cur <= 2
          BY <4>1, <4>2, <5>1, Arrives
        <5> QED BY <3>1, <5>2, GatherPhases
      <4> QED BY <4>1, <4>2, <4>3, Arrives
    <3> QED BY <1>2, <2>4, <3>1, <3>2 DEF Reports, Missing
  <2> QED BY <2>1, <2>2, <2>3, <2>4 DEF Step, Acts
<1>5. \A m \in Node : local'[m].toReceive >= -1 /\ (local'[m].toReceive < 0 <=> local'[m].cur = Last + 1)
  BY <1>1, <1>4 DEF GatherInv, Complete, HasSent
<1> QED BY <1>1, <1>5 DEF Complete, HasSent

LEMMA StepTraffic ==
  ASSUME TypeOK, NoTimewarp, LocalOK, Senders, Gathers, GatherInv,
         NEW t \in Upcoming, NEW n, NEW s, NEW reqs, Step(t, n, s, reqs)
  PROVE  Traffic'
<1>1. /\ \A m : ChildrenOf(m)' = ChildrenOf(m)
      /\ Acknowledges' <=> Acknowledges
      /\ \A m \in Node : local[m].cur <= local'[m].cur /\ (HasSent(m) => HasSent(m)')
      /\ Reached' = IF t.type = "RecvEnd" THEN Reached \cup {n} ELSE Reached
  BY StepEffects
<1>2. /\ n \in Node /\ Heap(t, RangeOf(reqs)) /\ Flows(t, reqs) /\ queue \subseteq Task
      /\ \A m \in Node : local[m].cur \in Int
  BY DEF Step, TypeOK, LocalOK
<1>3. PICK asked : asked = RangeOf(reqs) /\ Heap(t, asked) /\ Pop(t)
  BY <1>2 DEF Heap
<1>4. now' = Clock(t) /\ now \in Nat /\ now' \in Nat /\ now' >= now
  BY <1>3, PopClock DEF TypeOK
<1>5. \A m \in Node : local[m].cur > 2 => local'[m].cur > 2
  <2>1. SUFFICES ASSUME NEW m \in Node, local[m].cur > 2 PROVE local'[m].cur > 2
    OBVIOUS
  <2>2. PICK a \in Int : a = local[m].cur
    BY <1>2
  <2>3. PICK b \in Nat : b = local'[m].cur
    <3>1. local'[m] \in State
      BY StepEffects DEF LocalOK, Step
    <3> QED BY <3>1 DEF State
  <2> QED BY <1>1, <2>1, <2>2, <2>3
<1>6. ASSUME NEW u \in queue', u.type \in MessageTypes
      PROVE  \/ /\ u.tag = "TREE" /\ Acknowledges /\ u.receiver \in ChildrenOf(u.sender)
                /\ local'[u.sender].cur > 2 /\ u.receiver \notin Reached'
             \/ u.tag = "GATHER" /\ u.sender \in ChildrenOf(u.receiver) /\ HasSent(u.sender)'
  <2>1. ASSUME NEW v \in queue, v.type \in MessageTypes, u.tag = v.tag, u.sender = v.sender,
               u.receiver = v.receiver, t.type = "RecvEnd" => v # t
        PROVE  \/ /\ u.tag = "TREE" /\ Acknowledges /\ u.receiver \in ChildrenOf(u.sender)
                  /\ local'[u.sender].cur > 2 /\ u.receiver \notin Reached'
               \/ u.tag = "GATHER" /\ u.sender \in ChildrenOf(u.receiver) /\ HasSent(u.sender)'
    <3>1. v.sender \in Node /\ v.receiver \in Node
      BY <1>2 DEF Task
    <3>2. CASE /\ v.tag = "TREE" /\ Acknowledges /\ v.receiver \in ChildrenOf(v.sender)
               /\ local[v.sender].cur > 2 /\ v.receiver \notin Reached
      <4>1. t.type = "RecvEnd" => v.receiver # n
        <5>1. SUFFICES ASSUME t.type = "RecvEnd", v.receiver = n PROVE FALSE
          OBVIOUS
        <5>2. t \in queue /\ n = t.receiver /\ t \in Task
          BY <1>2, <5>1 DEF Step
        <5>3. CASE t.tag = "TREE"
          <6>1. t.receiver \in ChildrenOf(t.sender) /\ t.type \in MessageTypes
            BY <5>1, <5>2, <5>3 DEF GatherInv, Traffic, MessageTypes
          <6>2. t.sender = v.sender
            BY <3>1, <3>2, <5>1, <5>2, <6>1, Parents DEF Task
          <6> QED BY <2>1, <3>2, <5>1, <5>2, <5>3, <6>1, <6>2 DEF GatherInv, Lone
        <5>4. CASE t.tag = "GATHER"
          <6>1. local[n].cur = Last /\ Last = 3
            BY <3>2, <5>1, <5>2, <5>4, Arrives, GatherPhases
          <6>2. n \in Reached
            BY <1>2, <3>2, <6>1 DEF GatherInv, Descends
          <6> QED BY <3>2, <5>1, <6>2
        <5> QED BY <5>1, <5>2, <5>3, <5>4, Arrives
      <4> QED BY <1>1, <1>5, <2>1, <3>1, <3>2, <4>1
    <3>3. CASE v.tag = "GATHER" /\ v.sender \in ChildrenOf(v.receiver) /\ HasSent(v.sender)
      BY <1>1, <2>1, <3>1, <3>3
    <3> QED BY <2>1, <3>2, <3>3 DEF GatherInv, Traffic
  <2>2. CASE u \in queue /\ u # t
    BY <1>6, <2>1, <2>2
  <2>3. CASE t \in queue /\ t.type \in MessageTypes \ {"RecvEnd"} /\ Succeeds(t, u)
    <3>1. u.tag = t.tag /\ u.sender = t.sender /\ u.receiver = t.receiver
      BY <2>3 DEF Succeeds
    <3> QED BY <2>1, <2>3, <3>1
  <2>4. ASSUME NEW i \in DOMAIN reqs, reqs[i].type = "SendStart", u = Numbered(reqs[i], FirstSeq + i - 1)
        PROVE  \/ /\ u.tag = "TREE" /\ Acknowledges /\ u.receiver \in ChildrenOf(u.sender)
                  /\ local'[u.sender].cur > 2 /\ u.receiver \notin Reached'
               \/ u.tag = "GATHER" /\ u.sender \in ChildrenOf(u.receiver) /\ HasSent(u.sender)'
    <3>1. u.tag = reqs[i].tag /\ u.sender = reqs[i].sender /\ u.receiver = reqs[i].receiver
      BY <2>4 DEF Numbered
    <3>2. /\ reqs[i].sender = n
          /\ \/ /\ reqs[i].tag = "TREE" /\ Acknowledges /\ reqs[i].receiver \in ChildrenOf(n)
                /\ local[n].cur = 2 /\ local'[n].cur > 2
             \/ /\ reqs[i].tag = "GATHER" /\ reqs[i].receiver \in Node /\ n \in ChildrenOf(reqs[i].receiver)
                /\ HasSent(n)'
      BY <2>4, SendsOf
    <3>3. CASE /\ reqs[i].tag = "TREE" /\ Acknowledges /\ reqs[i].receiver \in ChildrenOf(n)
               /\ local[n].cur = 2 /\ local'[n].cur > 2
      <4>1. ChildrenOf(n) \cap Reached = {}
        BY <1>2, <3>3 DEF GatherInv, Descends
      <4>2. reqs[i].receiver # n
        BY <1>2, <3>3, Parents
      <4> QED BY <1>1, <3>1, <3>2, <3>3, <4>1, <4>2
    <3> QED BY <3>1, <3>2, <3>3
  <2> QED BY <1>2, <1>6, <2>2, <2>3, <2>4 DEF Flows
<1>7. ASSUME NEW u \in queue'
      PROVE  /\ u.tag = "GATHER" => u.type \in MessageTypes \cup {"Failure"}
             /\ u.type = "Init" => u.tag = "INIT" /\ u.time <= now'
  <2>1. CASE u \in Ready
    <3>1. CASE u \in queue
      <4>1. u.type = "Init" => u.tag = "INIT" /\ u.time <= now
        BY <3>1 DEF GatherInv, Traffic
      <4>2. u.time \in Nat
        BY <1>2, <3>1 DEF Task
      <4>3. u.tag = "GATHER" => u.type \in MessageTypes \cup {"Failure"}
        BY <3>1 DEF GatherInv, Traffic
      <4> QED BY <1>4, <4>1, <4>2, <4>3
    <3>2. CASE u.type = "Idle" /\ u.tag = "INTERNAL"
      BY <3>2
    <3> QED BY <2>1, <3>1, <3>2 DEF Ready, IdleTask
  <2>2. CASE Succeeds(t, u)
    BY <2>2 DEF Succeeds, Successors, MessageTypes
  <2>3. ASSUME NEW r \in asked, SameTask(u, r)
        PROVE  /\ u.tag = "GATHER" => u.type \in MessageTypes \cup {"Failure"}
               /\ u.type = "Init" => u.tag = "INIT" /\ u.time <= now'
    <3>1. (r.tag = "GATHER" => r.type = "SendStart") /\ (r.type = "Init" => r.tag = "INIT" /\ r.time = Clock(t))
      BY <1>3 DEF Step
    <3> QED BY <1>4, <2>3, <3>1 DEF SameTask, MessageTypes
  <2> QED BY <1>3, <2>1, <2>2, <2>3 DEF Heap, Origin
<1> QED BY <1>1, <1>6, <1>7 DEF Traffic

LEMMA StepLone ==
  ASSUME TypeOK, LocalOK, Gathers, GatherInv, TopIsUnique',
         NEW t \in Upcoming, NEW n, NEW s, NEW reqs, Step(t, n, s, reqs)
  PROVE  Lone'
<1>1. Flows(t, reqs) /\ Separate(reqs)
  BY DEF Step
<1> SUFFICES ASSUME NEW u \in queue', NEW v \in queue', u.type \in MessageTypes, v.type \in MessageTypes,
                    u.tag = v.tag, u.sender = v.sender, u.receiver = v.receiver
             PROVE  u = v
  BY DEF Lone
<1> DEFINE Goes(x) == x \in queue /\ x # t
           Follows(x) == t \in queue /\ t.type \in MessageTypes \ {"RecvEnd"} /\ Succeeds(t, x)
           IsNew(x) == \E i \in DOMAIN reqs : /\ reqs[i].type = "SendStart"
                                                /\ x = Numbered(reqs[i], FirstSeq + i - 1)
<1>2. \A x \in {u, v} : Goes(x) \/ Follows(x) \/ IsNew(x)
  BY <1>1 DEF Flows
<1>3. \A x : Follows(x) => x.tag = t.tag /\ x.sender = t.sender /\ x.receiver = t.receiver /\ x.seq = t.seq
  BY DEF Succeeds
<1>4. ASSUME NEW x \in {u, v}, IsNew(x), NEW w \in queue, w.type \in MessageTypes
      PROVE  ~ (w.tag = x.tag /\ w.sender = x.sender /\ w.receiver = x.receiver)
  <2>1. PICK i \in DOMAIN reqs : reqs[i].type = "SendStart" /\ x = Numbered(reqs[i], FirstSeq + i - 1)
    BY <1>4
  <2>2. x.tag = reqs[i].tag /\ x.sender = reqs[i].sender
    BY <2>1 DEF Numbered
  <2>3. /\ reqs[i].sender = n
        /\ (reqs[i].tag = "TREE" /\ local[n].cur = 2) \/ (reqs[i].tag = "GATHER" /\ ~ HasSent(n))
    BY <2>1, SendsOf
  <2>4. (w.tag = "TREE" /\ local[w.sender].cur > 2) \/ (w.tag = "GATHER" /\ HasSent(w.sender))
    BY <1>4 DEF GatherInv, Traffic
  <2> QED BY <2>2, <2>3, <2>4
<1>5. CASE IsNew(u) /\ IsNew(v)
  <2>1. PICK i \in DOMAIN reqs : reqs[i].type = "SendStart" /\ u = Numbered(reqs[i], FirstSeq + i - 1)
    BY <1>5
  <2>2. PICK j \in DOMAIN reqs : reqs[j].type = "SendStart" /\ v = Numbered(reqs[j], FirstSeq + j - 1)
    BY <1>5
  <2>3. reqs[i].receiver = u.receiver /\ reqs[j].receiver = v.receiver
    BY <2>1, <2>2 DEF Numbered
  <2>4. i = j
    BY <1>1, <2>1, <2>2, <2>3 DEF Separate
  <2> QED BY <2>1, <2>2, <2>4
<1>6. CASE ~ IsNew(u) /\ ~ IsNew(v)
  <2>1. CASE Goes(u) /\ Goes(v)
    BY <2>1 DEF GatherInv, Lone
  <2>2. CASE Goes(u) /\ Follows(v)
    BY <1>3, <2>2 DEF GatherInv, Lone
  <2>3. CASE Follows(u) /\ Goes(v)
    BY <1>3, <2>3 DEF GatherInv, Lone
  <2>4. CASE Follows(u) /\ Follows(v)
    BY <1>3, <2>4 DEF TopIsUnique
  <2> QED BY <1>2, <1>6, <2>1, <2>2, <2>3, <2>4
<1>7. CASE IsNew(u) /\ ~ IsNew(v)
  <2>1. CASE Goes(v)
    BY <1>4, <1>7, <2>1
  <2>2. CASE Follows(v)
    BY <1>3, <1>4, <1>7, <2>2
  <2> QED BY <1>2, <1>7, <2>1, <2>2
<1>8. CASE ~ IsNew(u) /\ IsNew(v)
  <2>1. CASE Goes(u)
    BY <1>4, <1>8, <2>1
  <2>2. CASE Follows(u)
    BY <1>3, <1>4, <1>8, <2>2
  <2> QED BY <1>2, <1>8, <2>1, <2>2
<1> QED BY <1>5, <1>6, <1>7, <1>8

LEMMA StepDescends ==
  ASSUME TypeOK, LocalOK, Senders, Gathers, GatherInv,
         NEW t \in Upcoming, NEW n, NEW s, NEW reqs, Step(t, n, s, reqs)
  PROVE  Descends'
<1> SUFFICES ASSUME Acknowledges', NEW m \in Node'
             PROVE  /\ local'[m].cur > 2 => m \in Reached'
                    /\ ChildrenOf(m)' \cap Reached' # {} => local'[m].cur > 2
  BY DEF Descends
<1>1. /\ Node' = Node /\ Acknowledges /\ Last = 3 /\ ChildrenOf(m)' = ChildrenOf(m)
      /\ local'[n] = s /\ \A k \in Node : k # n => local'[k] = local[k]
      /\ Reached' = IF t.type = "RecvEnd" THEN Reached \cup {n} ELSE Reached
  BY StepEffects, GatherPhases
<1>2. n \in Node /\ m \in Node /\ local[m].cur \in Int /\ local[n].cur \in Int /\ s.cur \in Int
  BY <1>1 DEF Step, LocalOK, State
<1>3. local[m].cur <= local'[m].cur
  BY <1>2, StepEffects
<1>4. \A k \in Node : /\ local[k].cur > 2 => k \in Reached
                      /\ ChildrenOf(k) \cap Reached # {} => local[k].cur > 2
  BY <1>1 DEF GatherInv, Descends
<1>5. local'[m].cur > 2 => m \in Reached'
  <2>1. CASE m # n
    BY <1>1, <1>2, <1>4, <2>1
  <2>2. CASE m = n /\ local[n].cur > 2
    BY <1>1, <1>2, <1>4, <2>2
  <2>3. CASE m = n /\ ~ (local[n].cur > 2) /\ s.cur > 2
    <3>1. Relays(n, s.cur, s, Sends(reqs))
      BY <1>1, <1>2, <2>3 DEF Step, Acts, Listens, Counts, Reports
    <3>2. n \in Reached'
      <4>1. s.reached /\ (s.reached <=> local[n].reached \/ t.type = "RecvEnd")
        BY <3>1 DEF Relays, Step
      <4> QED BY <1>1, <1>2, <4>1 DEF Reached
    <3> QED BY <2>3, <3>2
  <2> QED BY <1>1, <2>1, <2>2, <2>3
<1>6. ChildrenOf(m) \cap Reached' # {} => local[m].cur > 2
  <2>1. CASE ChildrenOf(m) \cap Reached # {}
    BY <1>2, <1>4, <2>1
  <2>2. CASE t.type = "RecvEnd" /\ n \in ChildrenOf(m) /\ n \notin Reached
    <3>1. t \in queue /\ n = t.receiver /\ t \in Task
      BY <2>2 DEF Step, TypeOK
    <3>2. t.tag = "TREE"
      <4>1. t.tag = "GATHER" => local[n].cur = 3
        BY <1>1, <2>2, <3>1, Arrives
      <4> QED BY <1>2, <1>4, <2>2, <3>1, <4>1, Arrives
    <3>3. n \in ChildrenOf(t.sender) /\ local[t.sender].cur > 2
      BY <2>2, <3>1, <3>2 DEF GatherInv, Traffic, MessageTypes
    <3>4. t.sender = m
      BY <1>2, <2>2, <3>1, <3>3, Parents DEF Task
    <3> QED BY <3>3, <3>4
  <2> QED BY <1>1, <2>1, <2>2
<1>7. local[m].cur > 2 => local'[m].cur > 2
  <2>1. local'[m].cur \in Int
    BY <1>1, <1>2
  <2> QED BY <1>2, <1>3, <2>1
<1> QED BY <1>1, <1>5, <1>6, <1>7

LEMMA StepEarly ==
  ASSUME TypeOK, NoTimewarp, LocalOK, Guided, Gathers, GatherInv,
         NEW t \in Upcoming, NEW n, NEW s, NEW reqs, Step(t, n, s, reqs)
  PROVE  Early'
<1> SUFFICES ASSUME NEW m \in Live', local'[m].cur = 1, NEW u \in queue', u.type \in MessageTypes
             PROVE  u.type = "SendStart"
  BY DEF Early
<1>1. Live' = Live /\ m \in Node /\ local[m].cur = 1
  <2>1. Live' = Live /\ m \in Node
    BY StepEffects DEF Live
  <2>2. local[m].cur <= local'[m].cur /\ local[m].cur \in 1 .. Last + 1 /\ Last \in Nat
    BY <2>1, StepEffects, GatherPhases DEF LocalOK
  <2> QED BY <2>1, <2>2
<1>2. PICK v \in queue : v.type = "Init"
  <2>1. PICK ph : ph = conf.phases[1] /\ ph \in {DepInit, ReductionDepInit}
    BY GatherPhases
  <2>2. /\ ph.kind \in {"DepInit", "ReductionDepInit"} /\ ph.exclusive = FALSE
    BY <2>1 DEF DepInit, ReductionDepInit
  <2>3. 1 <= Last
    BY GatherPhases
  <2>4. Cued(m, ph)
    BY <1>1, <2>1, <2>2, <2>3 DEF Guided, Guide, KeepsTime
  <2> QED BY <2>2, <2>4 DEF Cued, IsCue, Corrects
<1>3. t.type # "SendStart"
  <2>1. v.tag = "INIT" /\ v.time <= now /\ v.time \in Nat
    BY <1>2 DEF GatherInv, Traffic, TypeOK, Task
  <2>2. Pop(t)
    BY DEF Step, Heap
  <2>3. now' = Clock(t) /\ now \in Nat /\ now' \in Nat /\ now' >= now
    BY <2>2, PopClock DEF TypeOK
  <2>4. v.time <= t.time \/ t.type = "Finish"
    BY <2>1, <2>3 DEF Clock
  <2> QED BY <1>2, <2>1, <2>4, InitComesFirst
<1>4. \A w \in queue : w.type \in MessageTypes => w.type = "SendStart"
  BY <1>1 DEF GatherInv, Early
<1>5. ASSUME NEW i \in DOMAIN reqs, reqs[i].type = "SendStart", u = Numbered(reqs[i], FirstSeq + i - 1)
      PROVE  u.type = "SendStart"
  BY <1>5 DEF Numbered
<1> QED BY <1>3, <1>4, <1>5 DEF Step, Flows

(* A report is waited for until it is received, and no longer. *)
Delivers(t) == t.type = "RecvEnd" /\ t.tag = "GATHER"

LEMMA StillAwaited ==
  ASSUME TypeOK, LocalOK, Senders, Counted, Gathers, GatherInv,
         NEW t \in Upcoming, NEW n, NEW s, NEW reqs, Step(t, n, s, reqs),
         NEW m \in Live, NEW c \in Awaited(m), ~ (Delivers(t) /\ n = m /\ c = t.sender)
  PROVE  c \in Awaited(m)'
<1>1. /\ ChildrenOf(m)' = ChildrenOf(m) /\ c \in ChildrenOf(m) /\ m \in Node /\ c \in Node /\ n \in Node
      /\ local'[n] = s /\ \A k \in Node : k # n => local'[k] = local[k]
  <2>1. c \in ChildrenOf(m) /\ m \in Node /\ n \in Node
    BY DEF Awaited, Live, Step
  <2>2. c \in Node
    BY <2>1, Parents
  <2> QED BY <2>1, <2>2, StepEffects
<1>2. PICK asked : asked = RangeOf(reqs) /\ Heap(t, asked)
  BY DEF Step
<1>3. SUFFICES ASSUME HasSent(c)'
      PROVE  \E u \in queue' : u.tag = "GATHER" /\ u.sender = c /\ u.receiver = m
  BY <1>1 DEF Awaited
<1>4. CASE ~ HasSent(c)
  <2>1. c = n
    BY <1>1, <1>3, <1>4 DEF HasSent
  <2>2. Reports(n, t, s.cur, s, Sends(reqs))
    <3>1. s.toReceive # local[n].toReceive
      BY <1>1, <1>3, <1>4, <2>1 DEF HasSent
    <3>2. ~ Counts(n, t, s.cur, s, Sends(reqs))
      <4>1. PICK k \in Int : k = Missing(n, t)
        BY <1>1 DEF Missing, LocalOK, State
      <4> QED BY <1>1, <1>3, <2>1, <4>1 DEF Counts, HasSent
    <3> QED BY <3>1, <3>2 DEF Step, Acts, Listens, Relays
  <2>3. PICK r \in Sends(reqs) : r.receiver = m /\ r.tag = "GATHER" /\ r.sender = n
    BY <1>1, <2>1, <2>2 DEF Reports
  <2>4. r \in asked /\ r.type = "SendStart" /\ n \in Live
    BY <1>2, <2>3 DEF Sends, Step
  <2>5. \E u \in queue' : SameTask(u, r)
    BY <1>2, <2>3, <2>4 DEF Heap, Live
  <2> QED BY <2>1, <2>3, <2>5 DEF SameTask
<1>5. CASE HasSent(c)
  <2>1. PICK u \in queue : u.tag = "GATHER" /\ u.sender = c /\ u.receiver = m
    BY <1>5 DEF Awaited
  <2>2. u.type \in MessageTypes
    BY <2>1 DEF GatherInv, Traffic, Counted, Live
  <2>3. CASE u # t
    BY <1>2, <2>1, <2>3, ReadyType DEF Heap
  <2>4. CASE u = t
    <3>1. t.type # "RecvEnd"
      BY <2>1, <2>4 DEF Step, Delivers
    <3>2. t.sender \in Live /\ t.receiver \in Live
      BY <2>1, <2>2, <2>4 DEF Senders
    <3>3. \E v \in queue' : Succeeds(t, v)
      BY <1>2, <2>2, <2>4, <3>1, <3>2 DEF Heap, Continues, MessageTypes, Live
    <3> QED BY <2>1, <2>4, <3>3 DEF Succeeds
  <2> QED BY <2>3, <2>4
<1> QED BY <1>4, <1>5

LEMMA WasAwaited ==
  ASSUME TypeOK, LocalOK, Senders, Counted', Traffic', Gathers, GatherInv,
         NEW t \in Upcoming, NEW n, NEW s, NEW reqs, Step(t, n, s, reqs),
         NEW m \in Live, NEW c \in Awaited(m)'
  PROVE  c \in Awaited(m) /\ ~ (Delivers(t) /\ n = m /\ c = t.sender)
<1>1. /\ ChildrenOf(m)' = ChildrenOf(m) /\ c \in ChildrenOf(m) /\ m \in Node /\ c \in Node
      /\ HasSent(c) => HasSent(c)'
      /\ Live' = Live /\ conf' = conf
  <2>1. m \in Node /\ ChildrenOf(m)' = ChildrenOf(m) /\ Live' = Live
    BY StepEffects DEF Live
  <2>2. c \in ChildrenOf(m)
    BY <2>1 DEF Awaited
  <2>3. c \in Node
    BY <2>1, <2>2, Parents
  <2>4. HasSent(c) => HasSent(c)'
    BY <2>3, StepEffects
  <2> QED BY <2>1, <2>2, <2>3, <2>4 DEF Step
<1>2. Delivers(t) => HasSent(t.sender) /\ t \in queue /\ n = t.receiver
  BY Arrives DEF Delivers, Step
<1>3. CASE ~ HasSent(c)'
  BY <1>1, <1>2, <1>3 DEF Awaited
<1>4. ASSUME NEW u \in queue', u.tag = "GATHER", u.sender = c, u.receiver = m
      PROVE  c \in Awaited(m) /\ ~ (Delivers(t) /\ n = m /\ c = t.sender)
  <2>1. u.type \in MessageTypes
    BY <1>1, <1>4 DEF Traffic, Counted, Live
  <2>2. CASE u \in queue /\ u # t
    <3>1. c \in Awaited(m)
      BY <1>1, <1>4, <2>2 DEF Awaited
    <3>2. ASSUME Delivers(t), n = m, c = t.sender PROVE FALSE
      BY <1>2, <1>4, <2>1, <2>2, <3>2 DEF GatherInv, Lone, Delivers, MessageTypes
    <3> QED BY <3>1, <3>2
  <2>3. CASE t \in queue /\ t.type \in MessageTypes \ {"RecvEnd"} /\ Succeeds(t, u)
    <3>1. t.tag = "GATHER" /\ t.sender = c /\ t.receiver = m
      BY <1>4, <2>3 DEF Succeeds
    <3> QED BY <1>1, <2>3, <3>1 DEF Awaited, Delivers
  <2>4. ASSUME NEW i \in DOMAIN reqs, reqs[i].type = "SendStart", u = Numbered(reqs[i], FirstSeq + i - 1)
        PROVE  c \in Awaited(m) /\ ~ (Delivers(t) /\ n = m /\ c = t.sender)
    <3>1. reqs[i].tag = "GATHER" /\ reqs[i].sender = c
      BY <1>4, <2>4 DEF Numbered
    <3>2. ~ HasSent(c)
      BY <2>4, <3>1, SendsOf
    <3> QED BY <1>1, <1>2, <3>2 DEF Awaited
  <2> QED BY <2>1, <2>2, <2>3, <2>4 DEF Step, Flows
<1> QED BY <1>3, <1>4 DEF Awaited

LEMMA StepExpected ==
  ASSUME TypeOK, LocalOK, Senders, Counted, Counted', Traffic', Gathers, GatherInv,
         NEW t \in Upcoming, NEW n, NEW s, NEW reqs, Step(t, n, s, reqs)
  PROVE  Expected'
<1> SUFFICES ASSUME NEW m \in Live
             PROVE  LaterOf(local'[m].toReceive, 0) = Cardinality(Awaited(m)')
  BY StepEffects DEF Expected
<1>1. /\ n \in Node /\ m \in Node /\ Last \in {2, 3}
      /\ local'[n] = s /\ \A k \in Node : k # n => local'[k] = local[k]
      /\ LaterOf(local[m].toReceive, 0) = Cardinality(Awaited(m))
      /\ local[n].toReceive \in Int
  BY StepEffects, GatherPhases DEF Step, Live, GatherInv, Expected, LocalOK, State
<1>2. IsFiniteSet(Awaited(m)) /\ Cardinality(Awaited(m)) \in Nat
  <2>1. Awaited(m) \subseteq Node
    BY <1>1, Parents DEF Awaited
  <2> QED BY <2>1, NodeSets
<1>3. CASE Delivers(t) /\ n = m
  <2>1. t \in queue /\ n = t.receiver
    BY <1>3 DEF Delivers, Step
  <2>2. t.sender \in Awaited(m) /\ local[n].cur = Last /\ local[n].toReceive > 0
    BY <1>3, <2>1, Arrives DEF Delivers
  <2>3. Awaited(m)' = Awaited(m) \ {t.sender}
    BY <1>3, StillAwaited, WasAwaited
  <2>4. PICK k \in Nat : k = local[n].toReceive /\ k > 0
    BY <1>1, <2>2
  <2>5. Cardinality(Awaited(m)) = k
    BY <1>1, <1>3, <2>4 DEF LaterOf
  <2>6. Cardinality(Awaited(m)') = k - 1
    BY <1>2, <2>2, <2>3, <2>5, FS_RemoveElement
  <2>7. Missing(n, t) = k - 1
    BY <1>3, <2>4 DEF Missing, Delivers
  <2>8. LaterOf(s.toReceive, 0) = k - 1
    <3>1. CASE Counts(n, t, s.cur, s, Sends(reqs))
      BY <2>4, <2>7, <3>1 DEF Counts, LaterOf
    <3>2. CASE Reports(n, t, s.cur, s, Sends(reqs))
      BY <2>4, <2>7, <3>2 DEF Reports, LaterOf
    <3>3. ~ Relays(n, s.cur, s, Sends(reqs))
      BY <2>2, GatherPhases DEF Relays
    <3>4. ~ Listens(n, t, s.cur, s, Sends(reqs))
      BY <1>3, <2>2 DEF Listens, Delivers
    <3> QED BY <3>1, <3>2, <3>3, <3>4 DEF Step, Acts
  <2> QED BY <1>1, <1>3, <2>6, <2>8
<1>4. CASE ~ (Delivers(t) /\ n = m)
  <2>1. Awaited(m)' = Awaited(m)
    BY <1>4, StillAwaited, WasAwaited
  <2>2. CASE m # n
    BY <1>1, <2>1, <2>2
  <2>3. CASE m = n
    <3>1. t.type = "RecvEnd" => local[n].cur # Last
      <4>1. SUFFICES ASSUME t.type = "RecvEnd" PROVE local[n].cur # Last
        OBVIOUS
      <4>2. t \in queue /\ n = t.receiver
        BY <4>1 DEF Step
      <4>3. t.tag = "TREE"
        BY <1>4, <2>3, <4>1, <4>2, Arrives DEF Delivers
      <4>4. Acknowledges /\ local[n].cur <= 2
        BY <4>1, <4>2, <4>3, Arrives
      <4> QED BY <4>4, GatherPhases
    <3>2. LaterOf(s.toReceive, 0) = LaterOf(local[n].toReceive, 0)
      <4>1. CASE Listens(n, t, s.cur, s, Sends(reqs))
        BY <4>1 DEF Listens
      <4>2. CASE Relays(n, s.cur, s, Sends(reqs))
        BY <4>2 DEF Relays
      <4>3. ~ Counts(n, t, s.cur, s, Sends(reqs))
        BY <3>1 DEF Counts
      <4>4. CASE Reports(n, t, s.cur, s, Sends(reqs))
        <5>1. s.toReceive = local[n].toReceive - 1 /\ local[n].toReceive <= 0
          BY <1>1, <3>1, <4>4 DEF Reports, Missing
        <5> QED BY <1>1, <5>1 DEF LaterOf
      <4> QED BY <4>1, <4>2, <4>3, <4>4 DEF Step, Acts
    <3> QED BY <1>1, <2>1, <2>3, <3>2
  <2> QED BY <2>2, <2>3
<1> QED BY <1>3, <1>4

LEMMA StepKeepsGather ==
  ASSUME TypeOK, NoTimewarp, TopIsUnique', LocalOK, Senders, Guided, Counted, Counted', Gathers, GatherInv,
         NEW t \in Upcoming, NEW n, NEW s, NEW reqs, Step(t, n, s, reqs)
  PROVE  GatherInv'
<1>1. Traffic'
  BY StepTraffic
<1>2. Lone' /\ Early' /\ Descends' /\ Complete'
  BY StepLone, StepEarly, StepDescends, StepEnded
<1>3. Expected'
  BY <1>1, StepExpected
<1> QED BY <1>1, <1>2, <1>3 DEF GatherInv

(* Every task is popped, whatever becomes of it. *)
LEMMA TakesPop ==
  ASSUME NEW t, Take(t)
  PROVE  Pop(t)
<1>1. CASE Notify(t)
  <2>1. PICK out, reqs : Serve(t, out, reqs)
    BY <1>1 DEF Notify
  <2>2. CASE Finish(t, reqs)
    BY <2>2 DEF Finish
  <2>3. CASE SendStart(t, reqs) \/ RecvStart(t, reqs)
    BY <2>3 DEF SendStart, RecvStart
  <2>4. CASE SendEnd(t, reqs) \/ Idle(t, reqs) \/ Timer(t, reqs) \/ Init(t, reqs) \/ RecvEnd(t, reqs, out.again)
    BY <2>4 DEF SendEnd, Idle, Timer, Init, RecvEnd, Pass
  <2> QED BY <2>1, <2>2, <2>3, <2>4 DEF Serve
<1>2. CASE LeavePhase(t)
  BY <1>2 DEF LeavePhase, Leave
<1>3. CASE Silent(t)
  BY <1>3 DEF Silent, DelaySend, DelayRecv, Reschedule, Msg, Pass, Failure, ThrowFinish
<1> QED BY <1>1, <1>2, <1>3 DEF Take

(* The loop waits, or is left: the clock alone may have moved on. *)
LEMMA RestKeepsGather ==
  ASSUME TypeOK, NoTimewarp, GatherInv, Rests, [CNext]_vars
  PROVE  GatherInv'
<1>1. conf' = conf /\ queue' = queue /\ local' = local
  BY DEF Rests, cvars
<1>2. /\ Last' = Last /\ Node' = Node /\ Live' = Live /\ (Acknowledges' <=> Acknowledges) /\ Reached' = Reached
      /\ \A m : ChildrenOf(m)' = ChildrenOf(m) /\ (HasSent(m)' <=> HasSent(m))
  BY <1>1 DEF Last, Node, Live, Acknowledges, Reached, ChildrenOf, HasSent
<1>3. now \in Nat /\ now' \in Nat /\ now' >= now
  <2>1. now \in Nat
    BY DEF TypeOK
  <2>2. CASE \E t \in Upcoming : Take(t)
    BY <2>1, <2>2, TakesPop, PopClock
  <2>3. CASE now' = now
    BY <2>1, <2>3
  <2> QED BY <2>2, <2>3 DEF CNext, vars, qvars, EmptyPop, Stopped
<1>4. Traffic'
  <2>1. \A t \in queue : t.time \in Nat
    BY DEF TypeOK, Task
  <2>2. ASSUME NEW t \in queue
        PROVE  /\ t.type \in MessageTypes =>
                    \/ /\ t.tag = "TREE" /\ Acknowledges /\ t.receiver \in ChildrenOf(t.sender)
                       /\ local[t.sender].cur > 2 /\ t.receiver \notin Reached
                    \/ t.tag = "GATHER" /\ t.sender \in ChildrenOf(t.receiver) /\ HasSent(t.sender)
               /\ t.tag = "GATHER" => t.type \in MessageTypes \cup {"Failure"}
               /\ t.type = "Init" => t.tag = "INIT" /\ t.time <= now'
    <3>1. t.type = "Init" => t.tag = "INIT" /\ t.time <= now
      BY DEF GatherInv, Traffic
    <3> QED BY <1>3, <2>1, <3>1 DEF GatherInv, Traffic
  <2> QED BY <1>1, <1>2, <2>2 DEF Traffic
<1>5. Lone' /\ Early' /\ Descends' /\ Complete'
  BY <1>1, <1>2 DEF GatherInv, Lone, Early, Descends, Complete
<1>6. Expected'
  BY <1>1, <1>2 DEF GatherInv, Expected, Awaited
<1> QED BY <1>4, <1>5, <1>6 DEF GatherInv

(* The children of a node, counted. *)
LEMMA ChildCount ==
  ASSUME TypeOK, Gathers, NEW n \in Node
  PROVE  Len(conf.receivers[n]) \in Nat /\ Cardinality(ChildrenOf(n)) = Len(conf.receivers[n])
<1>1. PICK f \in Seq(Node) : f = conf.receivers[n]
  BY CollectiveType
<1>2. PICK k \in Nat : k = Len(f) /\ DOMAIN f = 1 .. k
  OBVIOUS
<1>3. \A i, j \in 1 .. k : f[i] = f[j] => i = j
  BY <1>1, <1>2 DEF Gathers, OneParent
<1>4. ChildrenOf(n) = {f[i] : i \in 1 .. k}
  BY <1>1, <1>2 DEF ChildrenOf
<1>5. PICK g : g = [i \in 1 .. k |-> f[i]]
  OBVIOUS
<1>6. g \in Bijection(1 .. k, ChildrenOf(n))
  BY <1>3, <1>4, <1>5 DEF Bijection, Injection, Surjection, IsInjective
<1>7. Cardinality(ChildrenOf(n)) = k
  BY <1>2, <1>6, FS_CountingElements DEF ExistsBijection
<1> QED BY <1>1, <1>2, <1>7

LEMMA InitSilent ==
  ASSUME NEW first \in Nat, CStart(first), Gathers
  PROVE  {n \in Node : HasSent(n)} = {}
<1>1. TypeOK
  BY InitInvariant DEF CStart, IInv
<1>2. \A n \in Node : local[n].toReceive = Len(conf.receivers[n])
  BY DEF CStart, InitialState
<1>3. \A n \in Node : Len(conf.receivers[n]) \in Nat
  BY <1>1, ChildCount
<1> QED BY <1>2, <1>3 DEF HasSent

LEMMA InitGather ==
  ASSUME NEW first \in Nat, CStart(first), Gathers
  PROVE  GatherInv
<1>1. TypeOK
  BY InitInvariant DEF CStart, IInv
<1>2. Last \in {2, 3}
  BY GatherPhases
<1>3. \A n \in Node : /\ local[n].cur = 1 /\ local[n].toReceive = Len(conf.receivers[n])
                      /\ local[n].reached <=> n \in FirstReached
  BY DEF CStart, InitialState
<1>4. \A t \in queue : t.type \in {"Failure", "Init"} /\ t.tag = "INIT" /\ t.time = 0
  BY DEF CStart, QStart, AllAdmitted, Admitted
<1>5. \A n \in Node : local[n].toReceive \in Nat /\ local[n].toReceive = Cardinality(ChildrenOf(n))
  BY <1>1, <1>3, ChildCount
<1>6. \A n \in Node : ~ HasSent(n)
  BY <1>5 DEF HasSent
<1>7. Traffic /\ Lone /\ Early
  <2>1. now = 0
    BY DEF CStart, QStart
  <2> QED BY <1>4, <2>1 DEF Traffic, Lone, Early, MessageTypes
<1>8. Descends
  <2>1. SUFFICES ASSUME Acknowledges, NEW n \in Node PROVE ~ (local[n].cur > 2) /\ ChildrenOf(n) \cap Reached = {}
    BY DEF Descends
  <2>2. \A i \in 1 .. Last : conf.phases[i].kind # "ReductionDepInit"
    <3>1. PICK init, tree, gather : init = DepInit /\ tree = PlainTree /\ gather = GatherPhase
      OBVIOUS
    <3>2. init.kind = "DepInit" /\ tree.kind = "Tree" /\ gather.kind = "Gather"
      BY <3>1 DEF DepInit, PlainTree, TreePhase, GatherPhase
    <3>3. \A i \in 1 .. Last : conf.phases[i] = init \/ conf.phases[i] = tree \/ conf.phases[i] = gather
      <4>1. \A i \in 1 .. 3 : i = 1 \/ i = 2 \/ i = 3
        OBVIOUS
      <4> QED BY <2>1, <3>1, <4>1, GatherPhases
    <3> QED BY <3>2, <3>3
  <2>3. FirstReached = {0}
    BY <2>2 DEF FirstReached
  <2>4. 0 \notin ChildrenOf(n)
    BY <1>1, <2>1, CollectiveType DEF IsCollective, ChildrenOf, Node
  <2>5. ~ (local[n].cur > 2)
    BY <1>3
  <2> QED BY <1>3, <2>3, <2>4, <2>5 DEF Reached
<1>9. Complete
  BY <1>2, <1>3, <1>5, <1>6 DEF Complete
<1>10. Expected
  <2>1. \A n \in Node : Awaited(n) = ChildrenOf(n)
    BY <1>1, <1>6, Parents DEF Awaited
  <2> QED BY <1>5, <2>1 DEF Expected, LaterOf, Live
<1> QED BY <1>7, <1>8, <1>9, <1>10 DEF GatherInv

(* A step of the convergecast, or none. *)
LEMMA StepConverges ==
  ASSUME TypeOK, LocalOK, Gathers, GatherInv, GatherInv',
         NEW t \in Upcoming, NEW n, NEW s, NEW reqs, Step(t, n, s, reqs)
  PROVE  [Convergecast!Next]_(Convergecast!vars)
<1>1. /\ Node' = Node /\ Live' = Live /\ n \in Node /\ \A m : ChildrenOf(m)' = ChildrenOf(m)
      /\ local'[n] = s /\ \A m \in Node : m # n => local'[m] = local[m]
      /\ \A m \in Node : HasSent(m) => HasSent(m)'
  <2>1. n \in Node
    BY DEF Step
  <2> QED BY <2>1, StepEffects
<1>2. [m \in Node |-> ChildrenOf(m)]' = [m \in Node |-> ChildrenOf(m)]
  BY <1>1
<1>3. CASE HasSent(n) \/ ~ HasSent(n)'
  <2>1. {m \in Node : HasSent(m)}' = {m \in Node : HasSent(m)}
    BY <1>1, <1>3 DEF HasSent
  <2> QED BY <1>1, <1>2, <2>1 DEF Convergecast!vars
<1>4. CASE ~ HasSent(n) /\ HasSent(n)'
  <2>1. n \in Live
    BY <1>1, <1>4 DEF Step, HasSent
  <2>2. Awaited(n)' = {}
    <3>1. LaterOf(local'[n].toReceive, 0) = Cardinality(Awaited(n)')
      BY <1>1, <2>1 DEF GatherInv, Expected
    <3>2. local'[n].toReceive < 0 /\ local'[n].toReceive \in Int
      BY <1>1, <1>4 DEF HasSent, Step, State
    <3>3. Cardinality(Awaited(n)') = 0
      BY <3>1, <3>2 DEF LaterOf
    <3>4. Awaited(n)' \subseteq Node
      <4>1. ChildrenOf(n)' \subseteq Node
        BY <1>1, Parents
      <4> QED BY <4>1 DEF Awaited
    <3>5. IsFiniteSet(Awaited(n)')
      BY <3>4, NodeSets
    <3> QED BY <3>3, <3>5, FS_EmptySet
  <2>3. ChildrenOf(n) \subseteq {m \in Node : HasSent(m)}
    <3>1. ASSUME NEW m \in ChildrenOf(n) PROVE m \in Node /\ HasSent(m)
      <4>1. m \in Node /\ m # n
        BY <1>1, Parents
      <4>2. HasSent(m)'
        BY <1>1, <2>2 DEF Awaited
      <4> QED BY <1>1, <4>1, <4>2 DEF HasSent
    <3> QED BY <3>1
  <2>4. {m \in Node : HasSent(m)}' = {m \in Node : HasSent(m)} \cup {n}
    BY <1>1, <1>4 DEF HasSent
  <2>5. Convergecast!Report(n)
    BY <1>1, <1>2, <1>4, <2>1, <2>3, <2>4 DEF Convergecast!Report
  <2> QED BY <1>1, <2>5 DEF Convergecast!Next
<1> QED BY <1>3, <1>4

(***************************************************************************)
(* The theorems.  Both styles, every tree in which nobody has two parents, *)
(* every failure pattern and LogP machine.                                 *)
(***************************************************************************)
AckInv == CompInv /\ TopIsUnique /\ (Gathers => GatherInv)

LEMMA AckSteps ==
  AckInv /\ TopIsUnique' /\ [CNext]_vars
    => AckInv' /\ (Gathers' <=> Gathers) /\ (Gathers => [Convergecast!Next]_(Convergecast!vars))
<1> SUFFICES ASSUME AckInv, TopIsUnique', [CNext]_vars
             PROVE  AckInv' /\ (Gathers' <=> Gathers) /\ (Gathers => [Convergecast!Next]_(Convergecast!vars))
  OBVIOUS
<1>1. /\ TypeOK /\ NoTimewarp /\ LocalOK /\ StartUp /\ CInv
      /\ Senders /\ OneWait /\ Guided /\ Counted
  BY DEF AckInv, CompInv, CInv, IInv
<1>2. CompInv' /\ Counted' /\ conf' = conf
  <2>1. CInv'
    BY <1>1, StepCInv
  <2>2. TypeOK' /\ CountMatchesPending'
    BY <2>1 DEF CInv, IInv
  <2>3. Senders' /\ OneWait' /\ Guided' /\ Counted'
    BY <1>1, <2>2, StepDelivery, StepGuided, StepCounted
  <2> QED BY <1>1, <2>1, <2>3, StepLocal DEF CompInv
<1>3. Gathers' <=> Gathers
  BY <1>2 DEF Gathers, Acknowledges, Reduces, OneParent, Node
<1>4. ASSUME Gathers
      PROVE  GatherInv' /\ [Convergecast!Next]_(Convergecast!vars)
  <2>1. GatherInv
    BY <1>4 DEF AckInv
  <2>2. CASE Rests
    <3>1. GatherInv'
      BY <1>1, <2>1, <2>2, RestKeepsGather
    <3>2. conf' = conf /\ local' = local
      BY <2>2 DEF Rests, cvars
    <3>3. /\ Live' = Live /\ [m \in Node |-> ChildrenOf(m)]' = [m \in Node |-> ChildrenOf(m)]
          /\ {m \in Node : HasSent(m)}' = {m \in Node : HasSent(m)}
      BY <3>2 DEF Live, Node, ChildrenOf, HasSent
    <3> QED BY <3>1, <3>3 DEF Convergecast!vars
  <2>3. ASSUME NEW t \in Upcoming, NEW n, NEW s, NEW reqs, Step(t, n, s, reqs)
        PROVE  GatherInv' /\ [Convergecast!Next]_(Convergecast!vars)
    <3>1. GatherInv'
      BY <1>1, <1>2, <1>4, <2>1, <2>3, StepKeepsGather
    <3> QED BY <1>1, <1>4, <2>1, <2>3, <3>1, StepConverges
  <2> QED BY <1>1, <1>4, <2>1, <2>2, <2>3, GatherSteps
<1> QED BY <1>2, <1>3, <1>4 DEF AckInv

LEMMA AckInvariant == RepeatedSpec => []AckInv
<1>1. CStarted => CompInv /\ (Gathers => GatherInv)
  BY StartCInv, InitDelivery, InitGuided, InitCounted, InitGather DEF CompInv, CStarted
<1>2. AckInv /\ TopIsUnique' /\ [CNext]_vars => AckInv'
  BY AckSteps
<1>3. CompInv /\ (Gathers => GatherInv) /\ TopIsUnique => AckInv
  BY DEF AckInv
<1>4. RepeatedSpec => []TopIsUnique
  BY RepeatedEngineHolds, PTL DEF EngineHolds
<1> QED BY <1>1, <1>2, <1>3, <1>4, PTL DEF RepeatedSpec

LEMMA AwaitedHoldsAgain == RepeatedSpec => [](Gathers => AwaitedChildren)
<1>1. AckInv => (Gathers => AwaitedChildren)
  BY DEF AckInv, GatherInv, Expected, AwaitedChildren
<1> QED BY <1>1, AckInvariant, PTL

(* A node that gathers counts the children it has not heard from, whatever *)
(* order the messages take; one that failed is waited for forever.         *)
THEOREM AwaitedHolds == CSpec => [](Gathers => AwaitedChildren)
BY OneCollective, AwaitedHoldsAgain, PTL

(* Acknowledged broadcasts and reductions implement the convergecast: a    *)
(* node reports once, it works, and everybody below it has reported.       *)
THEOREM ConvergecastImplemented == CSpec /\ Gathers => ImplementsConvergecast
<1>1. CInit /\ Gathers => Convergecast!Init
  BY FirstCollective, InitSilent DEF CStarted, Convergecast!Init
<1>2. AckInv /\ AckInv' /\ [CNext]_vars => (Gathers' <=> Gathers)
  BY AckSteps DEF AckInv
<1>3. AckInv /\ AckInv' /\ [CNext]_vars /\ Gathers => [Convergecast!Next]_(Convergecast!vars)
  BY AckSteps DEF AckInv
<1> QED BY <1>1, <1>2, <1>3, OneCollective, AckInvariant, PTL DEF CSpec, ImplementsConvergecast, Convergecast!Spec

-----------------------------------------------------------------------------
(***************************************************************************)
(* Who reports, and who waits: who has reported is alive and was reached;  *)
(* who was not has heard from nobody; who was, and has nobody to wait for, *)
(* is about to be initialised; and a broadcast stays within the tree.      *)
(***************************************************************************)
Begins(n) == \E u \in queue : u.type = "Init" /\ u.sender = n
Settled ==
  /\ \A n \in Node : HasSent(n) => n \in Live \cap Reached
  /\ \A n \in Node \ Reached : local[n].toReceive = Len(conf.receivers[n])
  /\ \A n \in Live \cap Reached : local[n].cur = Last /\ local[n].toReceive <= 0 => Begins(n)
  /\ Acknowledges => Live \cap Reached \subseteq TreeReached

LEMMA InitSettled ==
  ASSUME NEW first \in Nat, CStart(first), Gathers
  PROVE  Settled
<1>1. TypeOK
  BY StartCInv DEF CInv, IInv
<1>2. Last \in {2, 3} /\ (Acknowledges => FirstReached = {0})
  <2>1. /\ Last \in {2, 3} /\ conf.phases[Last] = GatherPhase
        /\ Acknowledges => Last = 3 /\ conf.phases[1] = DepInit /\ conf.phases[2] = PlainTree
    BY GatherPhases
  <2>2. Acknowledges => \A i \in 1 .. Last : conf.phases[i].kind # "ReductionDepInit"
    BY <2>1 DEF DepInit, PlainTree, TreePhase, GatherPhase
  <2> QED BY <2>1, <2>2 DEF FirstReached
<1>3. ASSUME NEW n \in Node
      PROVE  /\ local[n].cur = 1 /\ local[n].toReceive = Len(conf.receivers[n])
             /\ local[n].reached <=> n \in FirstReached
  <2>1. local[n] = InitialState(n \in FirstReached, Len(conf.receivers[n]))
    BY DEF CStart
  <2>2. PICK is, k : is = (n \in FirstReached) /\ k = Len(conf.receivers[n])
    OBVIOUS
  <2>3. local[n] = InitialState(is, k)
    BY <2>1, <2>2
  <2>4. local[n].cur = 1 /\ local[n].toReceive = k /\ local[n].reached = is
    BY <2>3 DEF InitialState
  <2> QED BY <2>2, <2>4, Zenon
<1>4. \A n \in Node : ~ HasSent(n)
  BY InitSilent
<1>5. \A n \in Live : local[n].cur # Last
  BY <1>2, <1>3 DEF Live
<1>6. Acknowledges => Live \cap Reached \subseteq TreeReached
  <2> SUFFICES ASSUME Acknowledges PROVE Live \cap Reached \subseteq TreeReached
    OBVIOUS
  <2>1. Reached \subseteq {0}
    BY <1>2, <1>3 DEF Reached
  <2>2. 0 \in Live => 0 \in TreeReached
    BY <1>1, TreeReachedIs
  <2> QED BY <2>1, <2>2
<1> QED BY <1>3, <1>4, <1>5, <1>6 DEF Settled

LEMMA StepSettled ==
  ASSUME TypeOK, LocalOK, Senders, Gathers, GatherInv, Settled,
         NEW t \in Upcoming, NEW n, NEW s, NEW reqs, Step(t, n, s, reqs)
  PROVE  Settled'
<1>1. /\ Last' = Last /\ Node' = Node /\ Live' = Live /\ (Acknowledges' <=> Acknowledges)
      /\ local'[n] = s /\ \A m \in Node : m # n => local'[m] = local[m]
      /\ Reached' = IF t.type = "RecvEnd" THEN Reached \cup {n} ELSE Reached
  BY StepEffects
<1>2. /\ conf' = conf /\ n \in Node /\ s \in State /\ t \in Ready /\ Last \in {2, 3}
      /\ local[n].toReceive \in Int /\ s.toReceive \in Int
  BY UpcomingType, GatherPhases DEF Step, LocalOK, State
<1>3. /\ n \in Live \/ s = local[n]
      /\ s.reached <=> local[n].reached \/ t.type = "RecvEnd"
      /\ Heap(t, RangeOf(reqs)) /\ Acts(n, t, s.cur, s, Sends(reqs))
  BY DEF Step
<1>4. \A m \in Node : m \in Reached' <=> local'[m].reached
  BY <1>1 DEF Reached
<1>5. ASSUME NEW m \in Node, HasSent(m)' PROVE m \in Live \cap Reached'
  <2>1. CASE HasSent(m)
    BY <1>1, <2>1 DEF Settled
  <2>2. CASE ~ HasSent(m)
    <3>1. m = n /\ s # local[n] /\ n \in Live
      BY <1>1, <1>3, <1>5, <2>2 DEF HasSent
    <3>2. ~ (s.toReceive = local[n].toReceive) /\ s.toReceive < 0
      BY <1>1, <1>5, <2>2, <3>1 DEF HasSent
    <3>3. ~ Counts(n, t, s.cur, s, Sends(reqs))
      BY <1>2, <3>2 DEF Counts
    <3>4. s.reached
      BY <1>3, <3>2, <3>3 DEF Acts, Listens, Relays, Reports
    <3> QED BY <1>1, <1>4, <3>1, <3>4
  <2> QED BY <2>1, <2>2
<1>6. ASSUME NEW m \in Node, m \notin Reached' PROVE local'[m].toReceive = Len(conf.receivers[m])
  <2>1. m \notin Reached
    BY <1>1, <1>6
  <2>2. CASE m = n
    <3>1. ~ s.reached
      BY <1>1, <1>4, <1>6, <2>2
    <3>2. s.toReceive = local[n].toReceive
      BY <1>3, <3>1 DEF Acts, Listens, Relays, Counts, Reports
    <3> QED BY <1>1, <2>1, <2>2, <3>2 DEF Settled
  <2> QED BY <1>1, <2>1, <2>2 DEF Settled
<1>7. ASSUME NEW m \in Live, m \in Reached', local'[m].cur = Last, local'[m].toReceive <= 0
      PROVE  Begins(m)'
  <2>1. m \in Node /\ m \notin conf.failed
    BY DEF Live
  <2>2. ASSUME Begins(m), ~ (t.type = "Init" /\ t.sender = m) PROVE Begins(m)'
    <3>1. PICK u \in queue : u.type = "Init" /\ u.sender = m
      BY <2>2 DEF Begins
    <3>2. u \in Ready /\ u # t
      BY <2>2, <3>1 DEF Ready
    <3>3. u \in queue'
      BY <1>3, <3>2 DEF Heap
    <3> QED BY <3>1, <3>3 DEF Begins
  <2>3. CASE m # n
    <3>1. Begins(m)
      BY <1>1, <1>7, <2>1, <2>3 DEF Settled
    <3>2. ~ (t.type = "Init" /\ t.sender = m)
      BY <2>3 DEF Step
    <3> QED BY <2>2, <3>1, <3>2
  <2>4. CASE m = n
    <3>1. s.cur = Last /\ s.toReceive <= 0
      BY <1>1, <1>7, <2>4
    <3>2. local[n].cur \in Nat
      BY <1>2 DEF LocalOK
    <3>3. CASE local[n].cur < Last
      <4>1. PICK r \in RangeOf(reqs) : r.type = "Init" /\ r.receiver = n
        BY <1>2, <3>1, <3>3 DEF Step
      <4>2. r.sender = n
        BY DEF Step
      <4>3. PICK asked : asked = RangeOf(reqs) /\ Heap(t, asked)
        BY <1>3
      <4>4. r.receiver \notin conf.failed
        BY <2>1, <2>4, <4>1
      <4>5. PICK u \in queue' : SameTask(u, r)
        BY <2>1, <2>4, <4>1, <4>2, <4>3, <4>4 DEF Heap
      <4>6. u.type = "Init" /\ u.sender = m
        BY <2>4, <4>1, <4>2, <4>5 DEF SameTask
      <4> QED BY <4>6 DEF Begins
    <3>4. CASE ~ (local[n].cur < Last)
      <4>1. Listens(n, t, s.cur, s, Sends(reqs))
        <5>1. ~ Relays(n, s.cur, s, Sends(reqs))
          BY <1>2, <3>1, <3>4, GatherPhases DEF Relays
        <5>2. ~ Counts(n, t, s.cur, s, Sends(reqs))
          BY <1>2, <3>1 DEF Counts
        <5>3. ~ Reports(n, t, s.cur, s, Sends(reqs))
          BY <1>2, <3>1 DEF Reports
        <5> QED BY <1>3, <5>1, <5>2, <5>3 DEF Acts
      <4>2. local[n].cur = Last /\ s.toReceive = local[n].toReceive /\ t.type # "RecvEnd"
        BY <1>2, <3>1, <3>4, <4>1 DEF Listens
      <4>3. m \in Reached /\ Begins(m)
        <5>1. m \in Reached
          BY <1>1, <1>7, <4>2
        <5> QED BY <2>4, <3>1, <4>2, <5>1 DEF Settled
      <4>4. ~ (t.type = "Init" /\ t.sender = m)
        BY <1>2, <2>4, <3>1, <4>1, <4>2, <4>3 DEF Listens, Reached
      <4> QED BY <2>2, <4>3, <4>4
    <3> QED BY <3>3, <3>4
  <2> QED BY <2>3, <2>4
<1>8. ASSUME Acknowledges PROVE Live \cap Reached' \subseteq TreeReached
  <2>1. ASSUME t.type = "RecvEnd", n \notin Reached PROVE n \in TreeReached
    <3>1. t \in queue /\ n = t.receiver
      BY <2>1 DEF Step
    <3>2. t.sender \in Reached \cap Live /\ n \in Live
      BY <2>1, <3>1 DEF Senders, MessageTypes
    <3>3. t.tag = "TREE"
      <4>1. t.tag = "GATHER" => local[n].cur = Last
        BY <2>1, <3>1, Arrives
      <4>2. Last = 3
        BY <1>8, GatherPhases
      <4>3. local[n].cur > 2 => n \in Reached
        BY <1>2, <1>8 DEF GatherInv, Descends
      <4>4. t.tag \in {"TREE", "GATHER"}
        BY <2>1, <3>1, Arrives
      <4> QED BY <2>1, <4>1, <4>2, <4>3, <4>4
    <3>4. n \in ChildrenOf(t.sender)
      BY <2>1, <3>1, <3>3 DEF GatherInv, Traffic, MessageTypes
    <3>5. t.sender \in TreeReached
      BY <1>8, <3>2 DEF Settled
    <3> QED BY <3>2, <3>4, <3>5, TreeReachedIs
  <2> QED BY <1>1, <1>8, <2>1 DEF Settled
<1>9. TreeReached' = TreeReached
  BY <1>2 DEF TreeReached, Sprouts, Live, Node
<1>10. \A m \in Node : m \notin Reached' => local'[m].toReceive = Len(conf'.receivers[m])
  BY <1>2, <1>6
<1> QED BY <1>1, <1>5, <1>7, <1>8, <1>9, <1>10 DEF Settled

LEMMA SettledInvariant == RepeatedSpec => [](AckInv /\ SpreadInv /\ (Gathers => Settled))
<1>1. CStarted => (Gathers => Settled)
  BY InitSettled DEF CStarted
<1>2. AckInv /\ TopIsUnique' /\ (Gathers => Settled) /\ [CNext]_vars => (Gathers => Settled)'
  <2> SUFFICES ASSUME AckInv, TopIsUnique', Gathers => Settled, [CNext]_vars, Gathers' PROVE Settled'
    OBVIOUS
  <2>1. TypeOK /\ LocalOK /\ StartUp /\ Senders /\ OneWait
    BY DEF AckInv, CompInv, CInv, IInv
  <2>2. Gathers
    BY AckSteps
  <2>3. GatherInv /\ Settled
    BY <2>2 DEF AckInv
  <2>4. CASE Rests
    <3>1. conf' = conf /\ local' = local /\ queue' = queue
      BY <2>4 DEF Rests, cvars
    <3>2. /\ Live' = Live /\ Node' = Node /\ Last' = Last /\ (Acknowledges' <=> Acknowledges)
          /\ Reached' = Reached /\ TreeReached' = TreeReached
          /\ \A n : (HasSent(n)' <=> HasSent(n)) /\ (Begins(n)' <=> Begins(n))
      BY <3>1 DEF Live, Node, Last, Acknowledges, Reached, TreeReached, Sprouts, HasSent, Begins
    <3> QED BY <2>3, <3>1, <3>2 DEF Settled
  <2>5. ASSUME NEW t \in Upcoming, NEW n, NEW s, NEW reqs, Step(t, n, s, reqs) PROVE Settled'
    BY <2>1, <2>2, <2>3, <2>5, StepSettled
  <2> QED BY <2>1, <2>2, <2>3, <2>4, <2>5, GatherSteps
<1>3. RepeatedSpec => []TopIsUnique
  BY RepeatedEngineHolds, PTL DEF EngineHolds
<1> QED BY <1>1, <1>2, <1>3, AckInvariant, SpreadInvariant, PTL DEF RepeatedSpec

(***************************************************************************)
(* In the end whoever has not reported misses one of its children.         *)
(***************************************************************************)
LEMMA Misses ==
  ASSUME AckInv, SpreadInv, Gathers, Settled, status = "done",
         NEW n \in Live, ~ HasSent(n), Acknowledges => n \in Reached
  PROVE  \E c \in ChildrenOf(n) : ~ HasSent(c)
<1>1. /\ TypeOK /\ LocalOK /\ GatherInv /\ Guide(n) /\ n \in Node
      /\ queue = {} /\ \A m \in Node : ~ pending[m]
      /\ \A m \in done : local[m].cur > Last
  <2>1. TypeOK /\ LocalOK /\ GatherInv /\ Guide(n) /\ n \in Node
    BY DEF AckInv, CompInv, CInv, IInv, Guided, Live
  <2> QED BY <2>1 DEF AckInv, CompInv, Counted, SpreadInv, DoneOver
<1>2. PICK cur : cur = local[n].cur /\ cur \in 1 .. Last + 1 /\ Last \in {2, 3} /\ cur <= Last
                 /\ local[n] \in State
  <2>1. local[n].cur \in 1 .. Last + 1 /\ Last \in {2, 3} /\ local[n].cur # Last + 1 /\ local[n] \in State
    BY <1>1, GatherPhases DEF LocalOK, GatherInv, Complete
  <2> QED BY <2>1
<1>3. PICK ph : ph = conf.phases[cur] /\ ~ Cued(n, ph)
  BY <1>1 DEF Cued
<1>4. n \notin done /\ ~ KeepsTime(ph) /\ (n \in Reached => ph.kind = "Gather")
  <2>1. n \notin done
    BY <1>1, <1>2
  <2> QED BY <1>1, <1>2, <1>3, <2>1 DEF Guide
<1>5. cur = Last
  <2>1. CASE cur = 1
    <3>1. ph \in {DepInit, ReductionDepInit}
      BY <1>3, <2>1, GatherPhases DEF Gathers
    <3> QED BY <1>4, <3>1 DEF KeepsTime, DepInit, ReductionDepInit
  <2>2. CASE cur = 2 /\ Acknowledges
    <3>1. ph = PlainTree
      BY <1>3, <2>2, GatherPhases
    <3> QED BY <1>4, <2>2, <3>1 DEF PlainTree, TreePhase
  <2> QED BY <1>2, <2>1, <2>2, GatherPhases
<1>6. local[n].toReceive > 0 /\ local[n].toReceive \in Int
  <2>1. local[n].toReceive \in Int
    BY <1>2 DEF State
  <2>2. CASE n \in Reached
    <3>1. ~ Begins(n)
      BY <1>1 DEF Begins
    <3>2. ~ (local[n].toReceive <= 0)
      BY <1>2, <1>5, <2>2, <3>1 DEF Settled
    <3> QED BY <2>1, <3>2
  <2>3. CASE n \notin Reached
    <3>1. conf.phases[1].kind = "ReductionDepInit" /\ 1 \in 1 .. Last
      BY <1>2, <2>3, GatherPhases DEF ReductionDepInit
    <3>2. FirstReached = {m \in Node : conf.receivers[m] = <<>>}
      BY <3>1 DEF FirstReached
    <3>3. conf.receivers[n] # <<>>
      BY <1>1, <2>3, <3>2 DEF SpreadInv
    <3>4. conf.receivers[n] \in Seq(Node)
      BY <1>1, CollectiveType DEF IsCollective, Node
    <3>5. Len(conf.receivers[n]) > 0
      BY <3>3, <3>4
    <3> QED BY <1>1, <2>1, <2>3, <3>5 DEF Settled
  <2> QED BY <2>2, <2>3
<1>7. Awaited(n) # {}
  <2>1. LaterOf(local[n].toReceive, 0) = Cardinality(Awaited(n))
    BY <1>1 DEF GatherInv, Expected
  <2>2. Cardinality(Awaited(n)) # 0
    BY <1>6, <2>1 DEF LaterOf
  <2> QED BY <2>2, FS_EmptySet
<1> QED BY <1>1, <1>7 DEF Awaited

(* Whoever has reported has heard from all its children. *)
LEMMA Reported ==
  ASSUME AckInv, Gathers, Settled, NEW n \in Node, HasSent(n)
  PROVE  \A c \in ChildrenOf(n) : c \in Node /\ HasSent(c)
<1>1. TypeOK /\ LocalOK /\ GatherInv /\ n \in Live
  BY DEF AckInv, CompInv, CInv, IInv, Settled
<1>2. LaterOf(local[n].toReceive, 0) = Cardinality(Awaited(n)) /\ local[n].toReceive \in Int
  BY <1>1 DEF GatherInv, Expected, LocalOK, State
<1>3. Cardinality(Awaited(n)) = 0
  BY <1>2 DEF LaterOf, HasSent
<1>4. ChildrenOf(n) \subseteq Node /\ IsFiniteSet(Node)
  BY <1>1, NodesFinite, ChildrenType
<1>5. Awaited(n) \subseteq Node
  BY <1>4 DEF Awaited
<1>6. Awaited(n) = {}
  BY <1>3, <1>4, <1>5, FS_Subset, FS_EmptySet
<1> QED BY <1>4, <1>6 DEF Awaited

(***************************************************************************)
(* A set of nodes each of which has a child in it holds the parents of all *)
(* its members too, as nobody has two; so it lies outside every tree.      *)
(***************************************************************************)
LEMMA Rootless ==
  ASSUME TypeOK, Gathers, NEW U \in SUBSET Node, \A m \in U : \E c \in ChildrenOf(m) : c \in U
  PROVE  0 \notin U /\ \A v \in Node \ U : ChildrenOf(v) \cap U = {}
<1>1. IsFiniteSet(U)
  BY NodesFinite, FS_Subset
<1>2. PICK f \in [U -> U] : \A m \in U : f[m] \in ChildrenOf(m)
  <2>1. [m \in U |-> CHOOSE c \in ChildrenOf(m) : c \in U] \in [U -> U]
    OBVIOUS
  <2>2. \A m \in U : [k \in U |-> CHOOSE c \in ChildrenOf(k) : c \in U][m] \in ChildrenOf(m)
    OBVIOUS
  <2> QED BY <2>1, <2>2
<1>3. \A m, k \in U : f[m] = f[k] => m = k
  BY <1>2, Parents
<1>4. ASSUME NEW x \in U PROVE \E m \in U : f[m] = x
  <2>1. SUFFICES ASSUME \A m \in U : f[m] # x PROVE FALSE
    OBVIOUS
  <2>2. PICK T : T = U \ {x}
    OBVIOUS
  <2>3. IsFiniteSet(T) /\ Cardinality(T) = Cardinality(U) - 1 /\ Cardinality(U) \in Nat
    BY <1>1, <2>2, FS_RemoveElement, FS_CardinalityType
  <2>4. Cardinality(T) < Cardinality(U) /\ f \in [U -> T]
    BY <2>1, <2>2, <2>3
  <2>5. \E m, k \in U : m # k /\ f[m] = f[k]
    BY <1>1, <2>3, <2>4, FS_PigeonHole
  <2> QED BY <1>3, <2>5
<1>5. 0 \notin U
  <2>1. \A m \in U : 0 \notin ChildrenOf(m)
    BY ChildrenType
  <2> QED BY <1>2, <1>4, <2>1
<1>6. ASSUME NEW v \in Node \ U, NEW c \in ChildrenOf(v), c \in U PROVE FALSE
  <2>1. PICK m \in U : c \in ChildrenOf(m)
    BY <1>2, <1>4, <1>6
  <2>2. m = v
    BY <1>6, <2>1, Parents
  <2> QED BY <1>6, <2>1, <2>2
<1> QED BY <1>5, <1>6

(***************************************************************************)
(* The theorem.  A broadcast needs no more than that nobody has two        *)
(* parents; a reduction also needs every node in the tree, as one outside  *)
(* has nobody to wait for.                                                 *)
(***************************************************************************)
LEMMA EndOfGathering ==
  ASSUME AckInv, SpreadInv, Gathers, Settled, Acknowledges \/ Spans
  PROVE  WholeSubtreesFinish
<1> SUFFICES ASSUME status = "done"
    PROVE  finished = {n \in IF 0 \in FirstReached THEN TreeReached ELSE Node : Subtree(n) \subseteq Live}
  BY DEF WholeSubtreesFinish
<1>1. TypeOK /\ LocalOK /\ GatherInv /\ Guided /\ Counted /\ CompInv /\ Last \in {2, 3}
  BY GatherPhases DEF AckInv, CompInv, CInv, IInv
<1>2. \A n \in Node : n \in finished <=> HasSent(n)
  <2>1. finished = done /\ done \subseteq Live \cap Reached
    BY <1>1 DEF Counted, Ends
  <2>2. ASSUME NEW n \in Node PROVE n \in done <=> HasSent(n)
    <3>1. local[n].cur \in 1 .. Last + 1 /\ (HasSent(n) <=> local[n].cur = Last + 1)
      BY <1>1 DEF LocalOK, GatherInv, Complete
    <3>2. n \in done => local[n].cur > Last
      BY DEF SpreadInv, DoneOver
    <3>3. HasSent(n) => n \in Live \cap Reached
      BY DEF Settled
    <3>4. n \in Live \cap Reached /\ n \notin done => local[n].cur <= Last
      BY <1>1 DEF Guided, Guide
    <3> QED BY <1>1, <3>1, <3>2, <3>3, <3>4
  <2> QED BY <2>1, <2>2
<1>3. finished \subseteq Node
  BY <1>1 DEF Counted, Live
<1>4. PICK base : /\ base = IF Acknowledges THEN TreeReached ELSE Node
                  /\ base \subseteq Node /\ (Acknowledges => base = Live \cap Reached)
  <2>1. TreeReached \subseteq Node
    BY <1>1, TreeReachedIs DEF Live
  <2>2. Acknowledges => TreeReached = Live \cap Reached
    <3>1. ASSUME Acknowledges PROVE TreeReached \subseteq Live \cap Reached
      <4>1. 2 \in 1 .. Last /\ conf.phases[1] = DepInit /\ conf.phases[2] = PlainTree /\ conf.phases[3] = GatherPhase
            /\ Last = 3
        BY <1>1, <3>1, GatherPhases
      <4>2. PlainAt(2)
        BY <4>1 DEF PlainAt, PlainTree, TreePhase
      <4>3. FirstReached = {0}
        <5>1. \A i \in 1 .. Last : conf.phases[i].kind # "ReductionDepInit"
          BY <4>1 DEF DepInit, PlainTree, TreePhase, GatherPhase
        <5> QED BY <5>1 DEF FirstReached
      <4>4. 0 \in Reached
        BY <4>3 DEF SpreadInv
      <4> QED BY <1>1, <4>1, <4>2, <4>4, TreeIsReached
    <3> QED BY <3>1 DEF Settled
  <2> QED BY <2>1, <2>2
<1>5. \A n \in Node : Subtree(n) \subseteq Live =>
        (n \in base <=> n \in IF 0 \in FirstReached THEN TreeReached ELSE Node)
  <2>1. CASE Acknowledges
    <3>1. \A i \in 1 .. Last : conf.phases[i].kind # "ReductionDepInit"
      BY <1>1, <2>1, GatherPhases DEF DepInit, PlainTree, TreePhase, GatherPhase
    <3>2. 0 \in FirstReached
      BY <3>1 DEF FirstReached
    <3> QED BY <1>4, <2>1, <3>2
  <2>2. ASSUME ~ Acknowledges, 0 \in FirstReached, NEW n \in Node, Subtree(n) \subseteq Live
        PROVE  n \in TreeReached
    <3>1. conf.phases[1].kind = "ReductionDepInit" /\ 1 \in 1 .. Last
      BY <1>1, <2>2, GatherPhases DEF ReductionDepInit
    <3>2. FirstReached = {m \in Node : conf.receivers[m] = <<>>}
      BY <3>1 DEF FirstReached
    <3>3. 0 \in Node /\ ChildrenOf(0) = {}
      BY <2>2, <3>2 DEF ChildrenOf
    <3>4. Subtree(0) \subseteq {0}
      BY <1>1, <3>3, SubtreeIs
    <3>5. n = 0
      BY <2>2, <3>4 DEF Spans
    <3>6. 0 \in Live
      BY <1>1, <2>2, <3>5, SubtreeIs
    <3> QED BY <1>1, <3>5, <3>6, TreeReachedIs
  <2> QED BY <1>4, <2>1, <2>2
<1>6. ASSUME NEW n \in Node, HasSent(n) PROVE n \in base /\ Subtree(n) \subseteq Live
  <2>1. PICK H : H = {m \in Node : HasSent(m)}
    OBVIOUS
  <2>2. H \in SUBSET Node /\ n \in H /\ \A m \in H : ChildrenOf(m) \subseteq H
    BY <1>6, <2>1, Reported
  <2>3. Subtree(n) \subseteq H
    BY <1>1, <2>2, SubtreeIs
  <2>4. H \subseteq Live \cap Reached
    BY <2>1 DEF Settled
  <2> QED BY <1>4, <2>2, <2>3, <2>4
<1>7. ASSUME NEW n \in base, Subtree(n) \subseteq Live PROVE HasSent(n)
  <2>1. PICK U : U = {m \in Subtree(n) \cap base : ~ HasSent(m)}
    OBVIOUS
  <2>2. n \in Node /\ \A m \in Subtree(n) : ChildrenOf(m) \subseteq Subtree(n)
    BY <1>1, <1>4, SubtreeIs
  <2>3. \A m \in Subtree(n) \cap base : ChildrenOf(m) \subseteq base
    <3>1. CASE Acknowledges
      BY <1>1, <1>4, <1>7, <2>2, <3>1, TreeReachedIs
    <3>2. CASE ~ Acknowledges
      BY <1>1, <1>4, <3>2, ChildrenType
    <3> QED BY <3>1, <3>2
  <2>4. ASSUME NEW m \in U PROVE \E c \in ChildrenOf(m) : c \in U
    <3>1. m \in Live /\ ~ HasSent(m) /\ (Acknowledges => m \in Reached) /\ m \in Subtree(n) \cap base
      BY <1>4, <1>7, <2>1
    <3>2. PICK c \in ChildrenOf(m) : ~ HasSent(c)
      BY <3>1, Misses
    <3> QED BY <2>1, <2>2, <2>3, <3>1, <3>2
  <2>5. U \in SUBSET Node
    BY <1>4, <2>1
  <2>6. 0 \notin U /\ \A v \in Node \ U : ChildrenOf(v) \cap U = {}
    BY <1>1, <2>4, <2>5, Rootless
  <2>7. U = {}
    <3>1. CASE Acknowledges
      <4>1. TreeReached \ U \in SUBSET Live /\ (0 \in Live => 0 \in TreeReached \ U)
        BY <1>1, <2>6, TreeReachedIs
      <4>2. \A m \in TreeReached \ U : ChildrenOf(m) \cap Live \subseteq TreeReached \ U
        BY <1>1, <1>4, <2>6, <3>1, TreeReachedIs
      <4>3. TreeReached \subseteq TreeReached \ U
        BY <1>1, <4>1, <4>2, TreeReachedIs
      <4> QED BY <1>4, <2>1, <3>1, <4>3
    <3>2. CASE Spans
      <4>1. Node \ U \in SUBSET Node /\ 0 \in Node \ U
        BY <1>1, <2>6, NodesFinite
      <4>2. \A m \in Node \ U : ChildrenOf(m) \subseteq Node \ U
        BY <1>1, <2>6, ChildrenType
      <4>3. Subtree(0) \subseteq Node \ U
        BY <1>1, <4>1, <4>2, SubtreeIs
      <4> QED BY <2>5, <3>2, <4>3 DEF Spans
    <3> QED BY <3>1, <3>2
  <2>8. n \in Subtree(n)
    BY <1>1, <2>2, SubtreeIs
  <2> QED BY <2>1, <2>7, <2>8
<1>8. PICK within : /\ within = IF 0 \in FirstReached THEN TreeReached ELSE Node
                    /\ within \subseteq Node
  BY <1>1, TreeReachedIs DEF Live
<1>9. \A n \in Node : n \in finished <=> n \in within /\ Subtree(n) \subseteq Live
  BY <1>2, <1>5, <1>6, <1>7, <1>8
<1>10. finished = {n \in within : Subtree(n) \subseteq Live}
  BY <1>3, <1>8, <1>9
<1> QED BY <1>8, <1>10

LEMMA SubtreesFinishAgain == RepeatedSpec => [](Gathers /\ (Acknowledges \/ Spans) => WholeSubtreesFinish)
<1>1. AckInv /\ SpreadInv /\ (Gathers => Settled) => (Gathers /\ (Acknowledges \/ Spans) => WholeSubtreesFinish)
  BY EndOfGathering
<1> QED BY <1>1, SettledInvariant, PTL

(* Exactly the nodes whose whole subtree works finish, and in a broadcast  *)
(* only if they are reached: one that fails keeps all nodes above it       *)
(* waiting forever, and nobody else.                                       *)
THEOREM SubtreesFinish == CSpec => [](Gathers /\ (Acknowledges \/ Spans) => WholeSubtreesFinish)
BY OneCollective, SubtreesFinishAgain, PTL

(* And in every repetition: no child is forgotten or counted twice because *)
(* an earlier repetition had heard from it, and the nodes that finish are  *)
(* determined by the failures of this repetition alone.                    *)
THEOREM EveryGathering ==
  RSpec => []((Gathers => AwaitedChildren) /\ (Gathers /\ (Acknowledges \/ Spans) => WholeSubtreesFinish))
BY RepetitionsAreCollectives, AwaitedHoldsAgain, SubtreesFinishAgain, PTL
=============================================================================
