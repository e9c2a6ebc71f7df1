--------------------------- MODULE DeliveryProofs ----------------------------
(***************************************************************************)
(* Who may send, and what becomes of a message: proofs that a collective   *)
(* implements the abstract broadcast.  Then who comes to an end: proofs    *)
(* that a node that was reached finishes, and that the statistics of a run *)
(* are what they say.                                                      *)
(***************************************************************************)
EXTENDS CollectiveProofs

(***************************************************************************)
(* Only live nodes that are reached send, wait for their cpu or finish;    *)
(* only live nodes have timers, or are initialised; a message that arrives *)
(* arrives at a live node.                                                 *)
(***************************************************************************)
Senders ==
  /\ \A t \in queue :
       /\ t.type \in MessageTypes \cup {"Finish"} => t.sender \in Reached \cap Live
       /\ t.type \in {"RecvStart", "RecvEnd"} => t.receiver \in Live
       /\ t.type \in {"Timer", "Init", "Idle"} => t.sender \in Live
       /\ t.type = "Idle" => t.sender \in Reached
  /\ \A n \in Node : pending[n] => n \in Live \cap Reached

(***************************************************************************)
(* A node that is not reached waits for one thing at a time, so that no    *)
(* timer of an earlier phase can make it take part in the correction.      *)
(***************************************************************************)
Waits(n) == {t \in queue : t.sender = n /\ t.type \in {"Init", "Timer"}}

(* The phases that set timers for nodes that are not reached. *)
AwaitsTimer(cur, tag) ==
  \/ cur > Last
  \/ conf.phases[cur].exclusive /\ tag = "EXCLUSIVE"
  \/ conf.phases[cur].kind = "Gossip" /\ tag = "INTERNAL"

OneWait ==
  \A n \in Node \ Reached :
    /\ \A t, u \in Waits(n) : t = u
    /\ \A t \in Waits(n) : t.type = "Timer" => AwaitsTimer(local[n].cur, t.tag)

-----------------------------------------------------------------------------
(* A node that is not reached asks for no more than it waits for. *)

(* What such a node asks for: nothing, or one timer, and then it stays. *)
Modest(cur, out) ==
  \/ out.reqs = <<>>
  \/ out.res = "ONGOING" /\ \E r : out.reqs = <<r>> /\ r.type = "Timer" /\ AwaitsTimer(cur, r.tag)

(* A timer, and nothing else. *)
LEMMA TimerAlone ==
  \A x : <<x>> \o <<>> = <<x>>
OBVIOUS

LEMMA UnreachedPlain ==
  ASSUME TypeOK, LocalOK, NEW n \in Node, local[n].cur \in 1 .. Last, ~ local[n].reached,
         NEW ph, ph = conf.phases[local[n].cur], ~ ph.exclusive,
         NEW t \in Task, NEW at \in Nat, NEW draw \in Node,
         t.type = "Init" \/ (t.type = "Timer" /\ AwaitsTimer(local[n].cur, t.tag))
  PROVE  Modest(local[n].cur, PlainDispatch(ph, n, local[n], t, at, draw))
<1>1. ph.kind \in Kinds /\ ~ (local[n].cur > Last)
  BY PhasesType
<1>2. Modest(local[n].cur, Ongoing(local[n]))
  BY DEF Modest, Ongoing, Outcome
<1>3. Modest(local[n].cur, Outcome("DONE_PHASE", <<>>, local[n]))
  BY DEF Modest, Outcome
<1>4. CASE t.type = "Init"
  <2>1. CASE ph.kind \in {"DepInit", "ReductionDepInit"}
    BY <1>3, <1>4, <2>1 DEF PlainDispatch, DepInitDispatch
  <2>2. CASE ph.kind = "Tree"
    BY <1>2, <1>4, <2>2 DEF PlainDispatch, TreeDispatch, TreeInit
  <2>3. CASE ph.kind \in {"Checked", "Opportunistic"}
    <3>1. CorrectionInit(n, local[n]) = Ongoing(local[n])
      BY DEF CorrectionInit, Ongoing
    <3> QED BY <1>2, <1>4, <2>3, <3>1 DEF PlainDispatch, CheckedDispatch, OpportunisticDispatch
  <2>4. CASE ph.kind = "Gossip"
    <3>1. PICK begin : begin = StartTime(at)
      OBVIOUS
    <3>2. PICK timer : timer = TimerRequest("INTERNAL", begin + conf.gossip, n)
      OBVIOUS
    <3>3. timer.type = "Timer" /\ timer.tag = "INTERNAL"
      BY <3>2 DEF TimerRequest
    <3>4. AwaitsTimer(local[n].cur, timer.tag)
      BY <2>4, <3>3 DEF AwaitsTimer
    <3>5. PICK out : out = PlainDispatch(ph, n, local[n], t, at, draw)
      OBVIOUS
    <3>6. out = IF GossipOver(conf, begin, at) THEN Outcome("DONE_PHASE", <<>>, local[n])
                ELSE Outcome("ONGOING", <<timer>> \o <<>>, local[n])
      BY <1>4, <2>4, <3>1, <3>2, <3>5 DEF PlainDispatch, GossipDispatch, GossipInit
    <3>7. Modest(local[n].cur, Outcome("ONGOING", <<timer>>, local[n]))
      BY <3>3, <3>4 DEF Modest, Outcome
    <3> QED BY <1>3, <3>5, <3>6, <3>7, TimerAlone
  <2>5. CASE ph.kind = "Gather"
    BY <1>2, <1>4, <2>5 DEF PlainDispatch, GatherDispatch, GatherInit
  <2>6. CASE ph.kind = "MultiTree"
    BY <1>2, <1>4, <2>6 DEF PlainDispatch, MultiTreeDispatch, MultiTreeInit
  <2> QED BY <1>1, <2>1, <2>2, <2>3, <2>4, <2>5, <2>6 DEF Kinds, Stage
<1>5. CASE t.type = "Timer"
  <2>1. ph.kind = "Gossip"
    BY <1>1, <1>5 DEF AwaitsTimer
  <2>2. PlainDispatch(ph, n, local[n], t, at, draw) = GossipTimer(local[n])
    BY <1>5, <2>1 DEF PlainDispatch, GossipDispatch
  <2> QED BY <2>2 DEF GossipTimer, Modest, Outcome
<1> QED BY <1>4, <1>5

LEMMA UnreachedExclusive ==
  ASSUME TypeOK, LocalOK, NEW n \in Node, local[n].cur \in 1 .. Last, ~ local[n].reached,
         NEW ph, ph = conf.phases[local[n].cur], ph.exclusive,
         NEW t \in Task, NEW at \in Nat, NEW draw \in Node,
         t.type = "Init" \/ (t.type = "Timer" /\ AwaitsTimer(local[n].cur, t.tag))
  PROVE  Modest(local[n].cur, ExclusiveDispatch(ph, n, local[n], t, at, draw))
<1>1. ph.kind = "Tree" /\ ~ (local[n].cur > Last)
  BY PhasesType
<1>2. Modest(local[n].cur, Outcome("DONE_PHASE", <<>>, local[n]))
  BY DEF Modest, Outcome
<1>3. CASE t.type = "Init"
  <2>1. PICK plain : plain = Ongoing(local[n]) /\ plain = PlainDispatch(ph, n, local[n], t, at, draw)
    BY <1>1, <1>3 DEF PlainDispatch, TreeDispatch, TreeInit
  <2>2. Held(plain) = plain /\ plain.reqs = <<>> /\ plain.res = "ONGOING"
        /\ DOMAIN plain = {"res", "reqs", "s"}
    BY <2>1 DEF Held, Ongoing, Outcome
  <2>3. PICK timer : timer = TimerRequest("EXCLUSIVE", AbsDeadline(at), n)
    OBVIOUS
  <2>4. timer.type = "Timer" /\ AwaitsTimer(local[n].cur, timer.tag)
    BY <2>3 DEF TimerRequest, AwaitsTimer
  <2>5. PICK more : more = [plain EXCEPT !.reqs = <<timer>> \o @]
    OBVIOUS
  <2>6. more.res = "ONGOING" /\ more.reqs = <<timer>>
    BY <2>2, <2>5, TimerAlone
  <2>7. Modest(local[n].cur, more)
    BY <2>4, <2>6 DEF Modest
  <2>8. ExclusiveDispatch(ph, n, local[n], t, at, draw)
          = IF AbsDeadline(at) <= at THEN Outcome("DONE_PHASE", <<>>, local[n]) ELSE more
    BY <1>3, <2>1, <2>2, <2>3, <2>5 DEF ExclusiveDispatch
  <2> QED BY <1>2, <2>7, <2>8
<1>4. CASE t.type = "Timer"
  <2>1. t.tag = "EXCLUSIVE"
    BY <1>1, <1>4 DEF AwaitsTimer
  <2> QED BY <1>2, <1>4, <2>1 DEF ExclusiveDispatch
<1> QED BY <1>3, <1>4

(* What the collective asks for altogether. *)
LEMMA UnreachedAsks ==
  ASSUME TypeOK, LocalOK, NEW n \in Node, ~ local[n].reached, NEW t \in Task, NEW at \in Nat,
         NEW draw \in Node, RootBegins(n, t), NEW out, out = CombinerDispatch(n, t, at, draw),
         t.type = "Init" \/ (t.type = "Timer" /\ AwaitsTimer(local[n].cur, t.tag))
  PROVE  \/ Accept(n, out) = <<>>
         \/ \E r : /\ Accept(n, out) = <<r>>
                   /\ r.type = "Init" \/ (r.type = "Timer" /\ AwaitsTimer(out.s.cur, r.tag))
<1>1. Last \in Nat \ {0} /\ local[n] \in State
  BY PhasesType DEF LocalOK
<1>2. CASE local[n].cur > Last
  <2>1. out = Nothing(n, "DONE_PHASE")
    BY <1>2 DEF CombinerDispatch, CombinerForward, Colour
  <2> QED BY <2>1 DEF Nothing, Accept, Finishing
<1>3. ASSUME NEW inner, local[n].cur \in 1 .. Last,
             inner = PhaseDispatch(conf.phases[local[n].cur], n, local[n], t, at, draw),
             Proper(n, local[n], t, at, inner), out = Colour(t, Switch(n, t, at, inner))
      PROVE  \/ Accept(n, out) = <<>>
             \/ \E r : /\ Accept(n, out) = <<r>>
                       /\ r.type = "Init" \/ (r.type = "Timer" /\ AwaitsTimer(out.s.cur, r.tag))
  <2>1. PICK ph : ph = conf.phases[local[n].cur] /\ ph.exclusive \in BOOLEAN
    BY <1>3, PhasesType
  <2>2. Modest(local[n].cur, inner)
    BY <1>3, <2>1, UnreachedPlain, UnreachedExclusive DEF PhaseDispatch
  <2>3. inner.s \in State /\ inner.s.reached = FALSE /\ t.type # "RecvEnd"
    BY <1>1, <1>3 DEF Proper, Colours, State
  <2>4. /\ out.s.cur = NextPhase(local[n].cur, inner.res)
        /\ ~ out.s.reached
    BY <1>3, <2>3, SwitchState
  <2>5. PICK cur : cur = NextPhase(local[n].cur, inner.res)
    OBVIOUS
  <2>6. Accept(n, out) = IF cur <= Last /\ cur > local[n].cur THEN Append(inner.reqs, InitRequest(at, n))
                         ELSE inner.reqs
    <3>1. out = Switch(n, t, at, inner)
      BY <1>3, <2>3 DEF Colour
    <3>2. Accept(n, out) = out.reqs
      BY <2>4 DEF Accept, Finishing
    <3> QED BY <2>5, <3>1, <3>2 DEF Switch, MoveOn
  <2>7. inner.res = "ONGOING" => cur = local[n].cur /\ ~ (cur > local[n].cur)
    BY <1>1, <2>5 DEF NextPhase, State
  <2>8. CASE inner.reqs = <<>>
    <3>0. InitRequest(at, n).type = "Init"
      BY DEF InitRequest
    <3>1. PICK r : r = InitRequest(at, n) /\ r.type = "Init"
      BY <3>0
    <3>2. Append(<<>>, r) = <<r>>
      OBVIOUS
    <3> QED BY <2>6, <2>8, <3>1, <3>2
  <2>9. CASE inner.reqs # <<>>
    BY <2>2, <2>4, <2>5, <2>6, <2>7, <2>9 DEF Modest
  <2> QED BY <2>8, <2>9
<1>4. t.type # "Finish"
  OBVIOUS
<1> QED BY <1>1, <1>2, <1>3, <1>4, CombinerCases

-----------------------------------------------------------------------------
(* The steps of a collective. *)

(* Who is ready: the tasks of the heap, and the pending nodes. *)
LEMMA ReadyTasks ==
  ASSUME TypeOK, NEW t \in Ready
  PROVE  t \in queue \/ (t.type = "Idle" /\ t.sender \in Node /\ pending[t.sender])
<1>1. CASE t \notin queue
  <2>1. PICK m \in Delivered : t = IdleTask(m)
    BY <1>1 DEF Ready
  <2>2. m \in Node /\ pending[m]
    BY <2>1 DEF Delivered, Deliverable
  <2>3. t.type = "Idle" /\ t.sender = m
    BY <2>1 DEF IdleTask
  <2> QED BY <2>2, <2>3
<1> QED BY <1>1

(* Only a node that is reached asks for more than a timer. *)
LEMMA AskersReached ==
  ASSUME TypeOK, LocalOK, Senders, OneWait, NEW t \in Upcoming, NEW n \in Node, n = NotifiedNode(t),
         NEW draw \in Node, RootBegins(n, t), t.type \notin {"Msg", "Failure"},
         NEW out, out = CombinerDispatch(n, t, Clock(t), draw), Combined(n, t, Clock(t), out),
         t.type = "RecvEnd" => out.s.reached
  PROVE  /\ n \in Live
         /\ ~ out.s.reached =>
              /\ t \in Waits(n) /\ Len(Accept(n, out)) <= 1
              /\ \A r \in RangeOf(Accept(n, out)) :
                   r.type = "Init" \/ (r.type = "Timer" /\ AwaitsTimer(out.s.cur, r.tag))
<1>1. t \in Task /\ t \in Ready /\ Clock(t) \in Nat
  BY UpcomingType
<1>2. t \in queue \/ (t.type = "Idle" /\ pending[n])
  BY <1>1, ReadyTasks DEF NotifiedNode
<1>3. t.type \in {"SendStart", "SendEnd", "RecvStart", "RecvEnd", "Timer", "Init", "Idle", "Finish"}
  BY <1>1 DEF Task, Priority
<1>4. n \in Live /\ (t.type \notin {"RecvEnd", "Init", "Timer"} => n \in Reached)
  BY <1>2, <1>3 DEF Senders, MessageTypes, NotifiedNode
<1>5. ASSUME ~ out.s.reached
      PROVE  /\ t \in Waits(n) /\ Len(Accept(n, out)) <= 1
             /\ \A r \in RangeOf(Accept(n, out)) :
                  r.type = "Init" \/ (r.type = "Timer" /\ AwaitsTimer(out.s.cur, r.tag))
  <2>1. ~ local[n].reached /\ n \notin Reached
    BY <1>5 DEF Combined, Colours, Reached
  <2>2. t.type \in {"Init", "Timer"} /\ t \in Waits(n)
    BY <1>2, <1>3, <1>4, <1>5, <2>1 DEF Waits, NotifiedNode
  <2>3. t.type = "Init" \/ (t.type = "Timer" /\ AwaitsTimer(local[n].cur, t.tag))
    BY <2>1, <2>2 DEF OneWait
  <2>4. \/ Accept(n, out) = <<>>
        \/ \E r : /\ Accept(n, out) = <<r>>
                  /\ r.type = "Init" \/ (r.type = "Timer" /\ AwaitsTimer(out.s.cur, r.tag))
    BY <1>1, <2>1, <2>3, UnreachedAsks
  <2>5. CASE Accept(n, out) = <<>>
    BY <2>2, <2>5, FewRange
  <2>6. CASE Accept(n, out) # <<>>
    <3>1. PICK r : /\ Accept(n, out) = <<r>>
                   /\ r.type = "Init" \/ (r.type = "Timer" /\ AwaitsTimer(out.s.cur, r.tag))
      BY <2>4, <2>6
    <3>2. RangeOf(<<r>>) = {r} /\ Len(<<r>>) = 1
      BY FewRange
    <3> QED BY <2>2, <3>1, <3>2
  <2> QED BY <2>5, <2>6
<1> QED BY <1>4, <1>5

LEMMA HeapSenders ==
  ASSUME TypeOK, queue' \subseteq Task, Senders, NEW t \in Upcoming, NEW n,
         NEW asked, Heap(t, asked), asked # {} => n \in Live, conf' = conf, Reached \subseteq Reached',
         \A r \in asked : /\ r.type \in {"SendStart", "Timer", "Init", "Idle", "Finish"} /\ r.sender = n
                          /\ r.type \notin {"Init", "Timer"} => n \in Reached'
  PROVE  Senders'
<1>1. t \in Task /\ t \in Ready /\ Live' = Live /\ Node' = Node
  BY UpcomingType DEF Live, Node
<1>2. \A u \in Ready : u \in queue \/ (u.type = "Idle" /\ u.sender \in Live \cap Reached)
  BY ReadyTasks DEF Senders
<1>3. ASSUME NEW u \in queue'
      PROVE  /\ u.type \in MessageTypes \cup {"Finish"} => u.sender \in Reached' \cap Live
             /\ u.type \in {"RecvStart", "RecvEnd"} => u.receiver \in Live
             /\ u.type \in {"Timer", "Init", "Idle"} => u.sender \in Live
             /\ u.type = "Idle" => u.sender \in Reached'
  <2>1. Origin(t, asked, u)
    BY DEF Heap
  <2>2. CASE u \in Ready
    BY <1>2, <2>2 DEF Senders, MessageTypes
  <2>3. CASE Succeeds(t, u) /\ u \in Admitted(u)
    <3>1. t \in queue /\ t.type \in MessageTypes /\ u.type \in MessageTypes
          /\ (u.type = "RecvEnd" => t.type = "RecvStart")
          /\ u.sender = t.sender /\ u.receiver = t.receiver
      BY <1>1, <1>2, <2>3 DEF Succeeds, Successors, MessageTypes
    <3>2. u.type = "RecvStart" => u.receiver \notin conf.failed
      <4>1. SUFFICES ASSUME u.type = "RecvStart", u.receiver \in conf.failed PROVE FALSE
        OBVIOUS
      <4>2. u = [u EXCEPT !.type = "Failure"]
        BY <2>3, <4>1 DEF Admitted
      <4>3. u \in Task
        OBVIOUS
      <4>4. u.type = "Failure"
        BY <4>2, <4>3 DEF Task
      <4> QED BY <4>1, <4>4
    <3>3. u.receiver \in Node
      BY <1>1, <3>1 DEF Task
    <3> QED BY <3>1, <3>2, <3>3 DEF Senders, MessageTypes, Live
  <2>4. CASE u.type # "Idle" /\ u \in Admitted(u) /\ \E r \in asked : SameTask(u, r)
    BY <2>4 DEF SameTask, MessageTypes
  <2>5. CASE u.type = "Failure"
    BY <2>5 DEF MessageTypes
  <2> QED BY <2>1, <2>2, <2>3, <2>4, <2>5 DEF Origin
<1>4. ASSUME NEW m \in Node, pending'[m]
      PROVE  m \in Live \cap Reached'
  BY <1>4 DEF Heap, Senders
<1> QED BY <1>1, <1>3, <1>4 DEF Senders

LEMMA HeapWaits ==
  ASSUME TypeOK, Senders, OneWait, NEW t \in Upcoming, NEW asked, Heap(t, asked),
         NEW m \in Node, \A r \in asked : r.sender # m, conf' = conf, local'[m].cur = local[m].cur,
         m \notin Reached
  PROVE  /\ \A u, v \in Waits(m)' : u = v
         /\ \A u \in Waits(m)' : u.type = "Timer" => AwaitsTimer(local[m].cur, u.tag)'
<1>1. Waits(m)' \subseteq Waits(m)
  <2>1. ASSUME NEW u \in queue', u.sender = m, u.type \in {"Init", "Timer"}
        PROVE  u \in queue
    <3>1. Origin(t, asked, u)
      BY DEF Heap
    <3>2. u \in Ready => u \in queue
      BY <2>1 DEF Ready, IdleTask
    <3>3. ~ Succeeds(t, u)
      BY <2>1 DEF Succeeds, Successors
    <3>4. \A r \in asked : ~ SameTask(u, r)
      BY <2>1 DEF SameTask
    <3> QED BY <2>1, <3>1, <3>2, <3>3, <3>4 DEF Origin
  <2> QED BY <2>1 DEF Waits
<1>2. Last' = Last
  BY DEF Last
<1>3. \A tag : AwaitsTimer(local[m].cur, tag)' <=> AwaitsTimer(local[m].cur, tag)
  BY <1>2 DEF AwaitsTimer
<1> QED BY <1>1, <1>3 DEF OneWait

(* What an answer means for the node that is notified. *)
AnswerOf(t, n, out) ==
  /\ n \in Live /\ n = NotifiedNode(t)
  /\ Combined(n, t, Clock(t), out) /\ Follow(n, t, out)
  /\ local' = [local EXCEPT ![n] = out.s]
  /\ Reached' = IF out.s.reached THEN Reached \cup {n} ELSE Reached
  /\ t.type = "RecvEnd" => out.s.reached
  /\ t.type # "RecvEnd" => Reached' = Reached
  /\ \A r \in RangeOf(Accept(n, out)) :
       /\ r.type \in {"SendStart", "Timer", "Init", "Idle", "Finish"} /\ r.sender = n
       /\ r.type \notin {"Init", "Timer"} => n \in Reached'
  /\ ~ out.s.reached =>
       /\ t \in Waits(n) /\ Len(Accept(n, out)) <= 1
       /\ \A r \in RangeOf(Accept(n, out)) :
            r.type = "Init" \/ (r.type = "Timer" /\ AwaitsTimer(out.s.cur, r.tag))
  /\ Heap(t, RangeOf(Accept(n, out))) /\ Once(t, Accept(n, out))

LEMMA AnswerIs ==
  ASSUME TypeOK, LocalOK, Senders, OneWait, conf' = conf, NEW t \in Upcoming,
         NEW draw \in Draws(NotifiedNode(t), t), NEW out, RootBegins(NotifiedNode(t), t),
         t.type \in DOMAIN Priority \ {"Msg", "Failure"}, Answers(t, NotifiedNode(t), draw, out)
  PROVE  AnswerOf(t, NotifiedNode(t), out)
<1>1. t \in Task /\ Clock(t) \in Nat /\ NotifiedNode(t) \in Node
  BY UpcomingType
<1>2. PICK n \in Node : n = NotifiedNode(t)
  BY <1>1
<1>3. draw \in Node
  BY <1>1 DEF Draws
<1>4. /\ out = CombinerDispatch(n, t, Clock(t), draw) /\ Combined(n, t, Clock(t), out)
      /\ t.type = "RecvEnd" => out.s.reached
      /\ Follow(n, t, out) /\ Heap(t, RangeOf(Accept(n, out))) /\ Once(t, Accept(n, out))
  BY <1>2 DEF Answers
<1>5. /\ n \in Live
      /\ ~ out.s.reached =>
           /\ t \in Waits(n) /\ Len(Accept(n, out)) <= 1
           /\ \A r \in RangeOf(Accept(n, out)) :
                r.type = "Init" \/ (r.type = "Timer" /\ AwaitsTimer(out.s.cur, r.tag))
  BY <1>2, <1>3, <1>4, AskersReached
<1>6. local' = [local EXCEPT ![n] = out.s] /\ local \in [Node -> State] /\ Node' = Node
  BY <1>4 DEF Follow, LocalOK, Node
<1>7. (local[n].reached => out.s.reached) /\ (t.type # "RecvEnd" => (out.s.reached <=> local[n].reached))
  BY <1>4 DEF Combined, Colours
<1>8. \A m \in Node : local'[m].reached <=> IF m = n THEN out.s.reached ELSE local[m].reached
  BY <1>6
<1>9. Reached' = IF out.s.reached THEN Reached \cup {n} ELSE Reached
  BY <1>6, <1>7, <1>8 DEF Reached
<1>10. t.type # "RecvEnd" => Reached' = Reached
  BY <1>7, <1>9 DEF Reached
<1>11. \A r \in RangeOf(Accept(n, out)) :
         r.type \in {"SendStart", "Timer", "Init", "Idle", "Finish"} /\ r.sender = n
  BY <1>1, <1>4, AskedTypes
<1>12. \A r \in RangeOf(Accept(n, out)) : r.type \notin {"Init", "Timer"} => n \in Reached'
  BY <1>5, <1>9
<1> QED BY <1>2, <1>4, <1>5, <1>6, <1>9, <1>10, <1>11, <1>12 DEF AnswerOf

LEMMA StepDelivery ==
  ASSUME TypeOK, TypeOK', LocalOK, StartUp, Senders, OneWait, [CNext]_vars
  PROVE  Senders' /\ OneWait'
<1>1. conf' = conf /\ Last' = Last /\ Node' = Node /\ Live' = Live /\ queue' \subseteq Task
  <2>1. conf' = conf /\ queue' \subseteq Task'
    BY StepLocal DEF TypeOK
  <2>2. Node' = Node /\ Task' = Task
    BY <2>1 DEF Node, Task
  <2> QED BY <2>1, <2>2 DEF Last, Live
<1>2. \A cur, tag : AwaitsTimer(cur, tag)' <=> AwaitsTimer(cur, tag)
  BY <1>1 DEF AwaitsTimer
<1>3. CASE Rests
  <2>1. local' = local /\ queue' = queue /\ pending' = pending
    BY <1>3 DEF Rests, cvars
  <2>2. Reached' = Reached
    BY <1>1, <2>1 DEF Reached
  <2> QED BY <1>1, <1>2, <2>1, <2>2 DEF Senders, OneWait, Waits
<1>4. ASSUME NEW t \in Upcoming, Passes(t), Heap(t, {}), UNCHANGED cvars
      PROVE  Senders' /\ OneWait'
  <2>1. local' = local
    BY <1>4 DEF cvars
  <2>2. Reached' = Reached
    BY <1>1, <2>1 DEF Reached
  <2>4. Senders'
    BY <1>1, <1>4, <2>2, HeapSenders
  <2>5. OneWait'
    BY <1>1, <1>2, <1>4, <2>1, <2>2, HeapWaits DEF OneWait
  <2> QED BY <2>4, <2>5
<1>5. ASSUME NEW t \in Upcoming, NEW draw \in Draws(NotifiedNode(t), t), NEW out,
             RootBegins(NotifiedNode(t), t), t.type \in DOMAIN Priority \ {"Msg", "Failure"},
             Answers(t, NotifiedNode(t), draw, out)
      PROVE  Senders' /\ OneWait'
  <2>1. PICK n : n = NotifiedNode(t) /\ AnswerOf(t, n, out)
    BY <1>1, <1>5, AnswerIs
  <2>2. PICK asked : asked = RangeOf(Accept(n, out))
    OBVIOUS
  <2>3. n \in Live /\ n \in Node /\ Reached \subseteq Reached' /\ Heap(t, asked)
    BY <2>1, <2>2 DEF AnswerOf, Live
  <2>4. \A r \in asked : /\ r.type \in {"SendStart", "Timer", "Init", "Idle", "Finish"} /\ r.sender = n
                         /\ r.type \notin {"Init", "Timer"} => n \in Reached'
    BY <2>1, <2>2 DEF AnswerOf
  <2>5. Senders'
    BY <1>1, <2>3, <2>4, HeapSenders
  <2>6. ASSUME NEW m \in Node, m \notin Reached', m # n
        PROVE  /\ \A u, v \in Waits(m)' : u = v
               /\ \A u \in Waits(m)' : u.type = "Timer" => AwaitsTimer(local[m].cur, u.tag)'
    <3>1. local'[m] = local[m]
      BY <2>1, <2>6 DEF AnswerOf, LocalOK
    <3>2. \A r \in asked : r.sender # m
      BY <2>4, <2>6
    <3> QED BY <1>1, <1>2, <2>3, <2>6, <3>1, <3>2, HeapWaits
  <2>7. ASSUME n \notin Reached'
        PROVE  /\ \A u, v \in Waits(n)' : u = v
               /\ \A u \in Waits(n)' : u.type = "Timer" => AwaitsTimer(local[n].cur, u.tag)'
    <3>1. ~ out.s.reached
      BY <2>1, <2>7 DEF AnswerOf
    <3>2. /\ t \in Waits(n) /\ Once(t, Accept(n, out)) /\ Len(Accept(n, out)) <= 1
          /\ \A r \in asked : r.type = "Init" \/ (r.type = "Timer" /\ AwaitsTimer(out.s.cur, r.tag))
      BY <2>1, <2>2, <3>1 DEF AnswerOf
    <3>3. \A u, v \in Waits(n) : u = v
      BY <2>3, <2>7 DEF OneWait
    <3>4. local'[n] = out.s
      BY <2>1, <2>3 DEF AnswerOf, LocalOK
    <3>5. ASSUME NEW u \in queue', u.sender = n, u.type \in {"Init", "Timer"}
          PROVE  Added(t, u) /\ \E r \in asked : SameTask(u, r)
      <4>1. Origin(t, asked, u)
        BY <2>3 DEF Heap
      <4>2. u \in Ready => u \in Waits(n)
        BY <3>5, ReadyTasks DEF Waits
      <4>3. ~ (u \in Ready /\ (u # t \/ t.type = "RecvEnd"))
        BY <3>2, <3>3, <4>2 DEF Waits
      <4>4. ~ Succeeds(t, u)
        BY <3>5 DEF Succeeds, Successors
      <4>5. \E r \in asked : SameTask(u, r)
        BY <3>5, <4>1, <4>3, <4>4 DEF Origin
      <4>6. u.type # "Failure"
        BY <3>5
      <4> QED BY <4>3, <4>4, <4>5, <4>6 DEF Added
    <3> QED BY <1>2, <3>2, <3>4, <3>5 DEF Waits, Once, SameTask
  <2>8. OneWait'
    <3>1. ASSUME NEW m \in Node, m \notin Reached'
          PROVE  /\ \A u, v \in Waits(m)' : u = v
                 /\ \A u \in Waits(m)' : u.type = "Timer" => AwaitsTimer(local[m].cur, u.tag)'
      <4>1. CASE m = n
        BY <2>7, <3>1, <4>1
      <4> QED BY <2>6, <3>1, <4>1
    <3> QED BY <1>1, <3>1 DEF OneWait
  <2> QED BY <2>5, <2>8
<1> QED BY <1>3, <1>4, <1>5, StepCases

(* The heap at the beginning: an InitTask for everybody alive. *)
LEMMA FirstTasks ==
  ASSUME NEW first \in Nat, CStart(first), NEW t \in queue
  PROVE  \/ t.type = "Failure"
         \/ \E n \in Live : t = [type |-> "Init", tag |-> "INIT", time |-> 0, seq |-> first + n,
                                sender |-> n, receiver |-> n]
<1>1. queue = AllAdmitted({[type |-> "Init", tag |-> "INIT", time |-> 0, seq |-> first + n,
                            sender |-> n, receiver |-> n] : n \in Node})
  BY DEF CStart, QStart
<1>2. PICK n \in Node : t \in Admitted([type |-> "Init", tag |-> "INIT", time |-> 0, seq |-> first + n,
                                        sender |-> n, receiver |-> n])
  BY <1>1 DEF AllAdmitted
<1> QED BY <1>2 DEF Admitted, Live

LEMMA InitDelivery ==
  ASSUME NEW first \in Nat, CStart(first)
  PROVE  Senders /\ OneWait
<1>1. TypeOK
  BY InitInvariant DEF CStart, IInv
<1>3. ASSUME NEW t \in queue
      PROVE  \/ t.type = "Failure"
             \/ \E n \in Live : t = [type |-> "Init", tag |-> "INIT", time |-> 0, seq |-> first + n,
                                    sender |-> n, receiver |-> n]
  BY FirstTasks
<1>4. \A n \in Node : ~ pending[n]
  BY DEF CStart, QStart
<1>5. Senders
  <2>1. \A t \in queue : /\ t.type \in {"Failure", "Init"}
                         /\ t.type = "Init" => t.sender \in Live
    BY <1>3
  <2> QED BY <1>4, <2>1 DEF Senders, MessageTypes
<1>6. OneWait
  BY <1>3 DEF OneWait, Waits
<1> QED BY <1>5, <1>6

-----------------------------------------------------------------------------
(* A collective implements the abstract broadcast. *)

Image(t) == [id |-> t.seq, from |-> t.sender, to |-> t.receiver]

LEMMA WireIs ==
  /\ \A u \in queue : u.type \in MessageTypes => Image(u) \in Wire
  /\ \A x \in Wire : \E u \in queue : u.type \in MessageTypes /\ x = Image(u)
BY DEF Wire, Image, MessageTypes

LEMMA WireWillBe ==
  /\ \A u \in queue' : u.type \in MessageTypes => Image(u) \in Wire'
  /\ \A x \in Wire' : \E u \in queue' : u.type \in MessageTypes /\ x = Image(u)
BY DEF Wire, Image, MessageTypes

LEMMA SameImage ==
  ASSUME NEW t, NEW u, Succeeds(t, u)
  PROVE  Image(u) = Image(t) /\ t.type \in MessageTypes /\ u.type \in MessageTypes
BY DEF Succeeds, Successors, Image, MessageTypes

(* What is new on the wire was asked for, by the node that was notified. *)
LEMMA NewOnWire ==
  ASSUME TypeOK, NEW t \in Upcoming, NEW n, NEW asked, Heap(t, asked),
         \A r \in asked : r.type \in {"SendStart", "Timer", "Init", "Idle", "Finish"} /\ r.sender = n
  PROVE  \A x \in Wire' : x \notin Wire => x.from = n /\ \E r \in asked : r.type = "SendStart"
<1> SUFFICES ASSUME NEW x \in Wire', x \notin Wire
    PROVE  x.from = n /\ \E r \in asked : r.type = "SendStart"
  OBVIOUS
<1>1. PICK u \in queue' : u.type \in MessageTypes /\ x = Image(u)
  BY WireWillBe
<1>2. \/ u \in queue
      \/ t \in queue /\ t.type \in MessageTypes /\ Succeeds(t, u)
      \/ \E r \in asked : r.type = "SendStart" /\ SameTask(u, r)
  BY <1>1, UpcomingType, MessageOrigin
<1>3. u \notin queue
  BY <1>1, WireIs
<1>4. ~ (t \in queue /\ t.type \in MessageTypes /\ Succeeds(t, u))
  <2>1. SUFFICES ASSUME t \in queue, t.type \in MessageTypes, Succeeds(t, u) PROVE FALSE
    OBVIOUS
  <2>2. Image(u) = Image(t) /\ Image(t) \in Wire
    BY <2>1, SameImage, WireIs
  <2> QED BY <1>1, <2>2
<1>5. PICK r \in asked : r.type = "SendStart" /\ SameTask(u, r)
  BY <1>2, <1>3, <1>4
<1>6. u.sender = n
  BY <1>5 DEF SameTask
<1> QED BY <1>1, <1>5, <1>6 DEF Image

(* A message leaves the wire when it is received, or its receiver failed. *)
LEMMA StaysOnWire ==
  ASSUME TypeOK, Senders, NEW t \in Upcoming, NEW asked, Heap(t, asked), NEW x \in Wire, x \notin Wire'
  PROVE  /\ t \in queue /\ x = Image(t)
         /\ t.type = "RecvEnd" \/ (t.type = "Msg" /\ t.receiver \in conf.failed)
<1>1. PICK u \in queue : u.type \in MessageTypes /\ x = Image(u)
  BY WireIs
<1>2. u \in Ready
  BY DEF Ready
<1>3. u = t
  BY <1>1, <1>2, WireWillBe DEF Heap
<1>4. ~ \E v \in queue' : Succeeds(t, v)
  <2>1. SUFFICES ASSUME NEW v \in queue', Succeeds(t, v) PROVE FALSE
    OBVIOUS
  <2>2. Image(v) = Image(t) /\ Image(v) \in Wire'
    BY <2>1, SameImage, WireWillBe
  <2> QED BY <1>1, <1>3, <2>2
<1>5. t.type \in {"SendStart", "SendEnd"} => t.sender \notin conf.failed
  BY <1>3 DEF Senders, MessageTypes, Live
<1>6. t.type = "RecvStart" => t.receiver \notin conf.failed
  BY <1>3 DEF Senders, Live
<1> QED BY <1>1, <1>3, <1>4, <1>5, <1>6 DEF Heap, Continues, MessageTypes

LEMMA StepBroadcast ==
  ASSUME TypeOK, LocalOK, StartUp, Senders, OneWait, [CNext]_vars
  PROVE  [Abstract!Next]_(Abstract!vars)
<1>1. conf' = conf /\ Node' = Node /\ Live' = Live
  BY StepLocal DEF Node, Live
<1>2. ASSUME Reached' = Reached, Wire' = Wire
      PROVE  UNCHANGED Abstract!vars
  BY <1>1, <1>2 DEF Abstract!vars
<1>3. CASE Rests
  <2>1. Reached' = Reached /\ Wire' = Wire
    BY <1>1, <1>3 DEF Rests, cvars, Reached, Wire
  <2> QED BY <1>2, <2>1
<1>4. ASSUME NEW t \in Upcoming, Passes(t), Heap(t, {}), UNCHANGED cvars
      PROVE  [Abstract!Next]_(Abstract!vars)
  <2>1. Reached' = Reached
    BY <1>1, <1>4 DEF cvars, Reached
  <2>2. Wire' \subseteq Wire
    <3>1. PICK nobody, asked : nobody = 0 /\ asked = {}
      OBVIOUS
    <3>2. Heap(t, asked) /\ \A r \in asked : /\ r.type \in {"SendStart", "Timer", "Init", "Idle", "Finish"}
                                            /\ r.sender = nobody
      BY <1>4, <3>1
    <3>3. \A x \in Wire' : x \notin Wire => x.from = nobody /\ \E r \in asked : r.type = "SendStart"
      BY <3>2, NewOnWire
    <3> QED BY <3>1, <3>3
  <2>3. t.type # "RecvEnd"
    BY <1>4 DEF Passes, DelaySend, DelayRecv, Msg, Failure
  <2>4. CASE Wire \subseteq Wire'
    BY <1>2, <2>1, <2>2, <2>4
  <2>5. ASSUME NEW x \in Wire, x \notin Wire'
        PROVE  Abstract!Next
    <3>1. x = Image(t) /\ t.receiver \in conf.failed
      BY <1>4, <2>3, <2>5, StaysOnWire
    <3>2. \A y \in Wire : y \notin Wire' => y = Image(t)
      BY <1>4, StaysOnWire
    <3>3. Wire' = Wire \ {x}
      BY <2>2, <2>5, <3>1, <3>2
    <3>4. x.to \notin Live
      BY <3>1 DEF Image, Live
    <3>5. Abstract!Lose(x)
      BY <1>1, <2>1, <3>3, <3>4 DEF Abstract!Lose
    <3> QED BY <3>5 DEF Abstract!Next
  <2> QED BY <2>4, <2>5
<1>5. ASSUME NEW t \in Upcoming, NEW draw \in Draws(NotifiedNode(t), t), NEW out,
             RootBegins(NotifiedNode(t), t), t.type \in DOMAIN Priority \ {"Msg", "Failure"},
             Answers(t, NotifiedNode(t), draw, out)
      PROVE  [Abstract!Next]_(Abstract!vars)
  <2>1. PICK n : n = NotifiedNode(t) /\ AnswerOf(t, n, out)
    BY <1>1, <1>5, AnswerIs
  <2>2. PICK asked : asked = RangeOf(Accept(n, out))
    OBVIOUS
  <2>3. n \in Live /\ Heap(t, asked)
    BY <2>1, <2>2 DEF AnswerOf
  <2>4. \A r \in asked : /\ r.type \in {"SendStart", "Timer", "Init", "Idle", "Finish"} /\ r.sender = n
                         /\ r.type \notin {"Init", "Timer"} => n \in Reached'
    BY <2>1, <2>2 DEF AnswerOf
  <2>5. \A x \in Abstract!New : x.from = n /\ n \in Reached'
    <3>1. \A x \in Wire' : x \notin Wire => x.from = n /\ \E r \in asked : r.type = "SendStart"
      <4>1. Heap(t, asked) /\ \A r \in asked : /\ r.type \in {"SendStart", "Timer", "Init", "Idle", "Finish"}
                                              /\ r.sender = n
        BY <2>3, <2>4
      <4> QED BY <4>1, NewOnWire
    <3> QED BY <2>4, <3>1 DEF Abstract!New
  <2>6. CASE t.type = "RecvEnd"
    <3>1. t \in queue /\ n = t.receiver
      BY <2>1, <2>6, UpcomingType, ReadyTasks DEF NotifiedNode
    <3>2. PICK m \in Wire : m = Image(t)
      BY <2>6, <3>1, WireIs DEF MessageTypes
    <3>3. m.to = n
      BY <3>1, <3>2 DEF Image
    <3>4. Reached' = Reached \cup {n}
      BY <2>1, <2>6 DEF AnswerOf
    <3>5. Wire \ {m} \subseteq Wire'
      BY <2>3, <3>2, StaysOnWire
    <3>6. Abstract!Hear(m)
      BY <1>1, <2>3, <2>5, <3>3, <3>4, <3>5 DEF Abstract!Hear
    <3> QED BY <3>6 DEF Abstract!Next
  <2>7. CASE t.type # "RecvEnd"
    <3>1. Reached' = Reached
      BY <2>1, <2>7 DEF AnswerOf
    <3>2. Wire \subseteq Wire'
      BY <1>5, <2>3, <2>7, StaysOnWire
    <3>3. CASE Abstract!New = {}
      <4>1. Wire' = Wire
        BY <3>2, <3>3 DEF Abstract!New
      <4> QED BY <1>2, <3>1, <4>1
    <3>4. CASE Abstract!New # {}
      <4>1. n \in Reached
        BY <2>5, <3>1, <3>4
      <4>2. Abstract!Speak(n)
        BY <1>1, <2>3, <2>5, <3>1, <3>2, <4>1 DEF Abstract!Speak
      <4> QED BY <4>1, <4>2 DEF Abstract!Next
    <3> QED BY <3>3, <3>4
  <2> QED BY <2>6, <2>7
<1> QED BY <1>3, <1>4, <1>5, StepCases

(* Every collective in which the root alone knows the value at first does  *)
(* what a broadcast promises: only live nodes that were reached send, a    *)
(* message reaches the live node it is meant for and is lost with a failed *)
(* one, nothing else colours a node and nothing else is lost; for every    *)
(* tree, correction, failure pattern and LogP machine.                     *)
THEOREM BroadcastImplemented == CSpec /\ FirstReached = {0} => ImplementsBroadcast
<1> DEFINE Inv == CInv /\ Senders /\ OneWait
<1>1. CInit => Inv
  BY FirstCollective, InitCInv, InitDelivery DEF CStarted
<1>2. Inv /\ [CNext]_vars => Inv' /\ [Abstract!Next]_(Abstract!vars)
  <2> SUFFICES ASSUME Inv, [CNext]_vars PROVE Inv' /\ [Abstract!Next]_(Abstract!vars)
    OBVIOUS
  <2>1. CInv' /\ TypeOK /\ LocalOK /\ StartUp
    BY StepCInv DEF CInv, IInv
  <2>2. TypeOK'
    BY <2>1 DEF CInv, IInv
  <2>3. Senders' /\ OneWait'
    BY <2>1, <2>2, StepDelivery
  <2>4. [Abstract!Next]_(Abstract!vars)
    BY <2>1, StepBroadcast
  <2> QED BY <2>1, <2>3, <2>4
<1>3. CInit /\ FirstReached = {0} => Abstract!Init
  <2> SUFFICES ASSUME CInit, FirstReached = {0} PROVE Abstract!Init
    OBVIOUS
  <2>1. TypeOK /\ 0 \in Node
    <3>1. TypeOK
      BY FirstCollective, InitCInv DEF CInv, IInv
    <3> QED BY <3>1, CollectiveType DEF Node
  <2>2. Reached = {0}
    BY <2>1 DEF CInit, Reached, InitialState
  <2>3. \A t \in queue : t.type \notin MessageTypes
    BY DEF CInit, QInit, AllAdmitted, Admitted, MessageTypes
  <2>4. Wire = {}
    BY <2>3, WireIs
  <2> QED BY <2>2, <2>4 DEF Abstract!Init
<1> HIDE DEF Inv
<1> QED BY <1>1, <1>2, <1>3, PTL DEF CSpec, ImplementsBroadcast, Abstract!Spec

-----------------------------------------------------------------------------
(***************************************************************************)
(* What keeps a node going: a phase that has not ended has a task in the   *)
(* heap, or an idle request, that makes it go on.  Phases that wait for    *)
(* the time do so for every node, the others for the nodes reached.  Only  *)
(* gathering waits for messages of others.                                 *)
(***************************************************************************)
IsCue(ph, u) ==
  \/ u.type = "Init"
  \/ ph.exclusive /\ u.type = "Timer" /\ u.tag = "EXCLUSIVE"
  \/ ph.kind = "Gossip" /\ u.type = "Timer"
  \/ ph.kind = "Checked" /\ u.type \in {"Timer", "Idle", "SendStart", "SendEnd"}
  \/ ph.kind = "Opportunistic" /\ u.type = "Idle"

Corrects(ph) == ph.kind \in {"Checked", "Opportunistic"}

Cued(n, ph) ==
  \/ \E u \in queue : u.sender = n /\ IsCue(ph, u)
  \/ Corrects(ph) /\ pending[n]

KeepsTime(ph) == ph.exclusive \/ ph.kind \in {"DepInit", "ReductionDepInit", "Gossip"}

Guide(n) ==
  LET ph == conf.phases[local[n].cur]
  IN /\ local[n].cur <= Last /\ KeepsTime(ph) => Cued(n, ph)
     /\ n \in Reached \ done => local[n].cur <= Last /\ (ph.kind # "Gather" => Cued(n, ph))

Guided == \A n \in Live : Guide(n)

(* A phase that goes on after t did not need t, or asks for the next cue. *)
Keeps(ph, s, t, out) ==
  \/ \E r \in RangeOf(out.reqs) : IsCue(ph, r)
  \/ /\ ~ IsCue(ph, t) \/ (ph.kind = "Checked" /\ t.type = "SendStart")
     /\ KeepsTime(ph) \/ s.reached

LEMMA CueTypes ==
  ASSUME NEW n, NEW at, NEW ph
  PROVE  /\ Corrects(ph) => IsCue(ph, IdleRequest(n))
         /\ ph.kind = "Checked" => \A tag, m : IsCue(ph, SendRequest(tag, at, n, m))
         /\ ph.kind \in {"Checked", "Gossip"} => \A tag : IsCue(ph, TimerRequest(tag, at, n))
         /\ ph.exclusive => IsCue(ph, TimerRequest("EXCLUSIVE", at, n))
         /\ IsCue(ph, InitRequest(at, n))
BY DEF IsCue, Corrects, IdleRequest, SendRequest, TimerRequest, InitRequest

LEMMA CheckedKeeps ==
  ASSUME TypeOK, NEW n \in Node, NEW ph, ph.kind = "Checked", ~ ph.exclusive, NEW s \in State,
         NEW t \in Task, NEW at \in Nat, NEW out, out = CheckedDispatch(conf, ph, n, s, t, at),
         out.res = "ONGOING", t.type = "RecvEnd" \/ out.s.reached
  PROVE  Keeps(ph, s, t, out)
<1>1. Corrects(ph) /\ IsCue(ph, IdleRequest(n))
  BY CueTypes DEF Corrects
<1>2. ASSUME out.reqs = <<IdleRequest(n)>>
      PROVE  Keeps(ph, s, t, out)
  BY <1>1, <1>2, FewRange DEF Keeps
<1>3. CASE t.type = "Init"
  <2>1. out = CorrectionInit(n, s)
    BY <1>3 DEF CheckedDispatch
  <2>2. s.reached /\ out.reqs = <<IdleRequest(n)>>
    BY <1>3, <2>1 DEF CorrectionInit, Outcome
  <2> QED BY <1>2, <2>2
<1>4. CASE t.type \in {"Timer", "SendEnd"}
  <2>1. out.reqs = <<IdleRequest(n)>>
    BY <1>4 DEF CheckedDispatch, Outcome
  <2> QED BY <1>2, <2>1
<1>5. CASE t.type = "Idle"
  <2>1. PICK v : v = Barred(conf, ph, n, Barred(conf, ph, n, s))
    OBVIOUS
  <2>2. out = PostOpen(conf, ph, n, v, at)
    BY <1>5, <2>1 DEF CheckedDispatch, PostMessage
  <2>3. PICK dir : dir = Dir(ph, v)
    OBVIOUS
  <2>4. out = Post(conf, ph, n, v, at, dir)
    BY <2>2, <2>3 DEF PostOpen, Outcome
  <2>5. PICK timer, tag, m : /\ timer = TimerRequest("INTERNAL", at + conf.o, n)
                             /\ out.reqs = <<timer>> \/ out.reqs = <<SendRequest(tag, at, n, m)>>
    BY <2>4 DEF Post, Outcome
  <2>6. IsCue(ph, timer) /\ IsCue(ph, SendRequest(tag, at, n, m))
    BY <2>5, CueTypes
  <2> QED BY <2>5, <2>6, FewRange DEF Keeps
<1>6. CASE t.type = "RecvEnd"
  <2>1. s.reached
    BY <1>6 DEF CheckedDispatch, CheckedRecvEnd, Outcome
  <2> QED BY <1>6, <2>1 DEF Keeps, IsCue
<1>7. CASE t.type \notin {"Init", "Timer", "SendEnd", "Idle", "RecvEnd"}
  <2>1. out.s = s
    BY <1>7 DEF CheckedDispatch, Ongoing, Outcome
  <2> QED BY <1>7, <2>1 DEF Keeps, IsCue
<1> QED BY <1>3, <1>4, <1>5, <1>6, <1>7

LEMMA OpportunisticKeeps ==
  ASSUME TypeOK, NEW n \in Node, NEW ph, ph.kind = "Opportunistic", ~ ph.exclusive, NEW s \in State,
         NEW t \in Task, NEW at \in Nat, NEW out, out = OpportunisticDispatch(conf, ph, n, s, t, at),
         out.res = "ONGOING", t.type = "RecvEnd" \/ out.s.reached
  PROVE  Keeps(ph, s, t, out)
<1>1. Corrects(ph) /\ IsCue(ph, IdleRequest(n))
  BY CueTypes DEF Corrects
<1>2. ASSUME NEW S, NEW reqs \in Seq(S), out.reqs = Append(reqs, IdleRequest(n))
      PROVE  Keeps(ph, s, t, out)
  <2>1. RangeOf(out.reqs) = RangeOf(reqs) \cup {IdleRequest(n)}
    BY <1>2, AppendRange
  <2> QED BY <1>1, <2>1 DEF Keeps
<1>3. ASSUME out.reqs = <<IdleRequest(n)>>
      PROVE  Keeps(ph, s, t, out)
  BY <1>1, <1>3, FewRange DEF Keeps
<1>4. ASSUME NEW S, NEW reqs \in Seq(S), NEW v, out = CoverOrWait(conf, n, reqs, v)
      PROVE  Keeps(ph, s, t, out)
  <2>1. out.reqs = Append(reqs, IdleRequest(n))
    BY <1>4 DEF CoverOrWait, Outcome
  <2> QED BY <1>2, <2>1
<1>5. CASE t.type = "Init"
  <2>1. out = CorrectionInit(n, s)
    BY <1>5 DEF OpportunisticDispatch
  <2>2. s.reached /\ out.reqs = <<IdleRequest(n)>>
    BY <1>5, <2>1 DEF CorrectionInit, Outcome
  <2> QED BY <1>3, <2>2
<1>6. CASE t.type = "Idle"
  <2>1. out = OpportunisticIdle(conf, ph, n, s, at)
    BY <1>6 DEF OpportunisticDispatch
  <2>2. s.reached
    BY <1>6, <2>1 DEF OpportunisticIdle, Ongoing, Outcome
  <2>3. PICK v, send, r : out = CoverOrWait(conf, n, send, v) /\ (send = <<r>> \/ send = <<>>)
    BY <2>1, <2>2 DEF OpportunisticIdle
  <2>4. send \in Seq({r})
    BY <2>3, Few
  <2> QED BY <1>4, <2>3, <2>4
<1>7. CASE t.type = "RecvEnd"
  <2>1. out = OpportunisticRecvEnd(conf, ph, n, s, t)
    BY <1>7 DEF OpportunisticDispatch
  <2>2. CASE ph.optimised
    <3>1. PICK v : out = CoverOrWait(conf, n, <<>>, v)
      BY <2>1, <2>2 DEF OpportunisticRecvEnd
    <3>2. <<>> \in Seq({})
      OBVIOUS
    <3> QED BY <1>4, <3>1, <3>2
  <2>3. CASE ~ ph.optimised
    <3>1. out.reqs = <<IdleRequest(n)>>
      BY <2>1, <2>3 DEF OpportunisticRecvEnd, Outcome
    <3> QED BY <1>3, <3>1
  <2> QED BY <2>2, <2>3
<1>8. CASE t.type \notin {"Init", "Idle", "RecvEnd"}
  <2>1. out.s = s
    BY <1>8 DEF OpportunisticDispatch, Ongoing, Outcome
  <2> QED BY <1>8, <2>1 DEF Keeps, IsCue
<1> QED BY <1>5, <1>6, <1>7, <1>8

LEMMA PlainKeeps ==
  ASSUME TypeOK, NEW n \in Node, NEW ph, ph.kind \in Kinds \ {"Gather"}, ~ ph.exclusive, NEW s \in State,
         NEW t \in Task, NEW at \in Nat, NEW draw \in Node, NEW out,
         out = PlainDispatch(ph, n, s, t, at, draw), out.res = "ONGOING",
         KeepsTime(ph) \/ t.type = "RecvEnd" \/ out.s.reached
  PROVE  Keeps(ph, s, t, out)
<1>1. CASE ph.kind \in {"DepInit", "ReductionDepInit"}
  <2>1. t.type # "Init"
    BY <1>1 DEF PlainDispatch, DepInitDispatch, Outcome
  <2> QED BY <1>1, <2>1 DEF Keeps, IsCue, KeepsTime
<1>2. CASE ph.kind = "Tree"
  <2>1. out = TreeDispatch(conf, ph, n, s, t, at)
    BY <1>2 DEF PlainDispatch
  <2>2. t.type # "RecvEnd"
    BY <2>1 DEF TreeDispatch, TreeRecvEnd, Outcome
  <2>3. s.reached
    BY <1>2, <2>1, <2>2 DEF KeepsTime, TreeDispatch, TreeInit, Ongoing, Outcome
  <2>4. t.type # "Init"
    BY <2>1, <2>3 DEF TreeDispatch, TreeInit, Outcome
  <2> QED BY <1>2, <2>3, <2>4 DEF Keeps, IsCue
<1>3. CASE ph.kind = "Checked"
  BY <1>3, CheckedKeeps DEF PlainDispatch, KeepsTime
<1>4. CASE ph.kind = "Opportunistic"
  BY <1>4, OpportunisticKeeps DEF PlainDispatch, KeepsTime
<1>5. CASE ph.kind = "Gossip"
  <2>1. PICK begin : begin = StartTime(at)
    OBVIOUS
  <2>2. out = GossipDispatch(conf, n, s, t, at, begin, draw)
    BY <1>5, <2>1 DEF PlainDispatch
  <2>3. CASE t.type = "Init"
    <3>1. PICK timer : timer = TimerRequest("INTERNAL", begin + conf.gossip, n)
      OBVIOUS
    <3>2. PICK rest : rest = IF s.reached THEN <<IdleRequest(n)>> ELSE <<>>
      OBVIOUS
    <3>3. out.reqs = <<timer>> \o rest
      BY <2>2, <2>3, <3>1, <3>2 DEF GossipDispatch, GossipInit, Outcome
    <3>4. <<timer>> \in Seq({timer, IdleRequest(n)}) /\ rest \in Seq({timer, IdleRequest(n)})
      BY <3>2, Few
    <3>5. timer \in RangeOf(out.reqs)
      <4>1. PICK S, first : first = <<timer>> /\ first \in Seq(S) /\ rest \in Seq(S)
        BY <3>4
      <4>2. RangeOf(first \o rest) = RangeOf(first) \cup RangeOf(rest)
        <5>1. PICK a \in Seq(S), b \in Seq(S) : a = first /\ b = rest
          BY <4>1
        <5>2. RangeOf(a \o b) = RangeOf(a) \cup RangeOf(b)
          BY ConcatRange
        <5> QED BY <5>1, <5>2
      <4>3. timer \in RangeOf(first)
        BY <4>1, FewRange
      <4> QED BY <3>3, <4>1, <4>2, <4>3
    <3>6. IsCue(ph, timer)
      BY <1>5, <3>1, CueTypes
    <3> QED BY <3>5, <3>6 DEF Keeps
  <2>4. CASE t.type = "Timer"
    BY <2>2, <2>4 DEF GossipDispatch, GossipTimer, Outcome
  <2>5. CASE t.type \notin {"Init", "Timer"}
    BY <1>5, <2>5 DEF Keeps, IsCue, KeepsTime
  <2> QED BY <2>3, <2>4, <2>5
<1>6. CASE ph.kind = "MultiTree"
  <2>1. out = MultiTreeDispatch(conf, n, s, t, at)
    BY <1>6 DEF PlainDispatch
  <2>2. t.type # "RecvEnd"
    BY <2>1 DEF MultiTreeDispatch, MultiTreeRecvEnd, Outcome
  <2>3. s.reached
    BY <1>6, <2>1, <2>2 DEF KeepsTime, MultiTreeDispatch, MultiTreeInit, Ongoing, Outcome
  <2>4. t.type # "Init"
    BY <2>1, <2>3 DEF MultiTreeDispatch, MultiTreeInit, Outcome
  <2> QED BY <1>6, <2>3, <2>4 DEF Keeps, IsCue
<1> QED BY <1>1, <1>2, <1>3, <1>4, <1>5, <1>6 DEF Kinds, Stage

LEMMA ExclusiveKeeps ==
  ASSUME TypeOK, start \in Nat, NEW ph, ph.kind = "Tree", ph.exclusive, NEW n \in Node, NEW s \in State,
         NEW t \in Task, NEW at \in Nat, NEW draw \in Node, NEW out,
         out = ExclusiveDispatch(ph, n, s, t, at, draw), out.res = "ONGOING"
  PROVE  Keeps(ph, s, t, out)
<1>1. PICK plain : plain = PlainDispatch(ph, n, s, t, at, draw) /\ Proper(n, s, t, at, plain)
  BY PlainProper DEF Kinds, Stage
<1>2. PICK inner : inner = Held(plain) /\ Proper(n, s, t, at, inner)
  <2>1. PICK inner : inner = Held(plain)
    OBVIOUS
  <2>2. Proper(n, s, t, at, inner)
    BY <1>1, <2>1 DEF Held, Proper, Result, Colours
  <2> QED BY <2>1, <2>2
<1>3. CASE t.type = "Init"
  <2>1. PICK timer : timer = TimerRequest("EXCLUSIVE", AbsDeadline(at), n)
    OBVIOUS
  <2>2. out = [inner EXCEPT !.reqs = <<timer>> \o @]
    BY <1>1, <1>2, <1>3, <2>1 DEF ExclusiveDispatch, Outcome
  <2>3. out.reqs = <<timer>> \o inner.reqs
    BY <1>2, <2>2 DEF Proper
  <2>4. PICK S, first : first = <<timer>> /\ first \in Seq(S) /\ inner.reqs \in Seq(S)
    <3>1. PICK T : T = Wish(n, at) \cup {timer}
      OBVIOUS
    <3>2. <<timer>> \in Seq(T) /\ inner.reqs \in Seq(T)
      BY <1>2, <3>1 DEF Proper
    <3> QED BY <3>2
  <2>5. RangeOf(first \o inner.reqs) = RangeOf(first) \cup RangeOf(inner.reqs)
    <3>1. PICK a \in Seq(S), b \in Seq(S) : a = first /\ b = inner.reqs
      BY <2>4
    <3>2. RangeOf(a \o b) = RangeOf(a) \cup RangeOf(b)
      BY ConcatRange
    <3> QED BY <3>1, <3>2
  <2>6. timer \in RangeOf(first)
    BY <2>4, FewRange
  <2>7. IsCue(ph, timer)
    BY <2>1, CueTypes
  <2> QED BY <2>3, <2>4, <2>5, <2>6, <2>7 DEF Keeps
<1>4. CASE t.type # "Init"
  <2>1. ~ (t.type = "Timer" /\ t.tag = "EXCLUSIVE")
    BY <1>4 DEF ExclusiveDispatch, Outcome
  <2> QED BY <1>4, <2>1 DEF Keeps, IsCue, KeepsTime
<1> QED BY <1>3, <1>4

LEMMA PhaseKeeps ==
  ASSUME TypeOK, start \in Nat, NEW i \in 1 .. Last, NEW ph, ph = conf.phases[i], ph.kind # "Gather",
         NEW n \in Node, NEW s \in State, NEW t \in Task, NEW at \in Nat, NEW draw \in Node, NEW out,
         out = PhaseDispatch(ph, n, s, t, at, draw), out.res = "ONGOING",
         KeepsTime(ph) \/ t.type = "RecvEnd" \/ out.s.reached
  PROVE  Keeps(ph, s, t, out)
<1>1. ph.kind \in Kinds /\ ph.exclusive \in BOOLEAN /\ (ph.exclusive => ph.kind = "Tree")
  BY PhasesType
<1>2. CASE ph.exclusive
  <2>1. out = ExclusiveDispatch(ph, n, s, t, at, draw)
    BY <1>2 DEF PhaseDispatch
  <2> QED BY <1>1, <1>2, <2>1, ExclusiveKeeps
<1>3. CASE ~ ph.exclusive
  <2>1. out = PlainDispatch(ph, n, s, t, at, draw)
    BY <1>3 DEF PhaseDispatch
  <2> QED BY <1>1, <1>3, <2>1, PlainKeeps
<1> QED BY <1>2, <1>3

(* Only a tree hands a message on, and it is not the last phase. *)
LEMMA ForwardsEarly ==
  ASSUME TypeOK, NEW i \in 1 .. Last, NEW n, NEW s, NEW t, NEW at, NEW draw,
         PhaseDispatch(conf.phases[i], n, s, t, at, draw).res = "DONE_FORWARD"
  PROVE  i < Last
<1>1. PICK ph : ph = conf.phases[i]
  OBVIOUS
<1>2. ph.kind \in Kinds /\ ph.exclusive \in BOOLEAN /\ (ph.exclusive => ph.kind = "Tree" /\ ~ ph.forward)
      /\ (ph.kind = "Tree" => (ph.forward => i < Last))
  BY <1>1, PhasesType, PhaseOrder
<1>3. PICK plain : plain = PlainDispatch(ph, n, s, t, at, draw)
  OBVIOUS
<1>4. plain.res = "DONE_FORWARD" => ph.kind = "Tree" /\ ph.forward
  <2>1. SUFFICES ASSUME plain.res = "DONE_FORWARD" PROVE ph.kind = "Tree" /\ ph.forward
    OBVIOUS
  <2>2. CASE ph.kind = "Tree"
    BY <1>3, <2>1, <2>2 DEF PlainDispatch, TreeDispatch, TreeInit, TreeRecvEnd, Ongoing, Outcome
  <2>3. CASE ph.kind \in {"DepInit", "ReductionDepInit"}
    BY <1>3, <2>1, <2>3 DEF PlainDispatch, DepInitDispatch, Ongoing, Outcome
  <2>4. CASE ph.kind = "Checked"
    BY <1>3, <2>1, <2>4 DEF PlainDispatch, CheckedDispatch, CorrectionInit, PostMessage, PostOpen, Post,
                            CheckedRecvEnd, Ongoing, Outcome
  <2>5. CASE ph.kind = "Opportunistic"
    BY <1>3, <2>1, <2>5 DEF PlainDispatch, OpportunisticDispatch, CorrectionInit, OpportunisticIdle,
                            OpportunisticRecvEnd, CoverOrWait, Ongoing, Outcome
  <2>6. CASE ph.kind = "Gossip"
    BY <1>3, <2>1, <2>6 DEF PlainDispatch, GossipDispatch, GossipInit, GossipIdle, GossipTimer,
                            GossipRecvEnd, Ongoing, Outcome
  <2>7. CASE ph.kind = "Gather"
    BY <1>3, <2>1, <2>7 DEF PlainDispatch, GatherDispatch, GatherInit, GatherRecvEnd, GatherSends,
                            Ongoing, Outcome
  <2>8. CASE ph.kind = "MultiTree"
    BY <1>3, <2>1, <2>8 DEF PlainDispatch, MultiTreeDispatch, MultiTreeInit, MultiTreeRecvEnd,
                            Ongoing, Outcome
  <2> QED BY <1>2, <2>2, <2>3, <2>4, <2>5, <2>6, <2>7, <2>8 DEF Kinds, Stage
<1>5. CASE ~ ph.exclusive
  BY <1>1, <1>2, <1>3, <1>4, <1>5 DEF PhaseDispatch
<1>6. CASE ph.exclusive
  <2>1. PICK out : out = ExclusiveDispatch(ph, n, s, t, at, draw) /\ out.res = "DONE_FORWARD"
    BY <1>1, <1>6 DEF PhaseDispatch
  <2>2. PICK inner : inner = Held(plain)
    OBVIOUS
  <2>3. inner.res = "DONE_FORWARD"
    <3>1. CASE t.type = "Init"
      <4>1. out = [inner EXCEPT !.reqs = <<TimerRequest("EXCLUSIVE", AbsDeadline(at), n)>> \o @]
        BY <1>3, <2>1, <2>2, <3>1 DEF ExclusiveDispatch, Outcome
      <4> QED BY <2>1, <4>1
    <3>2. CASE t.type # "Init"
      BY <1>3, <2>1, <2>2, <3>2 DEF ExclusiveDispatch, Ongoing, Outcome
    <3> QED BY <3>1, <3>2
  <2>4. plain.res = "DONE_FORWARD"
    BY <2>2, <2>3 DEF Held
  <2> QED BY <1>2, <1>4, <1>6, <2>4
<1> QED BY <1>2, <1>5, <1>6

-----------------------------------------------------------------------------
(* The steps of a collective. *)

(* Only tasks their own node is notified of are cues. *)
LEMMA CueOwner ==
  ASSUME NEW ph, NEW t, IsCue(ph, t)
  PROVE  /\ t.type \in {"Init", "Timer", "Idle", "SendStart", "SendEnd"}
         /\ NotifiedNode(t) = t.sender
         /\ t.type = "Idle" => Corrects(ph)
BY DEF IsCue, NotifiedNode, Corrects

LEMMA CuesStay ==
  ASSUME TypeOK, NEW t \in Upcoming, NEW asked, Heap(t, asked), NEW m \in Live, NEW ph, Cued(m, ph),
         t.sender = m /\ IsCue(ph, t) => ph.kind = "Checked" /\ t.type = "SendStart"
  PROVE  Cued(m, ph)'
<1>1. m \in Node /\ m \notin conf.failed
  BY DEF Live
<1>2. ASSUME NEW u \in Ready, u.sender = m, IsCue(ph, u)
      PROVE  Cued(m, ph)'
  <2>1. CASE u # t
    BY <1>2, <2>1 DEF Heap, Cued
  <2>2. CASE u = t
    <3>1. ph.kind = "Checked" /\ t.type = "SendStart" /\ t.sender = m
      BY <1>2, <2>2
    <3>2. PICK v \in queue' : Succeeds(t, v)
      BY <1>1, <3>1 DEF Heap, Continues
    <3>3. v.sender = m /\ IsCue(ph, v)
      BY <3>1, <3>2 DEF Succeeds, Successors, IsCue
    <3> QED BY <3>2, <3>3 DEF Cued
  <2> QED BY <2>1, <2>2
<1>3. CASE \E u \in queue : u.sender = m /\ IsCue(ph, u)
  BY <1>2, <1>3 DEF Ready
<1>4. ASSUME Corrects(ph), pending[m]
      PROVE  Cued(m, ph)'
  <2>1. CASE m \in Delivered
    <3>1. IdleTask(m) \in Ready /\ IdleTask(m).sender = m /\ IdleTask(m).type = "Idle"
      BY <2>1 DEF Ready, IdleTask
    <3>2. IsCue(ph, IdleTask(m))
      BY <1>4, <3>1 DEF IsCue, Corrects
    <3> QED BY <1>2, <3>1, <3>2
  <2>2. CASE m \notin Delivered
    BY <1>1, <1>4, <2>2 DEF Heap, Cued
  <2> QED BY <2>1, <2>2
<1> QED BY <1>3, <1>4 DEF Cued

LEMMA CuesAsked ==
  ASSUME TypeOK, NEW t, NEW asked, Heap(t, asked), NEW m \in Live, NEW ph, NEW r \in asked,
         r.sender = m, IsCue(ph, r), r.type = "Init" => r.receiver = m
  PROVE  Cued(m, ph)'
<1>1. m \in Node /\ m \notin conf.failed
  BY DEF Live
<1>2. CASE r.type = "Idle"
  <2>1. pending'[m] /\ Corrects(ph)
    BY <1>1, <1>2, CueOwner DEF Heap
  <2> QED BY <2>1 DEF Cued
<1>3. CASE r.type # "Idle"
  <2>1. r.type \notin {"RecvStart"}
    BY CueOwner
  <2>2. PICK u \in queue' : SameTask(u, r)
    BY <1>1, <1>3, <2>1 DEF Heap
  <2>3. u.sender = m /\ IsCue(ph, u)
    BY <2>2 DEF SameTask, IsCue
  <2> QED BY <2>2, <2>3 DEF Cued
<1> QED BY <1>2, <1>3

(* The node that is notified: it ends its phase, moves on, or keeps a cue. *)
GoesOn(n, cur) ==
  LET ph == conf.phases[cur]
  IN /\ cur <= Last /\ KeepsTime(ph) => Cued(n, ph)'
     /\ n \in Reached' \ done' => cur <= Last /\ (ph.kind # "Gather" => Cued(n, ph)')

LEMMA AnswerGuided ==
  ASSUME TypeOK, LocalOK, conf' = conf, NEW t \in Upcoming, NEW n, NEW out, AnswerOf(t, n, out),
         NEW draw \in Draws(n, t), RootBegins(n, t), out = CombinerDispatch(n, t, Clock(t), draw),
         Guide(n)
  PROVE  Guide(n)'
<1>1. /\ n \in Live /\ n \in Node /\ local'[n] = out.s /\ Heap(t, RangeOf(Accept(n, out)))
      /\ n = NotifiedNode(t)
      /\ n \in Reached' <=> out.s.reached
      /\ done' = IF Finishing(n, out) THEN done \cup {n} ELSE done
  <2>1. n \in Live /\ n \in Node
    BY DEF AnswerOf, Live
  <2>2. local' = [local EXCEPT ![n] = out.s]
    BY DEF AnswerOf
  <2>3. local'[n] = out.s
    BY <2>1, <2>2 DEF LocalOK
  <2>4. n \in Reached' <=> out.s.reached
    BY <2>1, <2>3 DEF Reached, Node
  <2> QED BY <2>1, <2>3, <2>4 DEF AnswerOf, Follow
<1>2. /\ t \in Task /\ draw \in Node /\ Last' = Last /\ Last \in Nat \ {0}
      /\ local[n] \in State /\ start \in Nat /\ out.s.cur \in Nat
  BY <1>1, UpcomingType, PhasesType DEF Draws, Last, LocalOK, AnswerOf, Combined, State
<1>3. PICK at \in Nat : at = Clock(t)
  BY UpcomingType
<1>4. PICK cur \in 1 .. Last + 1 : cur = local[n].cur
  BY <1>1 DEF LocalOK
<1>5. GoesOn(n, out.s.cur) => Guide(n)'
  BY <1>1, <1>2 DEF Guide, GoesOn, KeepsTime
<1>6. LET ph == conf.phases[cur]
      IN /\ cur <= Last /\ KeepsTime(ph) => Cued(n, ph)
         /\ n \in Reached \ done => cur <= Last /\ (ph.kind # "Gather" => Cued(n, ph))
  BY <1>4 DEF Guide
<1>7. CASE t.type = "Finish" /\ out = Nothing(n, "ONGOING")
  <2>1. out.s = local[n] /\ ~ Finishing(n, out)
    BY <1>7 DEF Nothing, Finishing
  <2>2. \A ph : ~ IsCue(ph, t)
    BY <1>7, CueOwner
  <2>3. \A ph : Cued(n, ph) => Cued(n, ph)'
    BY <1>1, <2>2, CuesStay
  <2>4. (n \in Reached' <=> n \in Reached) /\ done' = done
    BY <1>1, <2>1 DEF Reached
  <2>5. GoesOn(n, cur)
    BY <1>6, <2>3, <2>4 DEF GoesOn
  <2>6. out.s.cur = cur
    BY <1>4, <2>1
  <2> QED BY <1>5, <2>5, <2>6
<1>8. CASE t.type # "Finish" /\ local[n].cur > Last /\ out = Colour(t, Nothing(n, "DONE_PHASE"))
  <2>1. out.res = "DONE_PHASE" /\ out.s.cur = cur
    <3>0. /\ Nothing(n, "DONE_PHASE").s = local[n] /\ Nothing(n, "DONE_PHASE").res = "DONE_PHASE"
          /\ DOMAIN Nothing(n, "DONE_PHASE") = {"res", "reqs", "s", "again"}
      BY DEF Nothing
    <3>1. PICK nothing : /\ nothing = Nothing(n, "DONE_PHASE") /\ nothing.s = local[n]
                         /\ nothing.res = "DONE_PHASE" /\ DOMAIN nothing = {"res", "reqs", "s", "again"}
      BY <3>0
    <3>2. PICK s : s = [local[n] EXCEPT !.reached = TRUE]
      OBVIOUS
    <3>3. s.cur = cur
      BY <1>2, <1>4, <3>2 DEF State
    <3>4. out = nothing \/ out = [nothing EXCEPT !.s = s]
      BY <1>8, <3>1, <3>2 DEF Colour
    <3> QED BY <1>4, <3>1, <3>3, <3>4
  <2>2. out.s.reached => n \in done'
    BY <1>1, <2>1 DEF Finishing
  <2>3. ~ (cur <= Last)
    BY <1>2, <1>4, <1>8
  <2>4. GoesOn(n, cur)
    BY <1>1, <2>2, <2>3 DEF GoesOn
  <2> QED BY <1>5, <2>1, <2>4
<1>9. ASSUME NEW inner, cur \in 1 .. Last,
             inner = PhaseDispatch(conf.phases[cur], n, local[n], t, at, draw),
             Proper(n, local[n], t, at, inner), out = Colour(t, Switch(n, t, at, inner))
      PROVE  Guide(n)'
  <2>1. /\ inner.s \in State /\ inner.res \in Result /\ cur <= Last
        /\ \A r \in RangeOf(inner.reqs) : r.type # "Init"
    <3>1. inner.reqs \in Seq(Wish(n, at))
      BY <1>9 DEF Proper
    <3>2. \A r \in RangeOf(inner.reqs) : r \in Wish(n, at)
      <4> HIDE DEF Wish
      <4> QED BY <3>1 DEF RangeOf
    <3> QED BY <1>2, <1>9, <3>2 DEF Proper, Wish
  <2>2. /\ out.s.cur = NextPhase(cur, inner.res)
        /\ out.res = IF out.s.cur <= Last THEN "ONGOING" ELSE inner.res
        /\ out.s.reached <=> t.type = "RecvEnd" \/ inner.s.reached
    <3>1. /\ out.s.cur = NextPhase(local[n].cur, inner.res)
          /\ out.res = IF out.s.cur <= Last THEN "ONGOING" ELSE inner.res
          /\ out.s.reached <=> t.type = "RecvEnd" \/ inner.s.reached
      BY <1>1, <1>9, <2>1, SwitchState
    <3> QED BY <1>4, <3>1
  <2>3. PICK asked : asked = RangeOf(Accept(n, out)) /\ Heap(t, asked)
                     /\ \A r \in asked : r.sender = n
    BY <1>1 DEF AnswerOf
  <2>4. /\ RangeOf(inner.reqs) \subseteq asked
        /\ cur < out.s.cur /\ out.s.cur <= Last => InitRequest(at, n) \in asked
    <3>1. local[n].cur <= Last
      BY <1>4, <2>1
    <3>2. RangeOf(Accept(n, out))
            = RangeOf(inner.reqs)
                \cup (IF local[n].cur < out.s.cur /\ out.s.cur <= Last THEN {InitRequest(at, n)} ELSE {})
                \cup (IF Finishing(n, out) THEN {FinishRequest(n)} ELSE {})
      BY <1>1, <1>2, <1>9, <3>1, Asked
    <3> QED BY <1>4, <2>3, <3>2
  <2>5. CASE out.s.cur > Last
    <3>1. inner.res # "ONGOING"
      BY <1>2, <1>9, <2>2, <2>5 DEF NextPhase
    <3>2. inner.res # "DONE_FORWARD"
      <4>1. SUFFICES ASSUME inner.res = "DONE_FORWARD" PROVE FALSE
        OBVIOUS
      <4>2. cur < Last
        BY <1>9, <4>1, ForwardsEarly
      <4> QED BY <1>2, <2>2, <2>5, <4>1, <4>2 DEF NextPhase
    <3>3. out.res \in {"DONE_PHASE", "DONE_COLL"} /\ ~ (out.s.cur <= Last)
      BY <1>2, <2>1, <2>2, <2>5, <3>1, <3>2 DEF Result
    <3>4. out.s.reached => n \in done'
      BY <1>1, <3>3 DEF Finishing
    <3>5. GoesOn(n, out.s.cur)
      BY <1>1, <3>3, <3>4 DEF GoesOn
    <3> QED BY <1>5, <3>5
  <2>6. CASE cur < out.s.cur /\ out.s.cur <= Last
    <3>1. PICK r \in asked : r = InitRequest(at, n)
      BY <2>4, <2>6
    <3>2. r.sender = n /\ r.receiver = n
      BY <3>1 DEF InitRequest
    <3>3. \A ph : IsCue(ph, r)
      BY <3>1, CueTypes
    <3>4. ASSUME NEW ph PROVE Cued(n, ph)'
      BY <1>1, <2>3, <3>2, <3>3, CuesAsked
    <3>5. GoesOn(n, out.s.cur)
      BY <2>6, <3>4 DEF GoesOn
    <3> QED BY <1>5, <3>5
  <2>7. CASE out.s.cur = cur
    <3>1. inner.res = "ONGOING"
      BY <1>2, <1>9, <2>1, <2>2, <2>7 DEF NextPhase, Result
    <3>2. PICK ph : ph = conf.phases[cur] /\ ph.kind \in Kinds /\ (ph.exclusive => ph.kind = "Tree")
      BY <1>9, PhasesType
    <3>3. ASSUME ph.kind # "Gather", KeepsTime(ph) \/ (n \in Reached' /\ n \notin done')
          PROVE  Cued(n, ph)'
      <4>1. Keeps(ph, local[n], t, inner)
        <5>1. KeepsTime(ph) \/ t.type = "RecvEnd" \/ inner.s.reached
          BY <1>1, <2>2, <3>3
        <5>2. inner = PhaseDispatch(ph, n, local[n], t, at, draw)
          BY <1>9, <3>2
        <5> QED BY <1>1, <1>2, <1>9, <3>1, <3>2, <3>3, <5>1, <5>2, PhaseKeeps
      <4>2. ASSUME NEW r \in RangeOf(inner.reqs), IsCue(ph, r)
            PROVE  Cued(n, ph)'
        <5>1. r \in asked /\ r.sender = n
          BY <2>3, <2>4
        <5>2. r.type = "Init" => r.receiver = n
          BY <2>1, <4>2
        <5> QED BY <1>1, <2>3, <4>2, <5>1, <5>2, CuesAsked
      <4>3. ASSUME ~ IsCue(ph, t) \/ (ph.kind = "Checked" /\ t.type = "SendStart"),
                   KeepsTime(ph) \/ local[n].reached
            PROVE  Cued(n, ph)'
        <5>1. Cued(n, ph)
          <6>1. n \in done => n \in done'
            BY <1>1
          <6>2. local[n].reached => n \in Reached
            BY <1>1 DEF Reached
          <6> QED BY <1>6, <2>1, <3>2, <3>3, <4>3, <6>1, <6>2
        <5> QED BY <1>1, <2>3, <4>3, <5>1, CuesStay
      <4> QED BY <4>1, <4>2, <4>3 DEF Keeps
    <3>4. GoesOn(n, cur)
      <4>1. ph.kind = "Gather" => ~ KeepsTime(ph)
        BY <3>2 DEF KeepsTime
      <4> QED BY <2>1, <3>2, <3>3, <4>1 DEF GoesOn
    <3> QED BY <1>5, <2>7, <3>4
  <2>8. out.s.cur = cur \/ cur < out.s.cur
    BY <1>2, <1>9, <2>1, <2>2 DEF NextPhase, Result
  <2> QED BY <1>2, <2>5, <2>6, <2>7, <2>8
<1> QED BY <1>1, <1>2, <1>3, <1>4, <1>7, <1>8, <1>9, CombinerCases

(* Whoever does not hear of t stays where it is. *)
LEMMA GuideStays ==
  ASSUME TypeOK, LocalOK, conf' = conf, NEW t \in Upcoming, NEW asked, Heap(t, asked), NEW m \in Live,
         \A ph : t.sender = m /\ IsCue(ph, t) => ph.kind = "Checked" /\ t.type = "SendStart",
         local'[m] = local[m], m \in Reached' <=> m \in Reached, m \in done' <=> m \in done, Guide(m)
  PROVE  Guide(m)'
<1>1. \A ph : Cued(m, ph) => Cued(m, ph)'
  BY CuesStay
<1>2. Last' = Last
  BY DEF Last
<1>3. PICK cur, ph : cur = local[m].cur /\ ph = conf.phases[cur]
  OBVIOUS
<1>4. KeepsTime(ph)' <=> KeepsTime(ph)
  BY DEF KeepsTime
<1>5. /\ cur <= Last /\ KeepsTime(ph) => Cued(m, ph)'
      /\ m \in Reached \ done => cur <= Last /\ (ph.kind # "Gather" => Cued(m, ph)')
  BY <1>1, <1>3 DEF Guide
<1> QED BY <1>2, <1>3, <1>4, <1>5 DEF Guide, KeepsTime

LEMMA StepGuided ==
  ASSUME TypeOK, LocalOK, StartUp, Senders, OneWait, Guided, [CNext]_vars
  PROVE  Guided'
<1>1. conf' = conf /\ Last' = Last /\ Node' = Node /\ Live' = Live
  BY StepLocal DEF Last, Node, Live
<1>2. CASE Rests
  <2>1. local' = local /\ queue' = queue /\ pending' = pending /\ done' = done
    BY <1>2 DEF Rests, cvars
  <2>2. Reached' = Reached
    BY <1>1, <2>1 DEF Reached
  <2> QED BY <1>1, <2>1, <2>2 DEF Guided, Guide, Cued, KeepsTime
<1>3. ASSUME NEW t \in Upcoming, Passes(t), Heap(t, {}), UNCHANGED cvars
      PROVE  Guided'
  <2>1. local' = local /\ done' = done
    BY <1>3 DEF cvars
  <2>2. Reached' = Reached
    BY <1>1, <2>1 DEF Reached
  <2>3. t.type \in {"SendStart", "RecvStart", "Msg", "Failure"}
    BY <1>3 DEF Passes, DelaySend, DelayRecv, Msg, Failure
  <2>4. \A ph : IsCue(ph, t) => ph.kind = "Checked" /\ t.type = "SendStart"
    BY <2>3 DEF IsCue
  <2>5. PICK asked : asked = {} /\ Heap(t, asked)
    BY <1>3
  <2>6. ASSUME NEW m \in Live
        PROVE  Guide(m)'
    BY <1>1, <2>1, <2>2, <2>4, <2>5, GuideStays DEF Guided
  <2> QED BY <1>1, <2>6 DEF Guided
<1>4. ASSUME NEW t \in Upcoming, NEW draw \in Draws(NotifiedNode(t), t), NEW out,
             RootBegins(NotifiedNode(t), t), t.type \in DOMAIN Priority \ {"Msg", "Failure"},
             Answers(t, NotifiedNode(t), draw, out)
      PROVE  Guided'
  <2>1. PICK n : n = NotifiedNode(t) /\ AnswerOf(t, n, out)
    BY <1>1, <1>4, AnswerIs
  <2>2. /\ out = CombinerDispatch(n, t, Clock(t), draw) /\ draw \in Draws(n, t)
        /\ RootBegins(n, t)
    BY <1>4, <2>1 DEF Answers
  <2>3. PICK asked : asked = RangeOf(Accept(n, out)) /\ Heap(t, asked)
    BY <2>1 DEF AnswerOf
  <2>4. n \in Live /\ Guide(n)
    BY <2>1 DEF AnswerOf, Guided
  <2>5. Guide(n)'
    BY <1>1, <2>1, <2>2, <2>4, AnswerGuided
  <2>6. ASSUME NEW m \in Live, m # n
        PROVE  Guide(m)'
    <3>1. local'[m] = local[m] /\ m \in Node
      BY <2>1, <2>6 DEF AnswerOf, LocalOK, Live
    <3>2. (m \in Reached' <=> m \in Reached) /\ (m \in done' <=> m \in done)
      BY <2>1, <2>6 DEF AnswerOf, Follow
    <3>3. \A ph : IsCue(ph, t) => t.sender # m
      BY <2>1, <2>6, CueOwner
    <3> QED BY <1>1, <2>3, <2>6, <3>1, <3>2, <3>3, GuideStays DEF Guided
  <2>7. \A m \in Live : Guide(m)'
    BY <2>5, <2>6
  <2> QED BY <1>1, <2>7 DEF Guided
<1> QED BY <1>2, <1>3, <1>4, StepCases

LEMMA InitGuided ==
  ASSUME NEW first \in Nat, CStart(first)
  PROVE  Guided
<1>1. TypeOK /\ Last \in Nat \ {0}
  <2>1. TypeOK
    BY InitInvariant DEF CStart, IInv
  <2> QED BY <2>1, PhasesType
<1>2. ASSUME NEW n \in Live
      PROVE  Guide(n)
  <2>1. n \in Node /\ n \notin conf.failed
    BY <1>2 DEF Live
  <2>2. PICK t : t = [type |-> "Init", tag |-> "INIT", time |-> 0, seq |-> first + n, sender |-> n, receiver |-> n]
    OBVIOUS
  <2>3. t \in queue
    BY <2>1, <2>2 DEF CStart, QStart, AllAdmitted, Admitted
  <2>4. \A ph : Cued(n, ph)
    BY <2>2, <2>3 DEF Cued, IsCue
  <2>5. local[n].cur = 1
    BY <2>1 DEF CStart, InitialState
  <2> QED BY <1>1, <2>4, <2>5 DEF Guide
<1> QED BY <1>2 DEF Guided

-----------------------------------------------------------------------------
(* What the timeline and the collective count. *)

Ends(n) == \E u \in queue : u.type = "Finish" /\ u.sender = n
Fails(n) == \E u \in queue : u.type = "Failure" /\ u.receiver = n

(* Who is done has a FinishTask underway or a FinishEvent, who has failed  *)
(* a FailureTask or a FailureEvent, and nobody else.                       *)
Counted ==
  /\ coloured \cup FirstReached = Reached \cup {0}
  /\ done \subseteq Live \cap Reached
  /\ finished \subseteq done /\ failures \subseteq conf.failed
  /\ \A u \in queue : /\ u.type = "Finish" => u.sender \in done
                      /\ u.type = "Failure" => u.receiver \in conf.failed
  /\ \A n \in done : n \in finished \/ Ends(n)
  /\ \A n \in conf.failed : n \in failures \/ Fails(n)
  /\ status = "done" => queue = {} /\ \A n \in Node : ~ pending[n]

(* The count of the idle tracker is positive while somebody is pending. *)
LEMMA NobodyPends ==
  ASSUME TypeOK, NEW S, S \subseteq Node, Cardinality(S) <= 0
  PROVE  S = {}
<1>1. IsFiniteSet(S) /\ Cardinality(S) \in Nat
  BY NodeSets
<1>2. Cardinality(S) = 0
  BY <1>1
<1> QED BY <1>1, <1>2, FS_EmptySet

(* A node asks for its FinishTask exactly when the collective counts it. *)
LEMMA FinishAsked ==
  ASSUME TypeOK, LocalOK, NEW n \in Node, NEW t \in Task, NEW at \in Nat, NEW draw \in Node,
         RootBegins(n, t), NEW out, out = CombinerDispatch(n, t, at, draw)
  PROVE  /\ \A r \in RangeOf(Accept(n, out)) : r.type = "Finish" => Finishing(n, out)
         /\ Finishing(n, out) => FinishRequest(n) \in RangeOf(Accept(n, out))
<1>1. CASE t.type = "Finish" /\ out = Nothing(n, "ONGOING")
  <2>1. RangeOf(Accept(n, out)) = {}
    BY <1>1, Asked
  <2>2. ~ Finishing(n, out)
    BY <1>1 DEF Finishing, Nothing
  <2> QED BY <2>1, <2>2
<1>2. CASE out = Colour(t, Nothing(n, "DONE_PHASE"))
  <2>1. RangeOf(Accept(n, out)) = IF Finishing(n, out) THEN {FinishRequest(n)} ELSE {}
    BY <1>2, Asked
  <2> QED BY <2>1
<1>3. ASSUME NEW inner, local[n].cur \in 1 .. Last, Proper(n, local[n], t, at, inner),
             out = Colour(t, Switch(n, t, at, inner))
      PROVE  /\ \A r \in RangeOf(Accept(n, out)) : r.type = "Finish" => Finishing(n, out)
             /\ Finishing(n, out) => FinishRequest(n) \in RangeOf(Accept(n, out))
  <2>1. local[n].cur <= Last
    BY <1>3, PhasesType
  <2>2. RangeOf(Accept(n, out))
          = RangeOf(inner.reqs)
              \cup (IF local[n].cur < out.s.cur /\ out.s.cur <= Last THEN {InitRequest(at, n)} ELSE {})
              \cup (IF Finishing(n, out) THEN {FinishRequest(n)} ELSE {})
    BY <1>3, <2>1, Asked
  <2>3. \A r \in RangeOf(inner.reqs) : r.type # "Finish"
    <3>1. inner.reqs \in Seq(Wish(n, at))
      BY <1>3 DEF Proper
    <3>2. \A r \in RangeOf(inner.reqs) : r \in Wish(n, at)
      <4> HIDE DEF Wish
      <4> QED BY <3>1 DEF RangeOf
    <3> QED BY <3>2 DEF Wish
  <2>4. InitRequest(at, n).type # "Finish"
    BY DEF InitRequest
  <2> QED BY <2>2, <2>3, <2>4
<1> QED BY <1>1, <1>2, <1>3, CombinerCases

(* The tasks of the heap that end somebody. *)
LEMMA EndsStay ==
  ASSUME TypeOK, NEW t \in Upcoming, NEW asked, Heap(t, asked)
  PROVE  /\ \A u \in queue' : u.type = "Finish" =>
              u \in queue \/ \E r \in asked : r.type = "Finish" /\ r.sender = u.sender
         /\ \A u \in queue' : u.type = "Failure" => u \in queue \/ u.receiver \in conf.failed
                                                    \/ \E r \in asked : r.type = "Failure"
         /\ \A n : Ends(n) => Ends(n)' \/ n \in finished'
         /\ \A n : Fails(n) => Fails(n)' \/ n \in failures'
<1>1. \A u \in Ready : u \in queue \/ u.type = "Idle"
  BY ReadyTasks
<1>2. \A u \in queue : u \in Ready
  BY DEF Ready
<1>3. ASSUME NEW u \in queue'
      PROVE  /\ u.type = "Finish" => u \in queue \/ \E r \in asked : r.type = "Finish" /\ r.sender = u.sender
             /\ u.type = "Failure" => u \in queue \/ u.receiver \in conf.failed
                                      \/ \E r \in asked : r.type = "Failure"
  <2>1. Origin(t, asked, u)
    BY DEF Heap
  <2>2. u.type \in {"Finish", "Failure"} => ~ Succeeds(t, u)
    BY DEF Succeeds, Successors
  <2> QED BY <1>1, <2>1, <2>2 DEF Origin, SameTask
<1>4. \A u \in queue : u = t \/ u \in queue'
  BY <1>2 DEF Heap
<1> QED BY <1>3, <1>4 DEF Heap, Recorded, Ends, Fails

(* What becomes of all of them, when those who are asked to end end. *)
LEMMA CountsStay ==
  ASSUME TypeOK, CountMatchesPending', Counted, conf' = conf, NEW t \in Upcoming, NEW asked, Heap(t, asked),
         done \subseteq done', done' \subseteq Live \cap Reached',
         (coloured \cup FirstReached)' = Reached' \cup {0},
         \A r \in asked : /\ r.type = "Finish" => r.sender \in done'
                          /\ r.type # "Failure",
         \A n \in done' \ done : Ends(n)'
  PROVE  Counted'
<1>1. Live' = Live /\ Node' = Node
  BY DEF Live, Node
<1>2. t.type \in {"Finish", "Failure"} => t \in queue
  BY UpcomingType, ReadyTasks
<1>3. finished' \subseteq done' /\ failures' \subseteq conf.failed
  BY <1>2 DEF Heap, Recorded, Counted
<1>4. finished \subseteq finished' /\ failures \subseteq failures'
  BY DEF Heap, Recorded
<1>5. \A u \in queue' : /\ u.type = "Finish" => u.sender \in done'
                        /\ u.type = "Failure" => u.receiver \in conf.failed
  BY EndsStay DEF Counted
<1>6. \A n \in done' : n \in finished' \/ Ends(n)'
  BY <1>4, EndsStay DEF Counted
<1>7. \A n \in conf.failed : n \in failures' \/ Fails(n)'
  BY <1>4, EndsStay DEF Counted
<1>8. status' = "done" => queue' = {} /\ \A n \in Node : ~ pending'[n]
  <2>1. SUFFICES ASSUME status' = "done" PROVE queue' = {} /\ \A n \in Node : ~ pending'[n]
    OBVIOUS
  <2>2. queue' = {} /\ count' <= 0
    BY <2>1 DEF Heap
  <2>3. PICK S : S = {n \in Node : pending'[n]} /\ S \subseteq Node
    OBVIOUS
  <2>4. count' = Cardinality(S)
    BY <1>1, <2>3 DEF CountMatchesPending
  <2>5. S = {}
    BY <2>2, <2>3, <2>4, NobodyPends
  <2> QED BY <2>2, <2>3, <2>5
<1> QED BY <1>1, <1>3, <1>5, <1>6, <1>7, <1>8 DEF Counted

LEMMA StepCounted ==
  ASSUME TypeOK, CountMatchesPending', LocalOK, StartUp, Senders, OneWait, Counted, [CNext]_vars
  PROVE  Counted'
<1>1. conf' = conf /\ Last' = Last /\ Node' = Node /\ Live' = Live /\ FirstReached' = FirstReached
  BY StepLocal DEF Last, Node, Live, FirstReached
<1>2. CASE Rests
  <2>1. /\ local' = local /\ queue' = queue /\ pending' = pending /\ done' = done /\ coloured' = coloured
        /\ finished' = finished /\ failures' = failures /\ (status' = "done" => status = "done")
    BY <1>2 DEF Rests, cvars
  <2>2. Reached' = Reached
    BY <1>1, <2>1 DEF Reached
  <2> QED BY <1>1, <2>1, <2>2 DEF Counted, Ends, Fails
<1>3. ASSUME NEW t \in Upcoming, Heap(t, {}), UNCHANGED cvars
      PROVE  Counted'
  <2>1. local' = local /\ done' = done /\ coloured' = coloured
    BY <1>3 DEF cvars
  <2>2. Reached' = Reached
    BY <1>1, <2>1 DEF Reached
  <2>3. PICK asked : asked = {} /\ Heap(t, asked)
    BY <1>3
  <2>4. done' \subseteq Live \cap Reached' /\ (coloured \cup FirstReached)' = Reached' \cup {0}
    BY <1>1, <2>1, <2>2 DEF Counted
  <2> QED BY <1>1, <2>1, <2>3, <2>4, CountsStay
<1>4. ASSUME NEW t \in Upcoming, NEW draw \in Draws(NotifiedNode(t), t), NEW out,
             RootBegins(NotifiedNode(t), t), t.type \in DOMAIN Priority \ {"Msg", "Failure"},
             Answers(t, NotifiedNode(t), draw, out)
      PROVE  Counted'
  <2>1. PICK n : n = NotifiedNode(t) /\ AnswerOf(t, n, out)
    BY <1>1, <1>4, AnswerIs
  <2>2. /\ out = CombinerDispatch(n, t, Clock(t), draw) /\ draw \in Draws(n, t)
        /\ RootBegins(n, t)
    BY <1>4, <2>1 DEF Answers
  <2>3. PICK asked : asked = RangeOf(Accept(n, out)) /\ Heap(t, asked)
    BY <2>1 DEF AnswerOf
  <2>4. /\ n \in Live /\ n \in Node /\ t \in Task /\ draw \in Node
    BY <2>1, <2>2, UpcomingType DEF AnswerOf, Live, Draws
  <2>5. PICK at \in Nat : at = Clock(t)
    BY UpcomingType
  <2>6. /\ \A r \in asked : r.type = "Finish" => Finishing(n, out)
        /\ Finishing(n, out) => FinishRequest(n) \in asked
    BY <2>2, <2>3, <2>4, <2>5, FinishAsked
  <2>7. done' = IF Finishing(n, out) THEN done \cup {n} ELSE done
    BY <2>1 DEF AnswerOf, Follow
  <2>8. Reached \subseteq Reached' /\ (Finishing(n, out) => n \in Reached')
    BY <2>1 DEF AnswerOf, Finishing
  <2>9. done \subseteq done' /\ done' \subseteq Live \cap Reached'
    BY <2>4, <2>7, <2>8 DEF Counted
  <2>10. \A r \in asked : (r.type = "Finish" => r.sender \in done') /\ r.type # "Failure"
    BY <2>1, <2>3, <2>6, <2>7 DEF AnswerOf
  <2>11. (coloured \cup FirstReached)' = Reached' \cup {0}
    <3>1. CASE t.type = "RecvEnd"
      <4>1. Reached' = Reached \cup {n} /\ coloured' = coloured \cup {n}
        BY <2>1, <3>1 DEF AnswerOf, Follow
      <4> QED BY <1>1, <4>1 DEF Counted
    <3>2. CASE t.type # "RecvEnd"
      <4>1. Reached' = Reached /\ coloured' = coloured
        BY <2>1, <3>2 DEF AnswerOf, Follow
      <4> QED BY <1>1, <4>1 DEF Counted
    <3> QED BY <3>1, <3>2
  <2>12. ASSUME NEW m \in done' \ done
         PROVE  Ends(m)'
    <3>1. m = n /\ FinishRequest(n) \in asked
      BY <2>6, <2>7, <2>12
    <3>2. PICK r \in asked : r.type = "Finish" /\ r.sender = n
      BY <3>1 DEF FinishRequest
    <3>3. n \notin conf.failed
      BY <2>4 DEF Live
    <3>4. PICK u \in queue' : SameTask(u, r)
      BY <2>3, <3>2, <3>3 DEF Heap
    <3> QED BY <3>1, <3>2, <3>4 DEF Ends, SameTask
  <2> QED BY <1>1, <2>3, <2>9, <2>10, <2>11, <2>12, CountsStay
<1> QED BY <1>2, <1>3, <1>4, StepCases

LEMMA InitCounted ==
  ASSUME NEW first \in Nat, CStart(first)
  PROVE  Counted
<1>1. TypeOK /\ 0 \in Node
  <2>1. TypeOK
    BY InitInvariant DEF CStart, IInv
  <2> QED BY <2>1, CollectiveType DEF Node
<1>2. /\ coloured = {0} /\ done = {} /\ finished = {} /\ failures = {} /\ status = "running"
      /\ Reached = FirstReached
  <2>1. FirstReached \subseteq Node
    BY <1>1 DEF FirstReached
  <2> QED BY <2>1 DEF CStart, QStart, Reached, InitialState
<1>3. ASSUME NEW u \in queue
      PROVE  u.type # "Finish" /\ (u.type = "Failure" => u.receiver \in conf.failed)
  BY DEF CStart, QStart, AllAdmitted, Admitted
<1>4. ASSUME NEW n \in conf.failed
      PROVE  Fails(n)
  <2>1. n \in Node
    BY <1>1, CollectiveType DEF IsConfiguration, Node
  <2>2. PICK t : t = [type |-> "Init", tag |-> "INIT", time |-> 0, seq |-> first + n, sender |-> n, receiver |-> n]
    OBVIOUS
  <2>3. [t EXCEPT !.type = "Failure"] \in queue
    BY <1>4, <2>1, <2>2 DEF CStart, QStart, AllAdmitted, Admitted
  <2> QED BY <2>2, <2>3 DEF Fails
<1> QED BY <1>2, <1>3, <1>4 DEF Counted

(* All there is to say about how nodes end. *)
CompInv == CInv /\ Senders /\ OneWait /\ Guided /\ Counted

LEMMA CompletionInvariant == RepeatedSpec => []CompInv
<1>1. CStarted => CompInv
  BY StartCInv, InitDelivery, InitGuided, InitCounted DEF CompInv, CStarted
<1>2. CompInv /\ [CNext]_vars => CompInv'
  <2> SUFFICES ASSUME CompInv, [CNext]_vars PROVE CompInv'
    OBVIOUS
  <2>1. CInv' /\ TypeOK /\ LocalOK /\ StartUp /\ Senders /\ OneWait /\ Guided /\ Counted
    BY StepCInv DEF CompInv, CInv, IInv
  <2>2. TypeOK' /\ CountMatchesPending'
    BY <2>1 DEF CInv, IInv
  <2> QED BY <2>1, <2>2, StepDelivery, StepGuided, StepCounted DEF CompInv
<1> QED BY <1>1, <1>2, PTL DEF RepeatedSpec

(* Nothing is underway in the end, so whoever was reached has finished. *)
LEMMA EndCounts ==
  ASSUME CompInv
  PROVE  StatisticsAgree
<1>1. TypeOK /\ LocalOK /\ Guided /\ Counted
  BY DEF CompInv, CInv, IInv
<1>2. ASSUME status = "done"
      PROVE  failures = conf.failed
  <2>1. \A n : ~ Fails(n)
    BY <1>1, <1>2 DEF Counted, Fails
  <2> QED BY <1>1, <2>1 DEF Counted
<1>3. ASSUME status = "done", Options.kind # "Gather"
      PROVE  finished = Live \cap Reached
  <2>1. queue = {} /\ \A n \in Node : ~ pending[n]
    BY <1>1, <1>3 DEF Counted
  <2>2. \A n \in Live : \A ph : ~ Cued(n, ph)
    BY <2>1 DEF Cued, Live
  <2>3. ASSUME NEW n \in Live \cap Reached, n \notin done
        PROVE  FALSE
    <3>1. PICK cur \in 1 .. Last : cur = local[n].cur /\ conf.phases[cur].kind = "Gather"
      BY <1>1, <2>2, <2>3, PhasesType DEF Guided, Guide, LocalOK, Live
    <3>2. cur = Last
      BY <1>1, <3>1, PhaseOrder
    <3> QED BY <1>3, <3>1, <3>2 DEF Options
  <2>4. \A n : ~ Ends(n)
    BY <2>1 DEF Ends
  <2>5. done \subseteq finished
    BY <1>1, <2>4 DEF Counted
  <2> QED BY <1>1, <2>3, <2>5 DEF Counted
<1> QED BY <1>1, <1>2, <1>3 DEF StatisticsAgree, Counted

LEMMA StatisticsHoldAgain == RepeatedSpec => []StatisticsAgree
<1>1. CompInv => StatisticsAgree
  BY EndCounts
<1> QED BY <1>1, CompletionInvariant, PTL

(* The books of a run agree, whatever the collective, the tree, the        *)
(* failures and the machine: who is coloured is who was reached, only live *)
(* nodes that were reached finish, and in the end the failed nodes have a  *)
(* FailureEvent and, unless they gather, all the others that were reached  *)
(* a FinishEvent: nobody is forgotten with a task or a request open.       *)
THEOREM StatisticsHold == CSpec => []StatisticsAgree
BY OneCollective, StatisticsHoldAgain, PTL

-----------------------------------------------------------------------------
(***************************************************************************)
(* The total time.  Only live nodes that are reached, or receive, have     *)
(* occupied a cpu.  A FinishTask is due at the end of all times: when the  *)
(* first one is served nothing else is due before, and nothing starts      *)
(* until the loop ends.                                                    *)
(***************************************************************************)
Receives(n) == \E u \in queue : u.type \in {"RecvStart", "RecvEnd"} /\ u.receiver = n

Worked == \A n \in Node : \A k \in Thread : cpu[n][k] > 0 => n \in Live /\ (n \in Reached \/ Receives(n))
LateOnly == status = "running" /\ finished # {} => Delivered = {} /\ \A u \in queue : u.time >= TimeMax
Spanned ==
  status \in {"running", "done"} => \A n \in finished : \A k \in Thread : cpu[n][k] <= totalTime
SpanInv == Worked /\ LateOnly /\ Spanned

LEMMA WorkedStep ==
  ASSUME TypeOK, Senders, Worked, conf' = conf, NEW t \in Upcoming, NEW asked, Heap(t, asked),
         Reached \subseteq Reached', t.type = "RecvEnd" => t.receiver \in Reached'
  PROVE  Worked'
<1>1. Node' = Node /\ Live' = Live /\ Thread' = Thread /\ t \in Task /\ t \in Ready
  BY UpcomingType DEF Node, Live, Thread
<1>2. t.type \in {"SendStart", "RecvStart", "RecvEnd"} => t \in queue
  BY <1>1, ReadyTasks
<1>3. t.type = "RecvStart" => t.receiver \in Live /\ Receives(t.receiver)'
  <2>1. SUFFICES ASSUME t.type = "RecvStart" PROVE t.receiver \in Live /\ Receives(t.receiver)'
    OBVIOUS
  <2>2. t.receiver \in Live
    BY <1>2, <2>1 DEF Senders
  <2>3. t.receiver \notin conf.failed
    BY <2>2 DEF Live
  <2>4. PICK u \in queue' : Succeeds(t, u)
    BY <2>1, <2>3 DEF Heap, Continues
  <2>5. u.type \in {"RecvStart", "RecvEnd"} /\ u.receiver = t.receiver
    BY <2>1, <2>4 DEF Succeeds, Successors
  <2> QED BY <2>2, <2>5 DEF Receives
<1>4. ASSUME NEW n \in Node, n \in Live, n \in Reached \/ Receives(n)
      PROVE  n \in Reached' \/ Receives(n)'
  <2>1. CASE n \in Reached
    BY <2>1
  <2>2. ASSUME NEW u \in queue, u.type \in {"RecvStart", "RecvEnd"}, u.receiver = n
        PROVE  n \in Reached' \/ Receives(n)'
    <3>1. CASE u = t
      BY <1>3, <2>2, <3>1
    <3>2. CASE u # t
      <4>1. u \in queue'
        BY <3>2 DEF Heap, Ready
      <4> QED BY <2>2, <4>1 DEF Receives
    <3> QED BY <3>1, <3>2
  <2> QED BY <1>4, <2>1, <2>2 DEF Receives
<1>5. ASSUME NEW n \in Node, NEW k \in Thread, cpu'[n][k] > 0
      PROVE  n \in Live /\ (n \in Reached' \/ Receives(n)')
  <2>1. CASE Occupied(t, n)
    <3>1. t.type = "SendStart" => t.sender \in Live \cap Reached
      BY <1>2 DEF Senders, MessageTypes
    <3> QED BY <1>3, <2>1, <3>1 DEF Occupied
  <2>2. CASE cpu'[n] = cpu[n]
    <3>1. n \in Live /\ (n \in Reached \/ Receives(n))
      BY <1>5, <2>2 DEF Worked
    <3> QED BY <1>4, <3>1
  <2> QED BY <2>1, <2>2 DEF Heap, Booked
<1> QED BY <1>1, <1>5 DEF Worked

(* The first FinishTask at the top of the heap: nothing is due earlier. *)
LEMMA FinishOnTop ==
  ASSUME TypeOK, FinishIsLast, NEW t \in Upcoming, t.type = "Finish", status = "running"
  PROVE  Delivered = {} /\ \A u \in queue : u.time >= TimeMax
<1>1. t \in Task /\ t \in Ready /\ IsTop(t, Ready) /\ now \in Nat /\ TimeMax \in Nat
  BY UpcomingType, BoundsAssumption DEF TypeOK
<1>2. t \in queue /\ t.time = TimeMax /\ now < TimeMax
  <2>1. t \in queue
    BY <1>1, ReadyTasks
  <2> QED BY <2>1 DEF FinishIsLast
<1>3. ASSUME NEW u \in Ready
      PROVE  u.time >= TimeMax
  <2>1. u \in Task /\ u.time \in Nat
    BY <1>3, ReadyType DEF Task
  <2>2. ~ Precedes(u, t)
    BY <1>1, <1>3 DEF IsTop
  <2>3. Key(u)[1] = u.time /\ Key(t)[1] = t.time
    BY DEF Key
  <2>4. ~ (u.time < t.time)
    <3>1. 1 \in 1 .. 4 /\ \A j \in 1 .. 1 - 1 : Key(u)[j] = Key(t)[j]
      OBVIOUS
    <3> QED BY <2>2, <2>3, <3>1 DEF Precedes
  <2> QED BY <1>1, <1>2, <2>1, <2>4
<1>4. ASSUME NEW n \in Delivered
      PROVE  FALSE
  <2>1. IdleTask(n) \in Ready /\ IdleTask(n).time = now
    BY DEF Ready, IdleTask
  <2>2. now >= TimeMax
    BY <1>3, <2>1
  <2> QED BY <1>1, <1>2, <2>2
<1> QED BY <1>3, <1>4 DEF Ready

LEMMA LateStep ==
  ASSUME TypeOK, TypeOK', FinishIsLast, FinishIsLast', Senders, LateOnly, Spanned, conf' = conf,
         NEW t \in Upcoming, NEW asked, Heap(t, asked), t.type = "Finish" => asked = {}
  PROVE  LateOnly' /\ Spanned'
<1>1. t \in Task /\ t \in Ready /\ status = "running" /\ Node' = Node /\ Thread' = Thread
  BY UpcomingType DEF Heap, Node, Thread
<1>2. /\ now \in Nat /\ now' \in Nat /\ TimeMax \in Nat /\ totalTime \in Nat /\ totalTime' \in Nat
      /\ totalTime' >= totalTime /\ cpu \in [Node -> [Thread -> Nat]] /\ finished \subseteq Node
      /\ status' = "running" => now' < TimeMax
  BY BoundsAssumption DEF TypeOK, Heap, Booked, FinishIsLast
<1>3. CASE t.type = "Finish"
  <2>1. Delivered = {} /\ \A u \in queue : u.time >= TimeMax
    BY <1>1, <1>3, FinishOnTop
  <2>2. queue' \subseteq queue /\ UNCHANGED <<now, idle, cpu, sendGap>>
    BY <1>3, <2>1 DEF Heap, Booked
  <2>3. finished' = finished \cup {t.sender} /\ \A k \in Thread : cpu[t.sender][k] <= totalTime'
    BY <1>3, <2>2 DEF Heap, Recorded, Booked
  <2>4. ASSUME status' = "running"
        PROVE  Delivered' = {} /\ \A u \in queue' : u.time >= TimeMax
    <3>1. now < TimeMax
      BY <1>2, <2>2, <2>4
    <3>2. \A u \in queue' : u.time >= TimeMax
      BY <2>1, <2>2
    <3>3. \A u \in queue : u.time # now
      BY <1>2, <2>1, <3>1
    <3>4. NextTimestamp
      BY <3>3 DEF NextTimestamp
    <3>5. NextTimestamp'
      BY <2>2, <3>3 DEF NextTimestamp
    <3>6. \A n : Deliverable(n)' <=> Deliverable(n)
      BY <1>1, <2>2 DEF Deliverable, CpuFree, idle
    <3>7. {m \in Node : Deliverable(m)'} = {m \in Node : Deliverable(m)} /\ count' = count
      BY <2>2, <3>6 DEF idle
    <3>8. \A n : Before(n, {m \in Node : Deliverable(m)})' = Before(n, {m \in Node : Deliverable(m)})
      BY <1>1, <3>7 DEF Before
    <3>9. Delivered' = Delivered
      BY <1>1, <3>4, <3>5, <3>6, <3>7, <3>8 DEF Delivered
    <3> QED BY <2>1, <3>2, <3>9
  <2>5. ASSUME NEW n \in finished', NEW k \in Thread
        PROVE  cpu'[n][k] <= totalTime'
    <3>1. CASE n = t.sender
      BY <2>2, <2>3, <3>1
    <3>2. CASE n # t.sender
      <4>1. n \in finished /\ n \in Node /\ cpu[n][k] \in Nat
        BY <1>2, <2>3, <2>5, <3>2
      <4>2. cpu[n][k] <= totalTime
        BY <1>1, <4>1 DEF Spanned
      <4> QED BY <1>2, <2>2, <4>1, <4>2
    <3> QED BY <3>1, <3>2
  <2> QED BY <1>1, <2>4, <2>5 DEF LateOnly, Spanned
<1>4. CASE t.type # "Finish"
  <2>1. finished' = finished
    BY <1>4 DEF Heap, Recorded
  <2>2. ASSUME finished # {}
        PROVE  status' # "running" /\ (status' = "done" => cpu' = cpu)
    <3>1. t.time >= TimeMax
      <4>1. t \in queue
        BY <1>1, <2>2 DEF LateOnly, Ready
      <4> QED BY <1>1, <2>2, <4>1 DEF LateOnly
    <3>2. now' = t.time
      BY <1>4 DEF Heap, Pop, Clock
    <3>3. status' # "running"
      BY <1>2, <3>1, <3>2
    <3>4. ASSUME status' = "done"
          PROVE  cpu' = cpu
      <4>1. queue' = {}
        BY <3>4 DEF Heap
      <4>2. t.type \notin {"SendStart", "RecvStart"}
        <5>1. t.type \in {"SendStart", "RecvStart"} => t \in queue
          BY <1>1, ReadyTasks
        <5>2. /\ t.type = "SendStart" => t.sender \notin conf.failed
              /\ t.type = "RecvStart" => t.receiver \notin conf.failed
          BY <5>1 DEF Senders, MessageTypes, Live
        <5> QED BY <4>1, <5>2 DEF Heap, Continues
      <4>3. \A n \in Node : cpu'[n] = cpu[n]
        BY <4>2 DEF Heap, Booked, Occupied
      <4>4. cpu' \in [Node -> [Thread -> Nat]]
        BY <1>1 DEF TypeOK
      <4> QED BY <1>2, <4>3, <4>4
    <3> QED BY <3>3, <3>4
  <2>3. LateOnly'
    BY <2>1, <2>2 DEF LateOnly
  <2>4. ASSUME NEW n \in finished', NEW k \in Thread, status' \in {"running", "done"}
        PROVE  cpu'[n][k] <= totalTime'
    <3>1. cpu' = cpu /\ n \in finished /\ n \in Node
      BY <1>2, <2>1, <2>2, <2>4
    <3>2. cpu[n][k] <= totalTime /\ cpu[n][k] \in Nat
      BY <1>1, <1>2, <3>1 DEF Spanned
    <3> QED BY <1>2, <3>1, <3>2
  <2> QED BY <1>1, <2>3, <2>4 DEF Spanned
<1> QED BY <1>3, <1>4

LEMMA StepSpan ==
  ASSUME TypeOK, TypeOK', FinishIsLast, FinishIsLast', LocalOK, StartUp, Senders, OneWait, SpanInv, [CNext]_vars
  PROVE  SpanInv'
<1>1. conf' = conf /\ Last' = Last /\ Node' = Node /\ Live' = Live /\ Thread' = Thread
  BY StepLocal DEF Last, Node, Live, Thread
<1>2. CASE Rests
  <2>1. /\ local' = local /\ queue' = queue /\ cpu' = cpu /\ finished' = finished /\ totalTime' = totalTime
        /\ status' \in {"running", "done"} => status' = status
    BY <1>2 DEF Rests, cvars
  <2>2. Reached' = Reached
    BY <1>1, <2>1 DEF Reached
  <2>3. Worked' /\ Spanned'
    BY <1>1, <2>1, <2>2 DEF SpanInv, Worked, Spanned, Receives
  <2>4. ASSUME status' = "running", finished' # {}
        PROVE  Delivered' = {}
    <3>1. /\ queue' = queue /\ now' = now /\ pending' = pending /\ count' = count /\ wasIdle' = wasIdle
          /\ cpu' = cpu /\ sendGap' = sendGap
      BY <1>2, <2>4 DEF Rests, qvars, idle, timeline
    <3>2. /\ NextTimestamp' <=> NextTimestamp
          /\ \A n : Deliverable(n)' <=> Deliverable(n)
      BY <1>1, <3>1 DEF NextTimestamp, IsTop, Precedes, Key, Deliverable, CpuFree
    <3>3. {m \in Node : Deliverable(m)'} = {m \in Node : Deliverable(m)}
      BY <3>2
    <3>4. \A n : Before(n, {m \in Node : Deliverable(m)})' = Before(n, {m \in Node : Deliverable(m)})
      BY <1>1, <3>3 DEF Before
    <3>5. Delivered' = Delivered
      BY <1>1, <3>1, <3>2, <3>3, <3>4 DEF Delivered
    <3> QED BY <1>2, <2>4, <2>1, <3>5 DEF SpanInv, LateOnly
  <2> QED BY <2>1, <2>3, <2>4 DEF SpanInv, LateOnly
<1>3. ASSUME NEW t \in Upcoming, Passes(t), Heap(t, {}), UNCHANGED cvars
      PROVE  SpanInv'
  <2>1. Reached' = Reached
    BY <1>1, <1>3 DEF cvars, Reached
  <2>2. t.type # "RecvEnd"
    BY <1>3 DEF Passes, DelaySend, DelayRecv, Msg, Failure
  <2>3. PICK asked : asked = {} /\ Heap(t, asked)
    BY <1>3
  <2>4. Worked' /\ LateOnly' /\ Spanned'
    BY <1>1, <2>1, <2>2, <2>3, WorkedStep, LateStep DEF SpanInv
  <2> QED BY <2>4 DEF SpanInv
<1>4. ASSUME NEW t \in Upcoming, NEW draw \in Draws(NotifiedNode(t), t), NEW out,
             RootBegins(NotifiedNode(t), t), t.type \in DOMAIN Priority \ {"Msg", "Failure"},
             Answers(t, NotifiedNode(t), draw, out)
      PROVE  SpanInv'
  <2>1. PICK n : n = NotifiedNode(t) /\ AnswerOf(t, n, out)
    BY <1>1, <1>4, AnswerIs
  <2>2. PICK asked : asked = RangeOf(Accept(n, out)) /\ Heap(t, asked)
    BY <2>1 DEF AnswerOf
  <2>3. Reached \subseteq Reached' /\ (t.type = "RecvEnd" => t.receiver \in Reached')
    BY <2>1 DEF AnswerOf, NotifiedNode
  <2>4. t.type = "Finish" => asked = {}
    <3>1. SUFFICES ASSUME t.type = "Finish" PROVE asked = {}
      OBVIOUS
    <3>2. out = Nothing(n, "ONGOING")
      BY <1>4, <2>1, <3>1 DEF Answers, CombinerDispatch
    <3>3. Accept(n, out) = <<>>
      BY <3>2 DEF Nothing, Accept, Finishing
    <3> QED BY <2>2, <3>3 DEF RangeOf
  <2>5. Worked' /\ LateOnly' /\ Spanned'
    BY <1>1, <2>2, <2>3, <2>4, WorkedStep, LateStep DEF SpanInv
  <2> QED BY <2>5 DEF SpanInv
<1> QED BY <1>2, <1>3, <1>4, StepCases

LEMMA SpanInvariant == RepeatedSpec => []SpanInv
<1>1. CStarted => SpanInv
  BY DEF CStarted, CStart, QStart, SpanInv, Worked, LateOnly, Spanned
<1>2. CompInv /\ CompInv' /\ IdleInv /\ IdleInv' /\ SpanInv /\ [CNext]_vars => SpanInv'
  BY StepSpan DEF CompInv, CInv, IInv, IdleInv
<1> QED BY <1>1, <1>2, CompletionInvariant, IdleInvariant, PTL DEF RepeatedSpec

LEMMA TotalTimeHoldsAgain == RepeatedSpec => [](Options.kind # "Gather" => TotalTimeCoversAll)
<1>1. CompInv /\ SpanInv => (Options.kind # "Gather" => TotalTimeCoversAll)
  <2> SUFFICES ASSUME CompInv, SpanInv, Options.kind # "Gather", status = "done", NEW n \in Node, NEW k \in Thread
               PROVE  cpu[n][k] <= totalTime
    BY DEF TotalTimeCoversAll
  <2>1. TypeOK /\ Counted /\ finished = Live \cap Reached
    BY EndCounts DEF CompInv, CInv, IInv, StatisticsAgree
  <2>2. queue = {}
    BY <2>1 DEF Counted
  <2>3. cpu[n][k] \in Nat /\ totalTime \in Nat
    BY <2>1 DEF TypeOK
  <2>4. CASE cpu[n][k] = 0
    BY <2>3, <2>4
  <2>5. CASE cpu[n][k] > 0
    <3>1. n \in Live /\ (n \in Reached \/ Receives(n))
      BY <2>5 DEF SpanInv, Worked
    <3>2. n \in finished
      BY <2>1, <2>2, <3>1 DEF Receives
    <3> QED BY <3>2 DEF SpanInv, Spanned
  <2> QED BY <2>3, <2>4, <2>5
<1> QED BY <1>1, CompletionInvariant, SpanInvariant, PTL

(* The total time of a run is long enough: no operation of any node ends   *)
(* later, unless nodes gather and wait forever for one that failed.        *)
(* FinishTasks are served when all operations are over, and everybody who  *)
(* had one is reached, and finishes.                                       *)
THEOREM TotalTimeHolds == CSpec => [](Options.kind # "Gather" => TotalTimeCoversAll)
BY OneCollective, TotalTimeHoldsAgain, PTL

=============================================================================
