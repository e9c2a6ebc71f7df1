----------------------------- MODULE Collective ------------------------------
(***************************************************************************)
(* A collective on the engine: Collective (lib/collective.cpp) reports     *)
(* every task to a Combiner (lib/phase/combiner.cpp), which keeps every    *)
(* node in one of a sequence of phases.  A phase may be Exclusive          *)
(* (lib/phase/exclusive.cpp): nobody leaves it before its deadline.        *)
(*                                                                         *)
(* Besides the fields of the engine a configuration has                    *)
(*   phases     a sequence of records with the field kind, the options of  *)
(*              that kind, and exclusive                                   *)
(*   receivers  the children of every node, any function to sequences      *)
(*   deadline   Topology::deadline() of that tree                          *)
(*   gossip     Gossip::gossip_time                                        *)
(*   d          the distance of opportunistic correction, the number of    *)
(*              multiple trees                                             *)
(***************************************************************************)
EXTENDS TaskQueue, Tree, Correction, Gossip, Gather, MultiTree

(* The kinds of phases, in the order in which they may follow each other. *)
Stage == [DepInit |-> 1, ReductionDepInit |-> 1, Tree |-> 2, Gossip |-> 3,
          Checked |-> 4, Opportunistic |-> 4, Gather |-> 4, MultiTree |-> 4]
Kinds == DOMAIN Stage

(***************************************************************************)
(* What the registered collectives have in common: the phases follow each  *)
(* other in stages, so that every kind occurs once and one state per node  *)
(* is enough; MultiTree comes after nothing but a DepInit, and only Gather *)
(* after a ReductionDepInit; only trees that do not forward are exclusive, *)
(* and never next to gossip; a tree that forwards is not the last phase.   *)
(* The root is nobody's child; the constructor of the opportunistic        *)
(* correction refuses a distance that is not less than the number of       *)
(* nodes; the gossip time is none only if there is a single node; and the  *)
(* ranks are ints.                                                         *)
(***************************************************************************)
IsCollective(c) ==
  LET last == Len(c.phases)
      kind(i) == c.phases[i].kind
  IN /\ c.phases \in Seq({c.phases[i] : i \in DOMAIN c.phases}) /\ last > 0
     /\ \A i \in 1 .. last :
          /\ kind(i) \in Kinds /\ c.phases[i].exclusive \in BOOLEAN
          /\ \A j \in 1 .. i - 1 : Stage[kind(j)] < Stage[kind(i)]
          /\ kind(i) = "MultiTree" => \A j \in 1 .. i - 1 : kind(j) = "DepInit"
          /\ kind(i) = "ReductionDepInit" => kind(last) = "Gather"
          /\ kind(i) = "Tree" => (c.phases[i].forward => i < last)
          /\ c.phases[i].exclusive =>
               /\ kind(i) = "Tree" /\ ~ c.phases[i].forward
               /\ \A j \in 1 .. last : kind(j) # "Gossip"
          /\ kind(i) = "Opportunistic" => c.d < c.P
     /\ c.receivers \in [0 .. c.P - 1 -> Seq(0 .. c.P - 1)]
     /\ \A n \in 0 .. c.P - 1 : \A i \in DOMAIN c.receivers[n] : c.receivers[n][i] \notin {0, n}
     /\ c.deadline \in Nat /\ c.gossip \in Nat /\ c.d \in Nat
     /\ c.P > 1 => c.gossip > 0
     /\ c.P <= IntMax

ASSUME CollectivesAssumption == \A c \in Configurations : IsCollective(c)

VARIABLES
  local,       \* what the phases keep for each node, see InitialState
  start,       \* Exclusive::start or Gossip::start_time, TimeMax before the
               \* first InitTask; no collective has phases of both kinds
  done,        \* Collective::done_nodes
  coloured,    \* Collective::coloured_nodes
  colouredTime \* Collective::coloured_time

cvars == <<local, start, done, coloured, colouredTime>>
vars == <<qvars, cvars>>

(* Mutant of FinishRequest: the task does not wait for all others. *)
FinishRequestEarly(n) ==
  [type |-> "Finish", tag |-> "INTERNAL", time |-> 0, sender |-> n, receiver |-> n]

FinishRequest(n) ==
  [type |-> "Finish", tag |-> "INTERNAL", time |-> TimeMax, sender |-> n, receiver |-> n]

-----------------------------------------------------------------------------
(* One phase. *)

DepInitDispatch(s, t) == IF t.type = "Init" THEN Outcome("DONE_PHASE", <<>>, s) ELSE Ongoing(s)

(* Exclusive and Gossip: the first InitTask fixes the start for everybody. *)
StartTime(at) == IF start = TimeMax THEN at ELSE start

(* draw is the node a random generator yields, if it is asked. *)
PlainDispatch(ph, n, s, t, at, draw) ==
  CASE ph.kind \in {"DepInit", "ReductionDepInit"} -> DepInitDispatch(s, t)
    [] ph.kind = "Tree"          -> TreeDispatch(conf, ph, n, s, t, at)
    [] ph.kind = "Checked"       -> CheckedDispatch(conf, ph, n, s, t, at)
    [] ph.kind = "Opportunistic" -> OpportunisticDispatch(conf, ph, n, s, t, at)
    [] ph.kind = "Gossip"        -> GossipDispatch(conf, n, s, t, at, StartTime(at), draw)
    [] ph.kind = "Gather"        -> GatherDispatch(conf, n, s, t, at)
    [] ph.kind = "MultiTree"     -> MultiTreeDispatch(conf, n, s, t, at)

AbsDeadline(at) == StartTime(at) + conf.deadline

(* Mutant of Held: whoever is done leaves at once. *)
NotHeld(out) == out

(* Only our own timer ends the phase; the inner one may leave at once. *)
Held(out) == IF out.res = "DONE_PHASE" THEN [out EXCEPT !.res = "ONGOING"] ELSE out

ExclusiveDispatch(ph, n, s, t, at, draw) ==
  LET inner == Held(PlainDispatch(ph, n, s, t, at, draw))
  IN CASE t.type = "Init" ->
            IF AbsDeadline(at) <= at THEN Outcome("DONE_PHASE", <<>>, s)
            ELSE [inner EXCEPT !.reqs = <<TimerRequest("EXCLUSIVE", AbsDeadline(at), n)>> \o @]
       [] t.type \in {"Idle", "Timer", "RecvEnd"} ->
            IF t.tag = "EXCLUSIVE" THEN Outcome("DONE_PHASE", <<>>, s) ELSE inner
       [] OTHER -> Ongoing(s)

PhaseDispatch(ph, n, s, t, at, draw) ==
  IF ph.exclusive THEN ExclusiveDispatch(ph, n, s, t, at, draw)
  ELSE PlainDispatch(ph, n, s, t, at, draw)

-----------------------------------------------------------------------------
(***************************************************************************)
(* Combiner::forward: the outcome with the state of the node moved to the  *)
(* next phase.  again is the message handed to that phase, if any: a task  *)
(* with its old sequence number, scheduled for now.                        *)
(***************************************************************************)
Last == Len(conf.phases)

(* The phase of the node, its number among them, after a result. *)
NextPhase(cur, res) ==
  CASE res = "ONGOING"   -> cur
    [] res = "DONE_COLL" -> Last + 1
    [] OTHER             -> cur + 1

(* The node moves from its phase to cur. *)
MoveOn(n, t, at, out, cur) ==
  LET more == cur <= Last
  IN [res   |-> IF more THEN "ONGOING" ELSE out.res,
      reqs  |-> IF more /\ cur > local[n].cur THEN Append(out.reqs, InitRequest(at, n)) ELSE out.reqs,
      s     |-> [out.s EXCEPT !.cur = cur],
      again |-> IF more /\ out.res = "DONE_FORWARD" THEN {t} ELSE {}]

Switch(n, t, at, out) == MoveOn(n, t, at, out, NextPhase(local[n].cur, out.res))

Nothing(n, res) == [res |-> res, reqs |-> <<>>, s |-> local[n], again |-> {}]

(* The phase node n is in; none once it is through all of them. *)
InPhase(n, kind) == local[n].cur <= Last /\ conf.phases[local[n].cur].kind = kind

CombinerForward(n, t, at, draw) ==
  IF local[n].cur > Last THEN Nothing(n, "DONE_PHASE")
  ELSE Switch(n, t, at, PhaseDispatch(conf.phases[local[n].cur], n, local[n], t, at, draw))

(* Combiner::dispatch: a received message reaches the node, whoever handled *)
(* it; a FinishTask goes to every phase and none of them asks for anything. *)
Colour(t, out) == IF t.type = "RecvEnd" THEN [out EXCEPT !.s.reached = TRUE] ELSE out

CombinerDispatch(n, t, at, draw) ==
  IF t.type = "Finish" THEN Nothing(n, "ONGOING") ELSE Colour(t, CombinerForward(n, t, at, draw))

-----------------------------------------------------------------------------
(* Collective::forward and accept. *)

(* Mutant of Finishing: who quits the collective early is forgotten. *)
FinishingPhase(n, out) == out.res = "DONE_PHASE" /\ n \notin done /\ out.s.reached

Finishing(n, out) == out.res \in {"DONE_PHASE", "DONE_COLL"} /\ n \notin done /\ out.s.reached

(* Everything the collective does about a task, as requests to the engine. *)
Accept(n, out) ==
  IF Finishing(n, out) THEN Append(out.reqs, FinishRequest(n)) ELSE out.reqs

(* The first InitTask an exclusive phase or gossip sees starts its clock. *)
Starts(n, t) ==
  /\ t.type = "Init" /\ local[n].cur <= Last
  /\ conf.phases[local[n].cur].exclusive \/ InPhase(n, "Gossip")

Follow(n, t, out) ==
  /\ local' = [local EXCEPT ![n] = out.s]
  /\ start' = IF Starts(n, t) THEN StartTime(Clock(t)) ELSE start
  /\ done' = IF Finishing(n, out) THEN done \cup {n} ELSE done
  /\ IF t.type = "RecvEnd" /\ n \notin coloured
     THEN coloured' = coloured \cup {n} /\ colouredTime' = LaterOf(Clock(t), colouredTime)
     ELSE UNCHANGED <<coloured, colouredTime>>

Serve(t, out, reqs) ==
  /\ \/ SendStart(t, reqs) \/ RecvStart(t, reqs) \/ SendEnd(t, reqs)
     \/ Idle(t, reqs) \/ Timer(t, reqs) \/ Init(t, reqs)
     \/ Finish(t, reqs) \/ RecvEnd(t, reqs, out.again)
  /\ Follow(NotifiedNode(t), t, out)

(* What the random generator may yield: gossip draws any other node. *)
Draws(n, t) == IF t.type = "Idle" /\ InPhase(n, "Gossip") THEN Node \ {n} ELSE {n}

(* The trees do not fit: the phase fails an assertion, or throws. *)
TreesUnfit(n, t) ==
  /\ t.type = "Init" /\ InPhase(n, "MultiTree") /\ local[n].reached
  /\ ~ (LeavesPrevail(conf) /\ TreesFit(conf))

(* An exclusive phase whose time is over does not ask the tree. *)
AsksTree(n, t) ==
  InPhase(n, "Tree") /\ (conf.phases[local[n].cur].exclusive => Clock(t) < AbsDeadline(Clock(t)))

(* The phase does not survive the task. *)
Refuses(n, t) ==
  \/ TreesUnfit(n, t)
  \/ AsksTree(n, t) /\ TreeFails(n, local[n], t)
  \/ InPhase(n, "Gather") /\ GatherFails(local[n], t)

Notify(t) ==
  LET n == NotifiedNode(t)
  IN /\ ~ Refuses(n, t)
     /\ \E draw \in Draws(n, t) :
          \E out \in {CombinerDispatch(n, t, Clock(t), draw)} : Serve(t, out, Accept(n, out))

(* The exception leaves the loop, the assertion the program. *)
LeavePhase(t) ==
  /\ Refuses(NotifiedNode(t), t)
  /\ Leave(t, IF InPhase(NotifiedNode(t), "MultiTree") /\ LeavesPrevail(conf) THEN "thrown" ELSE "asserted")
  /\ UNCHANGED cvars

(* The constructors of the phases reach the root, or the leaves. *)
FirstReached ==
  IF \E i \in 1 .. Last : conf.phases[i].kind = "ReductionDepInit"
  THEN {n \in Node : conf.receivers[n] = <<>>}
  ELSE {0}

(* The collective, and the phases that are set up with it. *)
CInit ==
  /\ QInit
  /\ local = [n \in Node |-> InitialState(n \in FirstReached, Len(conf.receivers[n]))]
  /\ start = TimeMax
  /\ done = {} /\ coloured = {0} /\ colouredTime = 0

(* One task, whoever hears of it. *)
Take(t) == Notify(t) \/ LeavePhase(t) \/ (Silent(t) /\ UNCHANGED cvars)

(* Whoever is at the top of the heap. *)
Upcoming == LET tasks == Ready IN {t \in tasks : IsTop(t, tasks)}

CNext ==
  \/ \E t \in Upcoming : Take(t)
  \/ EmptyPop /\ UNCHANGED cvars
  \/ Stopped /\ UNCHANGED cvars

CSpec == CInit /\ [][CNext]_vars

(* The loop of TaskQueue::run is sequential code: it takes its next step.  *)
FairCSpec == CSpec /\ WF_vars(CNext)

-----------------------------------------------------------------------------
(* Properties. *)

Live == Node \ conf.failed
Reached == {n \in Node : local[n].reached}
Options == conf.phases[Last]

(* The sets of nodes that Collective, the phases and Timeline keep apart   *)
(* agree: coloured_nodes with reached_nodes at every step, but for whom    *)
(* the collective starts with; and in the end, which is what node_stat()   *)
(* reports, the failed nodes have a FailureEvent and exactly the live      *)
(* nodes that were reached have a FinishEvent, unless they gather.         *)
StatisticsAgree ==
  /\ coloured \cup FirstReached = Reached \cup {0}
  /\ finished \subseteq done /\ done \subseteq Live \cap Reached
  /\ status = "done" =>
       /\ failures = conf.failed
       /\ Options.kind # "Gather" => finished = Live \cap Reached

(* get_total_time(): no operation of any node ends after the total time,   *)
(* as a node finishes after all it does, even if it goes on receiving.     *)
TotalTimeCoversAll ==
  status = "done" => \A n \in Node : \A k \in Thread : cpu[n][k] <= totalTime

(* The assertions of the correction and of SendStartTask: nobody sends to  *)
(* itself, however far the two directions of the ring have come; together  *)
(* they pass at most one node twice.                                       *)
RingsMeet ==
  /\ \A t \in queue : t.type = "SendStart" => t.sender # t.receiver
  /\ \A n \in Node : local[n].left.offset + local[n].right.offset <= conf.P

(* An exclusive phase is a barrier: no node is in a later phase before the *)
(* deadline of the tree, and none is left behind after it.                 *)
ExclusiveBarrier ==
  \A i \in 1 .. Last : conf.phases[i].exclusive =>
    LET past == {n \in Node : local[n].cur > i}
    IN /\ past # {} => now >= start + conf.deadline
       /\ status = "running" /\ now > start + conf.deadline => Live \subseteq past

(* The deadline is not too early: when the first node leaves an exclusive  *)
(* phase no message of the tree is underway.                               *)
TreeIsOver ==
  \A i \in 1 .. Last :
    conf.phases[i].exclusive /\ (\E n \in Node : local[n].cur > i) => \A t \in queue : t.tag # "TREE"

(* Checked correction: with a live root every live node is reached, and    *)
(* finishes, whichever nodes failed.                                       *)
CheckedReachesAll ==
  status = "done" /\ 0 \in Live /\ Options.kind = "Checked" => Live \subseteq finished

(* The nodes reached along the tree alone, and whom one corrects. *)
Sprouts(nodes) == UNION {{conf.receivers[n][i] : i \in DOMAIN conf.receivers[n]} : n \in nodes}

TreeReached ==
  LET wave[i \in 0 .. conf.P] ==
        IF i = 0 THEN {0} \cap Live ELSE wave[i - 1] \cup (Sprouts(wave[i - 1]) \cap Live)
  IN wave[conf.P]

Neighbourhood(n) ==
  LET near == {n + i : i \in - LeftDist(conf) .. RightDist(conf)}
  IN IF Options.overRoot THEN {(m + conf.P) % conf.P : m \in near} ELSE near

(* A plain tree reaches exactly the live nodes with live ancestors. *)
TreeReachesBelow ==
  status = "done" /\ Options.kind = "Tree" => Live \cap Reached = TreeReached

Covering == \A n \in TreeReached : Neighbourhood(n) \cap Live \subseteq Reached

(* Opportunistic correction: whoever the tree reaches covers the live      *)
(* nodes within the distance, also if it is corrected before the tree gets *)
(* to it; the styles that leave the collective then are not meant.         *)
NeighboursCovered ==
  /\ status = "done" /\ Options.kind = "Opportunistic" /\ ~ Options.optimised
  /\ \E i \in 1 .. Last : conf.phases[i].kind = "Tree" /\ (conf.phases[i].exclusive \/ conf.phases[i].forward)
  => Covering

(* "do not send to nodes the one who sent to us has covered or will        *)
(* cover": what the optimised correction leaves out is covered by somebody *)
(* else, so it covers as much as the plain one.                            *)
LeftOutAreCovered ==
  status = "done" /\ Options.kind = "Opportunistic" /\ Options.optimised => Covering

(* "It shouldn't send to the same node on different rings": the distances  *)
(* sent to the left and to the right do not meet.                          *)
NoNodeTwice ==
  \A n \in Node : local[n].left.offset + local[n].right.offset < conf.P

(* "Queue is empty, but there is an attempt to pop": never. *)
NoEmptyPop == status # "aborted"

-----------------------------------------------------------------------------
(* Properties of gossip, of gathering and of multiple trees. *)

(* Gossip is synchronous although nobody waits for anybody: no node goes   *)
(* on to a later phase before the gossip time has passed since the start,  *)
(* unless it leaves for good, and none is left behind.  Who turns up later *)
(* is only initialised.                                                    *)
GossipWindow ==
  \A i \in 1 .. Last : conf.phases[i].kind = "Gossip" =>
    \A n \in Live :
      /\ local[n].cur \in i + 1 .. Last => now >= start + conf.gossip
      /\ local[n].cur = i /\ now > start + conf.gossip =>
           status # "running" \/ \E t \in queue : t.type = "Init" /\ t.sender = n

HasSent(n) == local[n].toReceive < 0
ChildrenOf(n) == {conf.receivers[n][i] : i \in DOMAIN conf.receivers[n]}

(* The children n has not heard from: they wait, or their message travels. *)
Awaited(n) ==
  {m \in ChildrenOf(n) : \/ ~ HasSent(m)
                         \/ \E t \in queue : t.tag = "GATHER" /\ t.sender = m /\ t.receiver = n}

(* Gather::to_receive counts the children that are still to be heard from, *)
(* whatever order their messages take, so that a node sends exactly once   *)
(* and, the assertion of post_sends, never counts below zero.              *)
AwaitedChildren ==
  Options.kind = "Gather" =>
    \A n \in Live : LaterOf(local[n].toReceive, 0) = Cardinality(Awaited(n))

(* The nodes below n, and n. *)
Subtree(n) ==
  LET wave[i \in 0 .. conf.P] ==
        IF i = 0 THEN {n} ELSE wave[i - 1] \cup UNION {ChildrenOf(m) : m \in wave[i - 1]}
  IN wave[conf.P]

(* With failures, exactly the nodes whose whole subtree works finish; in an *)
(* acknowledged broadcast they must have been reached, too.                 *)
WholeSubtreesFinish ==
  status = "done" /\ Options.kind = "Gather" =>
    finished = {n \in IF 0 \in FirstReached THEN TreeReached ELSE Node : Subtree(n) \subseteq Live}

(* d trees that share no inner node: fewer than d failures, and a live     *)
(* root, leave one tree intact, so everybody else is reached.              *)
FewFailuresTolerated ==
  /\ status = "done" /\ Options.kind = "MultiTree"
  /\ 0 \in Live /\ Cardinality(conf.failed) < conf.d
  => Live \subseteq finished

(* Gathering implements the abstract convergecast. *)
Convergecast ==
  INSTANCE Convergecast WITH live <- Live, below <- [n \in Node |-> ChildrenOf(n)],
                             reported <- {n \in Node : HasSent(n)}
ImplementsConvergecast == Convergecast!Spec

-----------------------------------------------------------------------------
(* Every broadcast ends by itself, before the time limit. *)
Terminates == <>(status = "done")

(* The messages underway, from the request to send to the reception. *)
Wire == {[id |-> t.seq, from |-> t.sender, to |-> t.receiver] :
           t \in {u \in queue : u.type \in {"SendStart", "SendEnd", "Msg", "RecvStart", "RecvEnd"}}}

(* Every collective implements the abstract broadcast. *)
Abstract == INSTANCE Broadcast WITH live <- Live, coloured <- Reached, wire <- Wire
ImplementsBroadcast == Abstract!Spec
=============================================================================
