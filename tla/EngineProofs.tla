---------------------------- MODULE EngineProofs -----------------------------
(***************************************************************************)
(* Proofs about the open engine, whatever the phases ask for, on every     *)
(* command line: its inductive invariant, the order of its tasks, that the *)
(* simulated machine keeps to the LogP model, and that an IdleTask finds   *)
(* its node free.                                                          *)
(***************************************************************************)
EXTENDS TaskQueue, FiniteSetTheorems, SequenceTheorems, WellFoundedInduction, TLAPS

(***************************************************************************)
(* The engine with no bound on what the phases ask for: any number of      *)
(* requests, for any tag and receiver, of timers as far ahead as they      *)
(* like.  A phase asks for the node that was notified, and never for the   *)
(* past.                                                                   *)
(***************************************************************************)
Demand(n, at) ==
  {r \in [type : {"SendStart", "Timer", "Init", "Idle", "Finish"}, tag : DOMAIN TagValue,
           time : Nat, sender : {n}, receiver : Node] :
     /\ r.type \notin {"Idle", "Finish"} => r.time >= at
     /\ r.type = "Finish" => r.time = TimeMax}

Asks(t) == Seq(Demand(NotifiedNode(t), Clock(t)))

OpenNext ==
  \/ \E t \in Ready : \/ Silent(t)
                      \/ \E how \in {"thrown", "asserted"} : Leave(t, how)
                      \/ \E reqs \in Asks(t) : React(t, reqs)
  \/ EmptyPop
  \/ Stopped

(***************************************************************************)
(* A start, with a first sequence number of its own.  The main program     *)
(* makes queue after queue, and Sequence goes on: so the open engine may   *)
(* be started again at any time, with another configuration.               *)
(***************************************************************************)
QStart(first) ==
  /\ conf \in Configurations
  /\ queue = AllAdmitted({[type |-> "Init", tag |-> "INIT", time |-> 0, seq |-> first + n,
                            sender |-> n, receiver |-> n] : n \in Node})
  /\ now = 0 /\ nextSeq = first + conf.P
  /\ pending = [n \in Node |-> FALSE] /\ count = 0
  /\ wasIdle = [n \in Node |-> conf.parallelism]
  /\ cpu = [n \in Node |-> [k \in Thread |-> 0]]
  /\ sendGap = [n \in Node |-> 0] /\ recvGap = [n \in Node |-> 0]
  /\ worked = {} /\ finished = {} /\ failures = {} /\ totalTime = 0
  /\ status = "running"

QStarted == \E first \in Nat : QStart(first)

OpenSpec == QStarted /\ [][OpenNext \/ QStarted']_qvars

(* The loop runs only while there is a task or a request to serve. *)
LoopGoesOn == status = "running" => queue # {} \/ count > 0

(***************************************************************************)
(* The inductive invariant.  EmptyPopOnlyWithoutCosts speaks of one step;  *)
(* what makes it true before that step is the conjuncts before it.         *)
(***************************************************************************)
IInv ==
  /\ TypeOK
  /\ NoTimewarp
  /\ CountMatchesPending
  /\ BusyNodesHaveEndTasks
  /\ LoopGoesOn
  /\ EmptyPopOnlyWithoutCosts

-----------------------------------------------------------------------------
(* What the operators of the engine return. *)

LEMMA ConfType ==
  ASSUME TypeOK
  PROVE  /\ conf.P \in Nat \ {0} /\ conf.parallelism \in Nat \ {0}
         /\ conf.L \in Nat /\ conf.o \in Nat /\ conf.g \in Nat
         /\ conf.limit \in Nat
  BY ConfigurationsAssumption DEF TypeOK, IsConfiguration

LEMMA LaterOfType ==
  ASSUME NEW a \in Nat, NEW b \in Nat
  PROVE  LaterOf(a, b) \in Nat /\ LaterOf(a, b) >= a /\ LaterOf(a, b) >= b
  BY DEF LaterOf

(* Sets of nodes are finite, and so are the counts taken of them. *)
LEMMA NodeSets ==
  ASSUME TypeOK, NEW S, S \subseteq Node
  PROVE  /\ IsFiniteSet(S) /\ Cardinality(S) \in Nat
         /\ \A n \in Node : Before(n, S) \in Nat
<1>1. IsFiniteSet(Node)
  <2>1. 0 \in Int /\ conf.P - 1 \in Int
    BY ConfType
  <2>2. IsFiniteSet(0 .. conf.P - 1)
    BY ONLY <2>1, FS_Interval
  <2> QED BY <2>2 DEF Node
<1>2. \A T \in SUBSET Node : IsFiniteSet(T) /\ Cardinality(T) \in Nat
  BY <1>1, FS_Subset, FS_CardinalityType
<1>3. \A n \in Node : {m \in S : m < n} \in SUBSET Node
  OBVIOUS
<1> QED BY <1>2, <1>3 DEF Before

LEMMA DeliveredType ==
  ASSUME TypeOK
  PROVE  /\ Delivered \subseteq Node /\ IsFiniteSet(Delivered)
         /\ Cardinality(Delivered) \in Nat /\ FirstSeq \in Nat
         /\ \A n \in Node : Before(n, Delivered) \in Nat
<1>1. Delivered \subseteq Node
  BY DEF Delivered
<1> QED BY <1>1, NodeSets DEF FirstSeq, TypeOK

LEMMA ReadyType ==
  ASSUME TypeOK
  PROVE  Ready \subseteq Task /\ queue \subseteq Ready
<1>1. ASSUME NEW n \in Delivered PROVE IdleTask(n) \in Task
  <2>1. n \in Node /\ nextSeq + Before(n, Delivered) \in Nat /\ now \in Nat
    BY DeliveredType DEF TypeOK
  <2> QED BY <2>1 DEF IdleTask, Task, Priority, TagValue
<1> QED BY <1>1 DEF Ready, TypeOK

LEMMA AdmittedType ==
  ASSUME NEW t \in Task
  PROVE  /\ Admitted(t) \subseteq Task
         /\ \A u \in Admitted(t) : u.time = t.time
  BY DEF Admitted, Task, Priority

LEMMA AllAdmittedType ==
  ASSUME NEW own \in SUBSET Task
  PROVE  /\ \A u \in AllAdmitted(own) : u \in Task /\ \E v \in own : u.time = v.time
         /\ \A u \in own : u.type \in {"SendEnd", "RecvEnd"} => u \in AllAdmitted(own)
<1>1. ASSUME NEW u \in AllAdmitted(own)
      PROVE  u \in Task /\ \E v \in own : u.time = v.time
  <2>1. PICK v \in own : u \in Admitted(v)
    BY DEF AllAdmitted
  <2> QED BY <2>1, AdmittedType
<1>2. ASSUME NEW u \in own, u.type \in {"SendEnd", "RecvEnd"}
      PROVE  u \in AllAdmitted(own)
  <2>1. u \in Admitted(u)
    BY <1>2 DEF Admitted
  <2> QED BY <2>1 DEF AllAdmitted
<1> QED BY <1>1, <1>2

LEMMA AskType ==
  ASSUME NEW t, NEW reqs \in Asks(t)
  PROVE  /\ Len(reqs) \in Nat /\ DOMAIN reqs = 1 .. Len(reqs)
         /\ DOMAIN reqs \in SUBSET (Nat \ {0})
         /\ \A i \in DOMAIN reqs : reqs[i] \in Demand(NotifiedNode(t), Clock(t))
BY DEF Asks

LEMMA NoRequests ==
  ASSUME NEW t
  PROVE  <<>> \in Asks(t)
BY DEF Asks

LEMMA ClockType ==
  ASSUME TypeOK, NEW t \in Task
  PROVE  Clock(t) \in Nat /\ NotifiedNode(t) \in Node
  BY DEF Clock, NotifiedNode, Task, TypeOK

LEMMA DemandType ==
  ASSUME TypeOK, NEW n \in Node, NEW at \in Nat, NEW r \in Demand(n, at), NEW s \in Nat
  PROVE  /\ Numbered(r, s) \in Task /\ r.sender = n
         /\ r.type \in {"SendStart", "Timer", "Init", "Idle", "Finish"}
         /\ r.type \notin {"Idle", "Finish"} => r.time >= at
<1>1. /\ r.type \in DOMAIN Priority /\ r.tag \in DOMAIN TagValue /\ r.time \in Nat
      /\ r.sender \in Node /\ r.receiver \in Node
  BY DEF Demand, Priority
<1> QED BY <1>1 DEF Demand, Numbered, Task

LEMMA RequestedType ==
  ASSUME TypeOK, NEW t \in Task, NEW reqs \in Asks(t)
  PROVE  /\ Requested(reqs) \subseteq Task /\ IdleWishes(reqs) \subseteq Node
         /\ \A u \in Requested(reqs) : u.type # "Finish" => u.time >= Clock(t)
<1>1. ASSUME NEW i \in DOMAIN reqs
      PROVE  /\ Numbered(reqs[i], FirstSeq + i - 1) \in Task /\ reqs[i].sender \in Node
             /\ reqs[i].type \notin {"Idle", "Finish"} => reqs[i].time >= Clock(t)
  <2>1. FirstSeq + i - 1 \in Nat
    BY DeliveredType, AskType
  <2>2. reqs[i] \in Demand(NotifiedNode(t), Clock(t))
    BY AskType
  <2> QED BY <2>1, <2>2, ClockType, DemandType
<1>2. IdleWishes(reqs) \subseteq Node
  BY <1>1 DEF IdleWishes
<1>3. ASSUME NEW u \in Requested(reqs)
      PROVE  u \in Task /\ (u.type # "Finish" => u.time >= Clock(t))
  <2>1. PICK i \in DOMAIN reqs : /\ reqs[i].type # "Idle"
                                 /\ u \in Admitted(Numbered(reqs[i], FirstSeq + i - 1))
    BY <1>3 DEF Requested
  <2> DEFINE m == Numbered(reqs[i], FirstSeq + i - 1)
  <2>2. m \in Task /\ m.time = reqs[i].time /\ m.type = reqs[i].type
    BY <1>1 DEF Numbered
  <2>3. u \in Task /\ u.time = m.time
    BY <2>1, <2>2, AdmittedType
  <2>4. u.type # "Finish" => m.type # "Finish"
    BY <2>1 DEF Admitted
  <2> QED BY <1>1, <2>1, <2>2, <2>3, <2>4
<1> QED BY <1>2, <1>3

-----------------------------------------------------------------------------
(* One iteration of the loop, whatever is served. *)

(* The clock never goes back, and the served task is an earliest one. *)
LEMMA PopClock ==
  ASSUME TypeOK, NoTimewarp, NEW t, Pop(t)
  PROVE  /\ t \in Ready /\ t \in Task /\ conf' = conf /\ status = "running"
         /\ now' = Clock(t) /\ now' \in Nat /\ now' >= now
         /\ \A u \in Ready : u.type # "Finish" => u.time >= now'
<1>1. t \in Ready /\ t \in Task /\ conf' = conf /\ now' = Clock(t) /\ status = "running"
  BY ReadyType DEF Pop, IsTop
<1>2. now' \in Nat /\ now \in Nat
  BY <1>1, ClockType DEF TypeOK
<1>3. \A u \in Ready : u.type # "Finish" => u.time >= now
  BY DEF Ready, IdleTask, NoTimewarp, Clock, TypeOK
<1>4. now' >= now
  BY <1>1, <1>2, <1>3 DEF Clock
<1>5. ASSUME NEW u \in Ready, u.type # "Finish"
      PROVE  u.time >= now'
  <2>1. CASE t.type = "Finish"
    BY <1>1, <1>3, <1>5, <2>1 DEF Clock
  <2>2. CASE t.type # "Finish"
    <3>1. u.time \in Nat /\ t.time \in Nat
      BY <1>1, <1>5, ReadyType DEF Task
    <3>2. ~ Precedes(u, t)
      BY <1>5 DEF Pop, IsTop
    <3>3. ~ (Key(u)[1] < Key(t)[1])
      <4>1. 1 \in 1 .. 4 /\ \A j \in 1 .. 1 - 1 : Key(u)[j] = Key(t)[j]
        OBVIOUS
      <4> QED BY <4>1, <3>2 DEF Precedes
    <3>4. ~ (u.time < t.time)
      BY <3>3 DEF Key
    <3> QED BY <1>1, <2>2, <3>1, <3>4 DEF Clock
  <2> QED BY <2>1, <2>2
<1> QED BY <1>1, <1>2, <1>4, <1>5

(***************************************************************************)
(* What Schedule leaves behind, if what execute() schedules itself is not  *)
(* in the past.                                                            *)
(***************************************************************************)
LEMMA ScheduleQueue ==
  ASSUME TypeOK, NoTimewarp, NEW t, Pop(t), NEW reqs \in Asks(t),
         NEW own \in SUBSET Task, \A u \in own : u.time >= now',
         NEW again \in SUBSET {t}, Schedule(t, own, reqs, again)
  PROVE  /\ queue' \subseteq Task /\ nextSeq' \in Nat
         /\ NoTimewarp'
         /\ \A u \in queue : u # t => u \in queue'
         /\ \A u \in own : u.type \in {"SendEnd", "RecvEnd"} => u \in queue'
<1>1. t \in Ready /\ t \in Task /\ now' = Clock(t) /\ now' \in Nat
  BY PopClock
<1>2. queue' = (Ready \ {t}) \cup AllAdmitted(own) \cup Requested(reqs) \cup again
  BY DEF Schedule
<1>3. ASSUME NEW u \in queue'
      PROVE  u \in Task /\ (u.type # "Finish" => u.time >= now')
  <2>1. CASE u \in Ready
    BY <2>1, ReadyType, PopClock
  <2>2. CASE u \in AllAdmitted(own)
    BY <1>1, <2>2, AllAdmittedType DEF Task
  <2>3. CASE u \in Requested(reqs)
    BY <1>1, <2>3, RequestedType
  <2>4. CASE u = t
    BY <1>1, <2>4, PopClock
  <2>5. u \in again => u = t
    OBVIOUS
  <2> QED BY <1>2, <1>3, <2>1, <2>2, <2>3, <2>4, <2>5
<1>4. NoTimewarp'
  BY <1>1, <1>3 DEF NoTimewarp, Clock
<1>5. nextSeq' \in Nat
  BY <1>1, DeliveredType, AskType DEF Schedule
<1>6. \A u \in queue : u # t => u \in queue'
  BY <1>2, ReadyType
<1>7. \A u \in own : u.type \in {"SendEnd", "RecvEnd"} => u \in queue'
  BY <1>2, AllAdmittedType
<1> QED BY <1>3, <1>4, <1>5, <1>6, <1>7

(* The counter of the idle tracker follows its marks. *)
LEMMA ScheduleIdle ==
  ASSUME TypeOK, CountMatchesPending, NEW t \in Task, NEW reqs \in Asks(t),
         NEW own, NEW again, Schedule(t, own, reqs, again), conf' = conf
  PROVE  /\ pending' \in [Node -> BOOLEAN] /\ count' \in Int /\ CountMatchesPending'
         /\ status' \in {"running", "limit", "done"} /\ LoopGoesOn'
<1> DEFINE marked == {n \in Node : pending[n]}
           left == marked \ Delivered
           wishes == IdleWishes(reqs)
<1>1. Node' = Node
  BY DEF Node
<1>2. wishes \subseteq Node
  BY RequestedType
<1>3. Delivered \subseteq marked
  BY DEF Delivered, Deliverable
<1>4. /\ IsFiniteSet(marked) /\ IsFiniteSet(left) /\ IsFiniteSet(wishes)
      /\ IsFiniteSet(wishes \ left)
      /\ Cardinality(marked) \in Nat /\ Cardinality(left) \in Nat
      /\ Cardinality(wishes \ left) \in Nat
  <2>1. marked \subseteq Node /\ left \subseteq Node /\ wishes \ left \subseteq Node
    BY <1>2
  <2> QED BY <2>1, <1>2, NodeSets
<1>5. Cardinality(left) = Cardinality(marked) - Cardinality(Delivered)
  <2>1. marked \cap Delivered = Delivered
    BY <1>3
  <2> QED BY <1>4, <2>1, FS_Difference
<1>6. Cardinality(left \cup (wishes \ left)) = Cardinality(left) + Cardinality(wishes \ left)
  <2>1. left \cap (wishes \ left) = {}
    OBVIOUS
  <2>2. Cardinality(left \cup (wishes \ left))
          = Cardinality(left) + Cardinality(wishes \ left) - Cardinality(left \cap (wishes \ left))
    BY <1>4, FS_Union
  <2>3. Cardinality(left \cap (wishes \ left)) = 0
    BY <2>1, FS_EmptySet
  <2> HIDE DEF left, wishes
  <2> QED BY <1>4, <2>2, <2>3
<1>7. pending' = [n \in Node |-> n \in left \cup wishes]
  BY DEF Schedule
<1>8. {n \in Node' : pending'[n]} = left \cup (wishes \ left)
  BY <1>1, <1>2, <1>7
<1>9. count' = count - Cardinality(Delivered) + Cardinality(wishes \ left)
  BY DEF Schedule
<1>10. Cardinality(Delivered) \in Nat /\ count = Cardinality(marked)
  BY DeliveredType DEF CountMatchesPending
<1>11. count' = Cardinality(left \cup (wishes \ left)) /\ count' \in Int
  BY <1>4, <1>5, <1>6, <1>9, <1>10
<1> HIDE DEF marked, left, wishes
<1>12. CountMatchesPending'
  BY <1>8, <1>11 DEF CountMatchesPending
<1>13. status' \in {"running", "limit", "done"} /\ LoopGoesOn'
  BY <1>11 DEF Schedule, LoopGoesOn
<1> QED BY <1>7, <1>11, <1>12, <1>13

(* An end task that lies ahead is still there after the step. *)
LEMMA EndTaskKept ==
  ASSUME TypeOK, NoTimewarp, NEW t, Pop(t), NEW at \in Nat,
         \A u \in queue : u # t => u \in queue',
         at > now', EndTaskIn(queue, at)
  PROVE  EndTaskIn(queue', at)
<1>1. PICK u \in queue : u.type \in {"SendEnd", "RecvEnd"} /\ u.time >= at
  BY DEF EndTaskIn
<1>2. u # t
  <2>1. SUFFICES ASSUME u = t PROVE FALSE
    OBVIOUS
  <2>2. now' = t.time /\ now' \in Nat
    BY <1>1, <2>1, PopClock DEF Clock
  <2> QED BY <1>1, <2>1, <2>2
<1> QED BY <1>1, <1>2 DEF EndTaskIn

(***************************************************************************)
(* BusyNodesHaveEndTasks after a step that extends the timelines only by   *)
(* operations whose end task it schedules.                                 *)
(***************************************************************************)
LEMMA BusyStep ==
  ASSUME TypeOK, NoTimewarp, BusyNodesHaveEndTasks, NEW t, Pop(t), queue' \subseteq Task,
         \A u \in queue : u # t => u \in queue',
         NEW busy, MarkIdle(t, busy),
         NEW started \in BOOLEAN,
         started => EndTaskIn(queue', now' + LaterOf(conf.o, conf.g)),
         \A n \in Node : \A k \in Thread :
           cpu'[n][k] = cpu[n][k] \/ (started /\ cpu'[n][k] = now' + conf.o),
         \A n \in Node : sendGap'[n] = sendGap[n] \/ (started /\ sendGap'[n] = now' + conf.g),
         busy = {} \/ started
  PROVE  BusyNodesHaveEndTasks'
<1>1. Node' = Node /\ Thread' = Thread /\ conf' = conf /\ now' \in Nat /\ now \in Nat /\ now' >= now
  BY PopClock DEF Node, Thread, TypeOK
<1>2. conf.o \in Nat /\ conf.g \in Nat
  BY ConfType
<1>3. started => \A d \in Nat : d <= conf.o \/ d <= conf.g => EndTaskIn(queue', now' + d)
  <2>1. SUFFICES ASSUME started, NEW d \in Nat, d <= conf.o \/ d <= conf.g
                 PROVE  EndTaskIn(queue', now' + d)
    OBVIOUS
  <2>2. PICK u \in queue' : /\ u.type \in {"SendEnd", "RecvEnd"}
                            /\ u.time >= now' + LaterOf(conf.o, conf.g)
    BY <2>1 DEF EndTaskIn
  <2>3. d <= LaterOf(conf.o, conf.g) /\ LaterOf(conf.o, conf.g) \in Nat
    BY <1>2, <2>1 DEF LaterOf
  <2>4. u.time \in Nat
    BY <2>2 DEF Task
  <2>5. u.time >= now' + d
    BY <1>1, <2>2, <2>3, <2>4
  <2> QED BY <2>2, <2>5 DEF EndTaskIn
<1>4. ASSUME conf.o + conf.g > 0, NEW n \in Node, wasIdle'[n] # conf.parallelism
      PROVE  EndTaskIn(queue', now' + 1)
  <2>1. CASE started
    <3>1. 1 <= conf.o \/ 1 <= conf.g
      BY <1>2, <1>4
    <3> QED BY <1>3, <2>1, <3>1
  <2>2. CASE ~ started
    <3>1. busy = {}
      BY <2>2
    <3>2. wasIdle[n] \in Int /\ conf.parallelism \in Nat
      BY ConfType DEF TypeOK
    <3>3. wasIdle'[n] = IF Clock(t) = now THEN wasIdle[n] ELSE conf.parallelism
      BY <3>1, <3>2 DEF MarkIdle
    <3>4. now' = now /\ wasIdle[n] # conf.parallelism
      BY <1>4, <3>3, PopClock
    <3>5. EndTaskIn(queue, now + 1)
      BY <1>4, <3>4 DEF BusyNodesHaveEndTasks
    <3>6. now + 1 \in Nat /\ now + 1 > now'
      BY <1>1, <3>4
    <3>7. EndTaskIn(queue', now + 1)
      BY <3>5, <3>6, EndTaskKept
    <3> QED BY <3>4, <3>7
  <2> QED BY <2>1, <2>2
<1>5. ASSUME NEW n \in Node, NEW k \in Thread, cpu'[n][k] > now'
      PROVE  EndTaskIn(queue', cpu'[n][k])
  <2>1. CASE started /\ cpu'[n][k] = now' + conf.o
    BY <1>2, <1>3, <2>1
  <2>2. CASE cpu'[n][k] = cpu[n][k]
    <3>1. cpu[n][k] \in Nat /\ cpu[n][k] > now' /\ cpu[n][k] > now
      BY <1>1, <1>5, <2>2 DEF TypeOK
    <3>2. EndTaskIn(queue, cpu[n][k])
      BY <3>1 DEF BusyNodesHaveEndTasks
    <3> QED BY <2>2, <3>1, <3>2, EndTaskKept
  <2> QED BY <2>1, <2>2
<1>6. ASSUME NEW n \in Node, sendGap'[n] > now'
      PROVE  EndTaskIn(queue', sendGap'[n])
  <2>1. CASE started /\ sendGap'[n] = now' + conf.g
    BY <1>2, <1>3, <2>1
  <2>2. CASE sendGap'[n] = sendGap[n]
    <3>1. sendGap[n] \in Nat /\ sendGap[n] > now' /\ sendGap[n] > now
      BY <1>1, <1>6, <2>2 DEF TypeOK
    <3>2. EndTaskIn(queue, sendGap[n])
      BY <3>1 DEF BusyNodesHaveEndTasks
    <3> QED BY <2>2, <3>1, <3>2, EndTaskKept
  <2> QED BY <2>1, <2>2
<1> QED BY <1>1, <1>4, <1>5, <1>6 DEF BusyNodesHaveEndTasks

(***************************************************************************)
(* The invariant after any iteration that pops t, marks busy, extends the  *)
(* timelines by what it started, if anything, and schedules.               *)
(***************************************************************************)
LEMMA EngineStep ==
  ASSUME IInv, NEW t, Pop(t), NEW reqs \in Asks(t),
         NEW own \in SUBSET Task, \A u \in own : u.time >= now',
         NEW again \in SUBSET {t}, Schedule(t, own, reqs, again),
         NEW busy, MarkIdle(t, busy),
         NEW started \in BOOLEAN, busy = {} \/ started,
         started => EndTaskIn(own, now' + LaterOf(conf.o, conf.g)),
         \A n \in Node : \A k \in Thread :
           cpu'[n][k] = cpu[n][k] \/ (started /\ cpu'[n][k] = now' + conf.o),
         \A n \in Node : sendGap'[n] = sendGap[n] \/ (started /\ sendGap'[n] = now' + conf.g),
         cpu' \in [Node -> [Thread -> Nat]],
         sendGap' \in [Node -> Nat], recvGap' \in [Node -> Nat],
         worked' \subseteq Node, finished' \subseteq Node, failures' \subseteq Node,
         totalTime' \in Nat
  PROVE  IInv'
<1> USE DEF IInv
<1>1. t \in Task /\ conf' = conf /\ Node' = Node /\ Thread' = Thread /\ Task' = Task /\ now' \in Nat
  BY PopClock DEF Node, Thread, Task
<1>2. /\ queue' \subseteq Task /\ nextSeq' \in Nat /\ NoTimewarp'
      /\ \A u \in queue : u # t => u \in queue'
      /\ \A u \in own : u.type \in {"SendEnd", "RecvEnd"} => u \in queue'
  BY ScheduleQueue
<1>3. /\ pending' \in [Node -> BOOLEAN] /\ count' \in Int /\ CountMatchesPending'
      /\ status' \in {"running", "limit", "done"} /\ LoopGoesOn'
  BY <1>1, ScheduleIdle
<1>4. started => EndTaskIn(queue', now' + LaterOf(conf.o, conf.g))
  BY <1>2 DEF EndTaskIn
<1>5. BusyNodesHaveEndTasks'
  BY <1>2, <1>4, BusyStep
<1>6. wasIdle' \in [Node -> Int]
  <2>1. conf.parallelism \in Int /\ \A n \in Node : wasIdle[n] \in Int
    BY ConfType DEF TypeOK
  <2> QED BY <2>1 DEF MarkIdle
<1>7. TypeOK'
  BY <1>1, <1>2, <1>3, <1>6 DEF TypeOK
<1>8. EmptyPopOnlyWithoutCosts'
  BY <1>3 DEF EmptyPopOnlyWithoutCosts
<1> QED BY <1>2, <1>3, <1>5, <1>7, <1>8

LEMMA PassStep ==
  ASSUME IInv, NEW t, Pop(t), NEW reqs \in Asks(t),
         NEW own \in SUBSET Task, \A u \in own : u.time >= now',
         NEW again \in SUBSET {t}, Schedule(t, own, reqs, again),
         MarkIdle(t, {}), UNCHANGED timeline
  PROVE  IInv'
<1>1. TypeOK
  BY DEF IInv
<1>2. UNCHANGED <<cpu, sendGap, recvGap, worked, finished, failures, totalTime>>
  BY DEF timeline
<1>3. /\ cpu' \in [Node -> [Thread -> Nat]] /\ sendGap' \in [Node -> Nat]
      /\ recvGap' \in [Node -> Nat] /\ totalTime' \in Nat
      /\ worked' \subseteq Node /\ finished' \subseteq Node /\ failures' \subseteq Node
  BY <1>1, <1>2 DEF TypeOK
<1>4. /\ \A n \in Node : \A k \in Thread : cpu'[n][k] = cpu[n][k]
      /\ \A n \in Node : sendGap'[n] = sendGap[n]
  BY <1>2
<1> DEFINE started == FALSE
<1>5. started \in BOOLEAN /\ ~ started
  OBVIOUS
<1> HIDE DEF started
<1> QED BY <1>3, <1>4, <1>5, EngineStep

(* An operation that starts at node n now, and ends with task u. *)
LEMMA StartStep ==
  ASSUME IInv, NEW t, Pop(t), NEW reqs \in Asks(t), NEW n \in Node,
         Occupy(n), NEW type \in {"SendEnd", "RecvEnd"},
         Schedule(t, {EndTask(t, type)}, reqs, {}), MarkIdle(t, {n}),
         \/ sendGap' = [sendGap EXCEPT ![n] = now' + conf.g] /\ recvGap' = recvGap
         \/ recvGap' = [recvGap EXCEPT ![n] = now' + conf.g] /\ sendGap' = sendGap,
         UNCHANGED <<finished, failures, totalTime>>
  PROVE  IInv'
<1>1. TypeOK /\ NoTimewarp
  BY DEF IInv
<1>2. now' \in Nat /\ t \in Task /\ conf.o \in Nat /\ conf.g \in Nat
  BY <1>1, PopClock, ConfType
<1>3. LaterOf(conf.o, conf.g) \in Nat
  BY <1>2, LaterOfType
<1> DEFINE u == EndTask(t, type)
<1>4. u \in Task /\ u.type = type /\ u.time = now' + LaterOf(conf.o, conf.g)
  <2>1. now' + LaterOf(conf.o, conf.g) \in Nat
    BY <1>2, <1>3
  <2>2. type \in DOMAIN Priority
    BY DEF Priority
  <2> QED BY <1>2, <2>1, <2>2 DEF EndTask, Task
<1>5. EndTaskIn({u}, now' + LaterOf(conf.o, conf.g)) /\ \A v \in {u} : v.time >= now'
  BY <1>2, <1>3, <1>4 DEF EndTaskIn
<1>6. /\ cpu' \in [Node -> [Thread -> Nat]]
      /\ \A m \in Node : \A j \in Thread : cpu'[m][j] = cpu[m][j] \/ cpu'[m][j] = now' + conf.o
  <2>1. PICK k \in Thread : cpu' = [cpu EXCEPT ![n][k] = now' + conf.o]
    BY DEF Occupy
  <2>2. cpu \in [Node -> [Thread -> Nat]] /\ now' + conf.o \in Nat
    BY <1>1, <1>2 DEF TypeOK
  <2>3. cpu' \in [Node -> [Thread -> Nat]]
    BY <2>1, <2>2
  <2>4. ASSUME NEW m \in Node, NEW j \in Thread
        PROVE  cpu'[m][j] = cpu[m][j] \/ cpu'[m][j] = now' + conf.o
    BY <2>1, <2>2
  <2> QED BY <2>3, <2>4
<1>7. /\ sendGap' \in [Node -> Nat] /\ recvGap' \in [Node -> Nat]
      /\ \A m \in Node : sendGap'[m] = sendGap[m] \/ sendGap'[m] = now' + conf.g
  <2>1. now' + conf.g \in Nat /\ sendGap \in [Node -> Nat] /\ recvGap \in [Node -> Nat]
    BY <1>1, <1>2 DEF TypeOK
  <2> QED BY <2>1
<1>8. /\ worked' \subseteq Node /\ finished' \subseteq Node /\ failures' \subseteq Node
      /\ totalTime' \in Nat
  BY <1>1 DEF TypeOK, Occupy
<1> DEFINE started == TRUE
<1>9. started \in BOOLEAN /\ started
  OBVIOUS
<1>10. {u} \in SUBSET Task
  BY <1>4
<1>11. Schedule(t, {u}, reqs, {}) /\ {} \in SUBSET {t}
  OBVIOUS
<1>12. {n} = {} \/ started
  BY <1>9
<1> HIDE DEF started, u
<1> QED BY <1>5, <1>6, <1>7, <1>8, <1>9, <1>10, <1>11, <1>12, EngineStep

-----------------------------------------------------------------------------
(* Where the tasks in the heap come from. *)

(* A message is one task after the other, with one number and one tag. *)
Successors == [SendStart |-> {"SendStart", "SendEnd"}, SendEnd |-> {"Msg"}, Msg |-> {"RecvStart"},
               RecvStart |-> {"RecvStart", "RecvEnd"}]

(* What an operation takes at either end, and a message until it arrives.  *)
Effort == LaterOf(conf.o, conf.g)

Remaining(type) ==
  CASE type = "SendStart"         -> 2 * Effort + conf.L
    [] type \in {"SendEnd", "Msg"} -> Effort + conf.L
    [] type = "RecvStart"         -> Effort
    [] OTHER                      -> 0

(* The earliest time a message can arrive; a busy node only delays it. *)
Arrival(u) == u.time + Remaining(u.type)

Succeeds(t, u) ==
  /\ t.type \in DOMAIN Successors /\ u.type \in Successors[t.type]
  /\ u.seq = t.seq /\ u.tag = t.tag /\ u.sender = t.sender /\ u.receiver = t.receiver
  /\ Arrival(u) >= Arrival(t)

(* The tasks somebody is notified of, and those that only pass. *)
Served(t, reqs, again) ==
  \/ SendStart(t, reqs) \/ RecvStart(t, reqs) \/ SendEnd(t, reqs)
  \/ Idle(t, reqs) \/ Timer(t, reqs) \/ Init(t, reqs)
  \/ Finish(t, reqs) \/ RecvEnd(t, reqs, again)

Passes(t) == DelaySend(t) \/ DelayRecv(t) \/ Msg(t) \/ Failure(t)

LEMMA StepSchedules ==
  ASSUME TypeOK, NEW t \in Task, NEW reqs, NEW again,
         Served(t, reqs, again) \/ (Passes(t) /\ reqs = <<>> /\ again = {})
  PROVE  /\ Pop(t)
         /\ \E own \in SUBSET Task, kept \in SUBSET {t} :
              /\ Schedule(t, own, reqs, kept)
              /\ kept = IF t.type = "RecvEnd" THEN again ELSE {}
              /\ IF t.type \in DOMAIN Successors THEN \E u \in own : own = {u} /\ Succeeds(t, u)
                 ELSE own = {}
<1>1. conf.L \in Nat /\ {} \in SUBSET Task /\ {} \in SUBSET {t} /\ t.time \in Nat
  BY ConfType DEF Task
<1> DEFINE Fine(own) == IF t.type \in DOMAIN Successors THEN \E u \in own : own = {u} /\ Succeeds(t, u)
                        ELSE own = {}
           Goal == /\ Pop(t)
                   /\ \E own \in SUBSET Task, kept \in SUBSET {t} :
                        /\ Schedule(t, own, reqs, kept)
                        /\ kept = IF t.type = "RecvEnd" THEN again ELSE {}
                        /\ Fine(own)
<1>2. ASSUME NEW type \in DOMAIN Priority, NEW at \in Nat,
             t.type \in DOMAIN Successors, type \in Successors[t.type],
             now' = t.time => at + Remaining(type) >= t.time + Remaining(t.type),
             Schedule(t, {[t EXCEPT !.type = type, !.time = at]}, reqs, {}), Pop(t)
      PROVE  Goal
  <2>1. PICK u \in Task : u = [t EXCEPT !.type = type, !.time = at]
    BY DEF Task
  <2>2. Succeeds(t, u)
    <3>1. now' = t.time
      BY <1>2 DEF Pop, Clock, Successors
    <3>2. u.type = type /\ u.time = at
      BY <2>1 DEF Task
    <3> QED BY <1>2, <2>1, <3>1, <3>2 DEF Succeeds, Task, Arrival
  <2>3. Fine({u}) /\ t.type # "RecvEnd"
    BY <1>2, <2>2 DEF Successors
  <2> HIDE DEF Fine
  <2> QED BY <1>1, <1>2, <2>1, <2>3
<1>3. ASSUME Schedule(t, {}, reqs, IF t.type = "RecvEnd" THEN again ELSE {}), Pop(t),
             t.type \notin DOMAIN Successors, again \subseteq {t} \/ t.type # "RecvEnd"
      PROVE  Goal
  <2>1. PICK kept \in SUBSET {t} : kept = IF t.type = "RecvEnd" THEN again ELSE {}
    BY <1>3
  <2>2. Fine({})
    BY <1>3
  <2> HIDE DEF Fine
  <2> QED BY <1>1, <1>3, <2>1, <2>2
<1> SUFFICES Goal
  OBVIOUS
<1> HIDE DEF Goal
<1>4. now' \in Nat => now' + LaterOf(conf.o, conf.g) \in Nat /\ now' + conf.L \in Nat
  <2>1. LaterOf(conf.o, conf.g) \in Nat
    BY ConfType, LaterOfType
  <2> QED BY <1>1, <2>1
<1>5. Pop(t) => now' \in Nat
  BY ClockType DEF Pop
<1>15. Effort \in Nat /\ Effort = LaterOf(conf.o, conf.g)
  BY ConfType, LaterOfType DEF Effort
<1>6. CASE SendStart(t, reqs)
  <2>1. PICK at \in Nat : at = now' + LaterOf(conf.o, conf.g)
    BY <1>4, <1>5, <1>6 DEF SendStart
  <2>2. Schedule(t, {[t EXCEPT !.type = "SendEnd", !.time = at]}, reqs, {})
    BY <1>6, <2>1 DEF SendStart, EndTask
  <2>3. /\ Pop(t) /\ "SendEnd" \in DOMAIN Priority
        /\ t.type \in DOMAIN Successors /\ "SendEnd" \in Successors[t.type]
    BY <1>6 DEF SendStart, Successors, Priority
  <2>4. now' = t.time => at + Remaining("SendEnd") >= t.time + Remaining(t.type)
    BY <1>1, <1>15, <1>6, <2>1 DEF Remaining, SendStart
  <2> QED BY <1>2, <2>2, <2>3, <2>4
<1>7. CASE RecvStart(t, reqs)
  <2>1. PICK at \in Nat : at = now' + LaterOf(conf.o, conf.g)
    BY <1>4, <1>5, <1>7 DEF RecvStart
  <2>2. Schedule(t, {[t EXCEPT !.type = "RecvEnd", !.time = at]}, reqs, {})
    BY <1>7, <2>1 DEF RecvStart, EndTask
  <2>3. /\ Pop(t) /\ "RecvEnd" \in DOMAIN Priority
        /\ t.type \in DOMAIN Successors /\ "RecvEnd" \in Successors[t.type]
    BY <1>7 DEF RecvStart, Successors, Priority
  <2>4. now' = t.time => at + Remaining("RecvEnd") >= t.time + Remaining(t.type)
    BY <1>1, <1>15, <1>7, <2>1 DEF Remaining, RecvStart
  <2> QED BY <1>2, <2>2, <2>3, <2>4
<1>8. CASE SendEnd(t, reqs)
  <2>1. PICK at \in Nat : at = now'
    BY <1>4, <1>5, <1>8 DEF SendEnd, Pass
  <2>2. Schedule(t, {[t EXCEPT !.type = "Msg", !.time = at]}, reqs, {})
    BY <1>8, <2>1 DEF SendEnd, Pass
  <2>3. /\ Pop(t) /\ "Msg" \in DOMAIN Priority
        /\ t.type \in DOMAIN Successors /\ "Msg" \in Successors[t.type]
    BY <1>8 DEF SendEnd, Pass, Successors, Priority
  <2>4. now' = t.time => at + Remaining("Msg") >= t.time + Remaining(t.type)
    BY <1>1, <1>15, <1>8, <2>1 DEF Remaining, SendEnd
  <2> QED BY <1>2, <2>2, <2>3, <2>4
<1>9. CASE Msg(t) /\ reqs = <<>>
  <2>1. PICK at \in Nat : at = now' + conf.L
    BY <1>4, <1>5, <1>9 DEF Msg, Pass
  <2>2. Schedule(t, {[t EXCEPT !.type = "RecvStart", !.time = at]}, reqs, {})
    BY <1>9, <2>1 DEF Msg, Pass
  <2>3. /\ Pop(t) /\ "RecvStart" \in DOMAIN Priority
        /\ t.type \in DOMAIN Successors /\ "RecvStart" \in Successors[t.type]
    BY <1>9 DEF Msg, Pass, Successors, Priority
  <2>4. now' = t.time => at + Remaining("RecvStart") >= t.time + Remaining(t.type)
    BY <1>1, <1>15, <1>9, <2>1 DEF Remaining, Msg
  <2> QED BY <1>2, <2>2, <2>3, <2>4
<1>10. CASE (DelaySend(t) \/ DelayRecv(t)) /\ reqs = <<>>
  <2>1. PICK n \in Node, gap \in Nat : Reschedule(t, n, gap)
    BY <1>10 DEF DelaySend, DelayRecv, TypeOK, Task
  <2>2. PICK k \in Thread :
          Schedule(t, {[t EXCEPT !.time = LaterOf(LaterOf(cpu[n][k], gap), now')]}, <<>>, {})
    BY <2>1 DEF Reschedule
  <2>3. cpu[n][k] \in Nat /\ now' \in Nat
    BY <1>5, <2>1 DEF TypeOK, Reschedule
  <2>4. PICK at \in Nat : at = LaterOf(LaterOf(cpu[n][k], gap), now')
    BY <2>3, LaterOfType
  <2>5. [t EXCEPT !.time = at] = [t EXCEPT !.type = t.type, !.time = at]
    BY DEF Task
  <2>6. Schedule(t, {[t EXCEPT !.type = t.type, !.time = at]}, reqs, {})
    BY <1>10, <2>2, <2>4, <2>5
  <2>7. t.type \in DOMAIN Priority /\ t.type \in DOMAIN Successors /\ t.type \in Successors[t.type]
    BY <1>10 DEF DelaySend, DelayRecv, Successors, Priority
  <2>8. at >= now'
    BY <2>3, <2>4 DEF LaterOf
  <2>9. now' = t.time => at + Remaining(t.type) >= t.time + Remaining(t.type)
    <3>1. Remaining(t.type) \in Nat
      BY <1>1, <1>15 DEF Remaining
    <3> QED BY <1>1, <2>8, <3>1
  <2> QED BY <1>2, <2>1, <2>6, <2>7, <2>9 DEF Reschedule
<1>11. CASE Idle(t, reqs) \/ Timer(t, reqs) \/ Init(t, reqs)
  BY <1>3, <1>11 DEF Idle, Timer, Init, Pass, Successors
<1>12. CASE Finish(t, reqs)
  BY <1>3, <1>12 DEF Finish, Successors
<1>13. CASE RecvEnd(t, reqs, again)
  BY <1>3, <1>13 DEF RecvEnd, Pass, Successors
<1>14. CASE Failure(t) /\ reqs = <<>>
  BY <1>3, <1>14 DEF Failure, Successors
<1> QED BY <1>6, <1>7, <1>8, <1>9, <1>10, <1>11, <1>12, <1>13, <1>14 DEF Served, Passes

(***************************************************************************)
(* What is new in the heap is the next task of a message, a request, or    *)
(* the failure the fault injector makes of either.  A message that is      *)
(* handed on stays, as all other tasks do.                                 *)
(***************************************************************************)
LEMMA TaskOrigin ==
  ASSUME TypeOK, NEW t \in Ready, NEW reqs, NEW again,
         Served(t, reqs, again) \/ (Passes(t) /\ reqs = <<>> /\ again = {})
  PROVE  \A u \in queue' :
           \/ u \in Ready /\ (u # t \/ (t.type = "RecvEnd" /\ again = {t}))
           \/ Succeeds(t, u) /\ u \in Admitted(u)
           \/ \E i \in DOMAIN reqs : /\ reqs[i].type # "Idle" /\ u \in Admitted(u)
                                     /\ u = Numbered(reqs[i], FirstSeq + i - 1)
           \/ u.type = "Failure" /\ u.receiver \in conf.failed
<1>1. t \in Task
  BY ReadyType
<1>2. PICK own \in SUBSET Task, kept \in SUBSET {t} :
        /\ Schedule(t, own, reqs, kept)
        /\ kept = IF t.type = "RecvEnd" THEN again ELSE {}
        /\ IF t.type \in DOMAIN Successors THEN \E u \in own : own = {u} /\ Succeeds(t, u)
           ELSE own = {}
  BY <1>1, StepSchedules
<1>3. queue' = (Ready \ {t}) \cup AllAdmitted(own) \cup Requested(reqs) \cup kept
  BY <1>2 DEF Schedule
<1>4. ASSUME NEW v, NEW u \in Admitted(v)
      PROVE  (u = v /\ u \in Admitted(u)) \/ (u = [v EXCEPT !.type = "Failure"] /\ v.receiver \in conf.failed)
  BY DEF Admitted
<1>5. ASSUME NEW u \in AllAdmitted(own)
      PROVE  (Succeeds(t, u) /\ u \in Admitted(u)) \/ (u.type = "Failure" /\ u.receiver \in conf.failed)
  <2>1. PICK v \in own : u \in Admitted(v)
    BY <1>5 DEF AllAdmitted
  <2>2. v \in Task /\ Succeeds(t, v)
    BY <1>2, <2>1
  <2> QED BY <1>4, <2>1, <2>2 DEF Task
<1>6. ASSUME NEW u \in Requested(reqs)
      PROVE  \/ \E i \in DOMAIN reqs : /\ reqs[i].type # "Idle" /\ u \in Admitted(u)
                                       /\ u = Numbered(reqs[i], FirstSeq + i - 1)
             \/ u.type = "Failure" /\ u.receiver \in conf.failed
  <2>1. PICK i \in DOMAIN reqs : reqs[i].type # "Idle" /\ u \in Admitted(Numbered(reqs[i], FirstSeq + i - 1))
    BY <1>6 DEF Requested
  <2>2. PICK v : v = Numbered(reqs[i], FirstSeq + i - 1)
    OBVIOUS
  <2> QED BY <1>4, <2>1, <2>2 DEF Numbered
<1>7. ASSUME NEW u \in kept
      PROVE  u \in Ready /\ t.type = "RecvEnd" /\ again = {t}
  BY <1>2, <1>7
<1> QED BY <1>3, <1>5, <1>6, <1>7

-----------------------------------------------------------------------------
(* The initial state and the steps of the open engine. *)

LEMMA InitInvariant ==
  ASSUME NEW first \in Nat, QStart(first)
  PROVE  IInv
<1> DEFINE init(n) == [type |-> "Init", tag |-> "INIT", time |-> 0, seq |-> first + n,
                       sender |-> n, receiver |-> n]
<1>1. conf.P \in Nat \ {0} /\ conf.parallelism \in Nat \ {0} /\ conf.o \in Nat /\ conf.g \in Nat
  BY ConfigurationsAssumption DEF QStart, IsConfiguration
<1>2. ASSUME NEW n \in Node
      PROVE  init(n) \in Task
  BY <1>1, <1>2 DEF Node, Task, Priority, TagValue
<1>3. {init(n) : n \in Node} \in SUBSET Task
  BY <1>2
<1>4. queue = AllAdmitted({init(n) : n \in Node})
  BY DEF QStart
<1>5. queue \subseteq Task /\ \A u \in queue : u.time = 0
  BY <1>3, <1>4, AllAdmittedType
<1>6. queue # {}
  <2>1. 0 \in Node
    BY <1>1 DEF Node
  <2>2. init(0) \in {init(n) : n \in Node}
    BY <2>1
  <2>3. Admitted(init(0)) # {}
    BY DEF Admitted
  <2> QED BY <1>4, <2>2, <2>3 DEF AllAdmitted
<1>7. TypeOK
  BY <1>1, <1>5 DEF QStart, TypeOK
<1>8. NoTimewarp
  BY <1>5 DEF QStart, NoTimewarp, Clock
<1>9. CountMatchesPending
  <2>1. {n \in Node : pending[n]} = {}
    BY DEF QStart
  <2> QED BY <2>1, FS_EmptySet DEF QStart, CountMatchesPending
<1>10. BusyNodesHaveEndTasks
  BY DEF QStart, BusyNodesHaveEndTasks
<1>11. LoopGoesOn /\ EmptyPopOnlyWithoutCosts
  BY <1>6 DEF QStart, LoopGoesOn, EmptyPopOnlyWithoutCosts
<1> QED BY <1>7, <1>8, <1>9, <1>10, <1>11 DEF IInv

(***************************************************************************)
(* With costs the heap is never empty while a request is pending.  If it   *)
(* were, no node would have an end task, so every node would have been     *)
(* idle and free now, and the first pending one would be delivered.        *)
(***************************************************************************)
LEMMA EmptyPopWithoutCosts ==
  ASSUME IInv, EmptyPop
  PROVE  conf.o = 0 /\ conf.g = 0
<1> USE DEF IInv
<1> DEFINE able == {m \in Node : Deliverable(m)}
<1>1. conf.o \in Nat /\ conf.g \in Nat /\ conf.parallelism \in Nat \ {0} /\ conf.P \in Nat \ {0}
  BY ConfType
<1>2. SUFFICES ASSUME conf.o + conf.g > 0 PROVE FALSE
  BY <1>1
<1>3. queue = {} /\ Ready = {} /\ count > 0
  BY ReadyType DEF EmptyPop, LoopGoesOn
<1>4. \A at : ~ EndTaskIn(queue, at)
  BY <1>3 DEF EndTaskIn
<1>5. ASSUME NEW n \in Node, pending[n]
      PROVE  Deliverable(n)
  <2>1. wasIdle[n] # 0 /\ ~ (sendGap[n] > now)
    BY <1>1, <1>2, <1>4 DEF BusyNodesHaveEndTasks
  <2>2. 1 \in Thread /\ ~ (cpu[n][1] > now)
    BY <1>1, <1>4 DEF BusyNodesHaveEndTasks, Thread
  <2>3. sendGap[n] \in Nat /\ cpu[n][1] \in Nat /\ now \in Nat
    BY <2>2 DEF TypeOK
  <2> QED BY <1>5, <2>1, <2>2, <2>3 DEF Deliverable, CpuFree
<1>6. able = {n \in Node : pending[n]}
  BY <1>5 DEF Deliverable
<1>7. count = Cardinality(able) /\ IsFiniteSet(able) /\ Cardinality(able) \in Nat
  <2>1. able \subseteq Node
    OBVIOUS
  <2> QED BY <1>6, <2>1, NodeSets DEF CountMatchesPending
<1>8. PICK n \in Node : n \in able
  BY <1>3, <1>7, FS_EmptySet
<1>9. Before(n, able) < count
  <2>1. IsFiniteSet(able \ {n}) /\ Cardinality(able \ {n}) = Cardinality(able) - 1
    BY <1>7, <1>8, FS_RemoveElement
  <2>2. {m \in able : m < n} \in SUBSET (able \ {n})
    BY <1>1, <1>8 DEF Node
  <2>3. Cardinality({m \in able : m < n}) <= Cardinality(able \ {n})
    BY <2>1, <2>2, FS_Subset
  <2>4. Before(n, able) \in Nat
    BY <1>8, NodeSets
  <2> HIDE DEF able
  <2>5. Before(n, able) <= Cardinality(able) - 1
    BY <2>1, <2>3 DEF Before
  <2> QED BY <1>7, <2>4, <2>5
<1>10. NextTimestamp
  BY <1>3 DEF NextTimestamp
<1>11. n \in Delivered
  BY <1>8, <1>9, <1>10 DEF Delivered
<1>12. IdleTask(n) \in Ready
  BY <1>11 DEF Ready
<1> QED BY <1>3, <1>12

(* Every step of the open engine preserves the invariant. *)
LEMMA StepInvariant ==
  ASSUME IInv, [OpenNext]_qvars
  PROVE  IInv'
<1>1. TypeOK /\ NoTimewarp /\ conf.L \in Nat
  BY ConfType DEF IInv
<1>2. ASSUME NEW t \in Ready, NEW reqs \in Asks(t), React(t, reqs)
      PROVE  IInv'
  <2>1. Pop(t) /\ t \in Task /\ now' = Clock(t) /\ now' \in Nat
    <3>1. Pop(t)
      BY <1>2 DEF React, SendStart, RecvStart, SendEnd, RecvEnd, Idle, Timer, Init, Finish, Pass
    <3> QED BY <1>1, <3>1, PopClock
  <2>2. t.sender \in Node /\ t.receiver \in Node
    BY <2>1 DEF Task
  <2>3. {} \in SUBSET {t} /\ {} \in SUBSET Task
    OBVIOUS
  <2>4. CASE SendStart(t, reqs)
    BY <1>2, <2>1, <2>2, <2>4, StartStep DEF SendStart
  <2>5. CASE RecvStart(t, reqs)
    BY <1>2, <2>1, <2>2, <2>5, StartStep DEF RecvStart
  <2>6. CASE SendEnd(t, reqs)
    <3> DEFINE m == [t EXCEPT !.type = "Msg", !.time = now']
    <3>1. m \in Task /\ m.time = now'
      BY <2>1 DEF Task, Priority
    <3>2. {m} \in SUBSET Task /\ \A u \in {m} : u.time >= now'
      BY <2>1, <3>1
    <3>3. Schedule(t, {m}, reqs, {}) /\ MarkIdle(t, {}) /\ UNCHANGED timeline
      BY <2>6 DEF SendEnd, Pass
    <3> HIDE DEF m
    <3> QED BY <1>2, <2>1, <2>3, <3>2, <3>3, PassStep
  <2>7. CASE Idle(t, reqs) \/ Timer(t, reqs) \/ Init(t, reqs)
    <3>1. Pass(t, {}, reqs, {})
      BY <2>7 DEF Idle, Timer, Init
    <3> QED BY <1>2, <2>1, <2>3, <3>1, PassStep DEF Pass
  <2>8. CASE Finish(t, reqs)
    <3>1. /\ Schedule(t, {}, reqs, {}) /\ MarkIdle(t, {})
          /\ UNCHANGED <<cpu, sendGap, recvGap, worked, failures>>
          /\ finished' \subseteq Node /\ totalTime' \in Nat
      BY <1>1, <2>2, <2>8 DEF Finish, TypeOK, LaterOf
    <3>2. /\ cpu' \in [Node -> [Thread -> Nat]] /\ sendGap' \in [Node -> Nat]
          /\ recvGap' \in [Node -> Nat]
          /\ worked' \subseteq Node /\ failures' \subseteq Node
          /\ \A n \in Node : \A k \in Thread : cpu'[n][k] = cpu[n][k]
          /\ \A n \in Node : sendGap'[n] = sendGap[n]
      BY <1>1, <3>1 DEF TypeOK
    <3> DEFINE started == FALSE
    <3>3. started \in BOOLEAN /\ ~ started
      OBVIOUS
    <3> HIDE DEF started
    <3> QED BY <1>2, <2>1, <2>3, <3>1, <3>2, <3>3, EngineStep
  <2>9. CASE \E again \in SUBSET {t} : RecvEnd(t, reqs, again)
    <3>1. PICK again \in SUBSET {t} : RecvEnd(t, reqs, again)
      BY <2>9
    <3>2. Pass(t, {}, reqs, again)
      BY <3>1 DEF RecvEnd
    <3> QED BY <1>2, <2>1, <2>3, <3>1, <3>2, PassStep DEF Pass
  <2> QED BY <1>2, <2>4, <2>5, <2>6, <2>7, <2>8, <2>9 DEF React
<1>3. ASSUME NEW t \in Ready, Silent(t)
      PROVE  IInv'
  <2>1. Pop(t) /\ t \in Task /\ now' = Clock(t) /\ now' \in Nat /\ <<>> \in Asks(t)
    <3>1. Pop(t)
      BY <1>3 DEF Silent, DelaySend, DelayRecv, Reschedule, Msg, Pass, Failure, ThrowFinish
    <3> QED BY <1>1, <3>1, PopClock, NoRequests
  <2>2. t.sender \in Node /\ t.receiver \in Node /\ t.time \in Nat
    BY <2>1 DEF Task
  <2>3. {} \in SUBSET {t} /\ {} \in SUBSET Task
    OBVIOUS
  <2>4. ASSUME NEW n \in Node, NEW gap \in Nat, Reschedule(t, n, gap)
        PROVE  IInv'
    <3>1. PICK k \in Thread :
            Schedule(t, {[t EXCEPT !.time = LaterOf(LaterOf(cpu[n][k], gap), now')]}, <<>>, {})
      BY <2>4 DEF Reschedule
    <3> DEFINE at == LaterOf(LaterOf(cpu[n][k], gap), now')
               u == [t EXCEPT !.time = at]
    <3>2. at \in Nat /\ at >= now'
      <4>1. cpu[n][k] \in Nat
        BY <1>1 DEF TypeOK
      <4> QED BY <2>1, <2>4, <4>1, LaterOfType
    <3>3. {u} \in SUBSET Task /\ \A v \in {u} : v.time >= now'
      <4> HIDE DEF at
      <4> QED BY <2>1, <3>2 DEF Task
    <3>4. MarkIdle(t, {}) /\ UNCHANGED timeline
      BY <2>4 DEF Reschedule
    <3>5. Schedule(t, {u}, <<>>, {})
      BY <3>1
    <3> HIDE DEF u
    <3> QED BY <2>1, <2>3, <3>3, <3>4, <3>5, PassStep
  <2>5. CASE DelaySend(t)
    BY <1>1, <2>2, <2>4, <2>5 DEF DelaySend, TypeOK
  <2>6. CASE DelayRecv(t)
    BY <1>1, <2>2, <2>4, <2>6 DEF DelayRecv, TypeOK
  <2>7. CASE Msg(t)
    <3> DEFINE m == [t EXCEPT !.type = "RecvStart", !.time = now' + conf.L]
    <3>1. now' + conf.L \in Nat /\ now' + conf.L >= now'
      BY <1>1, <2>1
    <3>2. {m} \in SUBSET Task /\ \A u \in {m} : u.time >= now'
      BY <2>1, <3>1 DEF Task, Priority
    <3>3. Schedule(t, {m}, <<>>, {}) /\ MarkIdle(t, {}) /\ UNCHANGED timeline
      BY <2>7 DEF Msg, Pass
    <3> HIDE DEF m
    <3> QED BY <2>1, <2>3, <3>2, <3>3, PassStep
  <2>8. CASE Failure(t)
    <3>1. /\ Schedule(t, {}, <<>>, {}) /\ MarkIdle(t, {})
          /\ UNCHANGED <<cpu, sendGap, recvGap, worked, finished>>
          /\ failures' \subseteq Node /\ totalTime' \in Nat
      BY <1>1, <2>2, <2>8 DEF Failure, TypeOK, LaterOf
    <3>2. /\ cpu' \in [Node -> [Thread -> Nat]] /\ sendGap' \in [Node -> Nat]
          /\ recvGap' \in [Node -> Nat]
          /\ worked' \subseteq Node /\ finished' \subseteq Node
          /\ \A n \in Node : \A k \in Thread : cpu'[n][k] = cpu[n][k]
          /\ \A n \in Node : sendGap'[n] = sendGap[n]
      BY <1>1, <3>1 DEF TypeOK
    <3> DEFINE started == FALSE
    <3>3. started \in BOOLEAN /\ ~ started
      OBVIOUS
    <3> HIDE DEF started
    <3> QED BY <2>1, <2>3, <3>1, <3>2, <3>3, EngineStep
  <2>9. CASE ThrowFinish(t)
    <3>1. now' = now /\ conf' = conf /\ status' = "thrown"
      BY <2>1, <2>9 DEF ThrowFinish, Clock, Pop
    <3>2. UNCHANGED <<queue, nextSeq, pending, count, wasIdle, cpu, sendGap, recvGap,
                      worked, finished, failures, totalTime>>
      BY <2>9 DEF ThrowFinish, idle, timeline
    <3> QED BY <3>1, <3>2 DEF IInv, TypeOK, NoTimewarp, Clock, CountMatchesPending,
              BusyNodesHaveEndTasks, EndTaskIn, LoopGoesOn, EmptyPopOnlyWithoutCosts,
              Node, Thread, Task
  <2> QED BY <1>3, <2>5, <2>6, <2>7, <2>8, <2>9 DEF Silent
<1>4. CASE EmptyPop
  <2>1. conf.o = 0 /\ conf.g = 0
    BY <1>4, EmptyPopWithoutCosts
  <2>2. UNCHANGED <<conf, queue, now, nextSeq, pending, count, wasIdle, cpu, sendGap, recvGap,
                    worked, finished, failures, totalTime>> /\ status' = "aborted"
    BY <1>4 DEF EmptyPop, idle, timeline
  <2> QED BY <2>1, <2>2 DEF IInv, TypeOK, NoTimewarp, Clock, CountMatchesPending,
            BusyNodesHaveEndTasks, EndTaskIn, LoopGoesOn, EmptyPopOnlyWithoutCosts,
            Node, Thread, Task
<1>6. ASSUME NEW t \in Ready, NEW how \in {"thrown", "asserted"}, Leave(t, how)
      PROVE  IInv'
  <2>1. /\ Pop(t) /\ MarkIdle(t, {}) /\ t.type # "Finish" /\ status' = how
        /\ UNCHANGED <<queue, nextSeq, pending, count, cpu, sendGap, recvGap, worked,
                       finished, failures, totalTime>>
    BY <1>6 DEF Leave, timeline
  <2>2. /\ conf' = conf /\ now' \in Nat /\ now \in Nat /\ now' >= now /\ now' = Clock(t)
        /\ \A u \in queue : u.type # "Finish" => u.time >= now'
        /\ Node' = Node /\ Thread' = Thread /\ Task' = Task
    BY <1>1, <2>1, PopClock, ReadyType DEF TypeOK, Node, Thread, Task
  <2>3. /\ wasIdle' \in [Node -> Int]
        /\ \A n \in Node : wasIdle'[n] # conf.parallelism => now' = now /\ wasIdle'[n] = wasIdle[n]
    <3>1. conf.parallelism \in Int /\ \A n \in Node : wasIdle[n] \in Int
      BY <1>1, ConfType DEF TypeOK
    <3> QED BY <2>1, <2>2, <3>1 DEF MarkIdle
  <2>4. TypeOK'
    BY <1>1, <2>1, <2>2, <2>3 DEF TypeOK
  <2>5. NoTimewarp'
    BY <2>1, <2>2 DEF NoTimewarp, Clock
  <2>6. CountMatchesPending'
    BY <2>1, <2>2 DEF IInv, CountMatchesPending
  <2>7. BusyNodesHaveEndTasks'
    <3>1. \A n \in Node : sendGap[n] \in Nat /\ \A k \in Thread : cpu[n][k] \in Nat
      BY <1>1 DEF TypeOK
    <3> QED BY <2>1, <2>2, <2>3, <3>1 DEF IInv, BusyNodesHaveEndTasks, EndTaskIn
  <2> QED BY <2>1, <2>4, <2>5, <2>6, <2>7 DEF IInv, LoopGoesOn, EmptyPopOnlyWithoutCosts
<1>5. CASE UNCHANGED qvars
  BY <1>5 DEF qvars, idle, timeline, IInv, TypeOK, NoTimewarp, Clock, CountMatchesPending,
       BusyNodesHaveEndTasks, EndTaskIn, LoopGoesOn, EmptyPopOnlyWithoutCosts,
       Node, Thread, Task
<1> QED BY <1>2, <1>3, <1>4, <1>5, <1>6 DEF OpenNext, Stopped

-----------------------------------------------------------------------------
(* The theorems. *)

(* The first queue of the program starts with the number 0. *)
LEMMA FirstStart == QInit => QStarted
<1> SUFFICES ASSUME QInit PROVE QStart(0)
  BY DEF QStarted
<1>1. conf.P \in Nat /\ \A n \in Node : 0 + n = n
  BY ConfigurationsAssumption DEF QInit, IsConfiguration, Node
<1>2. {[type |-> "Init", tag |-> "INIT", time |-> 0, seq |-> 0 + n, sender |-> n, receiver |-> n] : n \in Node}
        = {[type |-> "Init", tag |-> "INIT", time |-> 0, seq |-> n, sender |-> n, receiver |-> n] : n \in Node}
  BY <1>1
<1>3. 0 + conf.P = conf.P
  BY <1>1
<1> QED BY <1>2, <1>3 DEF QInit, QStart

(* What the run `engine` checks, with its bounds on the requests, are      *)
(* behaviours of the open engine: every theorem about OpenSpec is one      *)
(* about QSpec.                                                            *)
LEMMA ReactionsAreAsked ==
  ASSUME NEW t \in Ready, TypeOK, NEW reqs \in Reactions(t)
  PROVE  reqs \in Asks(t)
<1>1. PICK k \in 0 .. MaxRequests :
        reqs \in [1 .. k -> Request(NotifiedNode(t), Clock(t))]
  BY DEF Reactions
<1>2. Clock(t) \in Nat /\ NotifiedNode(t) \in Node
  BY ReadyType, ClockType
<1>3. ASSUME NEW r \in Request(NotifiedNode(t), Clock(t))
      PROVE  r \in Demand(NotifiedNode(t), Clock(t))
  BY <1>2, BoundsAssumption DEF Request, Demand, TagValue
<1>4. k \in Nat
  BY BoundsAssumption
<1> QED BY <1>1, <1>3, <1>4 DEF Asks

THEOREM BoundedIsOpen == QSpec => OpenSpec
<1>1. QInit => QStarted
  BY FirstStart
<1>2. QStarted => IInv
  BY InitInvariant DEF QStarted
<1>3. IInv /\ [QNext]_qvars => [OpenNext]_qvars
  BY ReactionsAreAsked DEF IInv, QNext, OpenNext
<1>4. IInv /\ [QNext]_qvars => IInv'
  BY <1>3, StepInvariant
<1> QED BY <1>1, <1>2, <1>3, <1>4, PTL DEF QSpec, OpenSpec

(* The inductive invariant holds in every state of every run of the engine *)
(* (TaskQueue::run), for every command line and every set of phases.       *)
THEOREM Invariance == OpenSpec => []IInv
<1>1. QStarted => IInv
  BY InitInvariant DEF QStarted
<1>2. IInv /\ [OpenNext]_qvars => IInv'
  BY StepInvariant
<1> QED BY <1>1, <1>2, PTL DEF OpenSpec

(* Every variable keeps its type. *)
THEOREM TypeCorrect == OpenSpec => []TypeOK
<1>1. IInv => TypeOK
  BY DEF IInv
<1> QED BY <1>1, Invariance, PTL

(* The assertion of TaskQueue::progress never fails. *)
THEOREM NeverTimewarp == OpenSpec => []NoTimewarp
<1>1. IInv => NoTimewarp
  BY DEF IInv
<1> QED BY <1>1, Invariance, PTL

(* IdleTracker::count counts the pending nodes. *)
THEOREM CountCorrect == OpenSpec => []CountMatchesPending
<1>1. IInv => CountMatchesPending
  BY DEF IInv
<1> QED BY <1>1, Invariance, PTL

(* A node that is or was busy in this timestamp has its end task ahead. *)
THEOREM BusyCovered == OpenSpec => []BusyNodesHaveEndTasks
<1>1. IInv => BusyNodesHaveEndTasks
  BY DEF IInv
<1> QED BY <1>1, Invariance, PTL

(* The assertion of TaskQueue::pop can only fail when o = g = 0. *)
THEOREM EmptyPopSafe == OpenSpec => []EmptyPopOnlyWithoutCosts
<1>1. IInv => EmptyPopOnlyWithoutCosts
  BY DEF IInv
<1> QED BY <1>1, Invariance, PTL

-----------------------------------------------------------------------------
(***************************************************************************)
(* The order of the heap is total: no two tasks in it have one sequence    *)
(* number, although a message keeps its number all its life, a combiner    *)
(* schedules a message again, and an IdleTask, the requests of a phase and *)
(* the tasks scheduled by execute() draw from one counter.                 *)
(***************************************************************************)

(* Sequence::next() was called once for every number in use. *)
NumbersDrawn == \A u \in queue : u.seq < nextSeq

Numbering == NumbersDrawn /\ TopIsUnique

-----------------------------------------------------------------------------
(* The nodes of a set are counted up in their order. *)
LEMMA BeforeCounts ==
  ASSUME TypeOK, NEW S \in SUBSET Node, NEW n \in S
  PROVE  /\ Before(n, S) < Cardinality(S)
         /\ \A m \in S : m < n => Before(m, S) < Before(n, S)
<1>1. ASSUME NEW m \in S, NEW T \in SUBSET Node, m \in T, {x \in S : x < m} \subseteq T
      PROVE  Before(m, S) < Cardinality(T)
  <2> DEFINE below == {x \in S : x < m}
  <2>1. IsFiniteSet(below) /\ IsFiniteSet(T) /\ Cardinality(below) \in Nat /\ Cardinality(T) \in Nat
    <3>1. below \subseteq Node
      OBVIOUS
    <3> QED BY <3>1, NodeSets
  <2>2. m \notin below
    <3>1. m \in Int
      BY ConfType DEF Node
    <3> QED BY <3>1
  <2>3. below \cup {m} \in SUBSET T
    BY <1>1
  <2>4. Before(m, S) = Cardinality(below)
    BY DEF Before
  <2> HIDE DEF below
  <2>5. Cardinality(below \cup {m}) = Cardinality(below) + 1
    BY <2>1, <2>2, FS_AddElement
  <2>6. Cardinality(below \cup {m}) <= Cardinality(T)
    BY <2>1, <2>3, FS_Subset
  <2> QED BY <2>1, <2>4, <2>5, <2>6
<1>2. Before(n, S) < Cardinality(S)
  BY <1>1
<1>3. ASSUME NEW m \in S, m < n
      PROVE  Before(m, S) < Before(n, S)
  <2> DEFINE T == {x \in S : x < n}
  <2>1. \A x \in S : x \in Int
    BY ConfType DEF Node
  <2>2. m \in T /\ {x \in S : x < m} \subseteq T /\ T \in SUBSET Node
    BY <1>3, <2>1
  <2>3. Before(n, S) = Cardinality(T)
    BY DEF Before
  <2> HIDE DEF T
  <2> QED BY <1>1, <2>2, <2>3
<1> QED BY <1>2, <1>3

(* The idle tasks get the numbers from nextSeq on, each its own. *)
LEMMA ReadyOrder ==
  ASSUME TypeOK, Numbering
  PROVE  /\ \A u \in Ready : u.seq < FirstSeq
         /\ \A u, v \in Ready : u.seq = v.seq => u = v
<1>1. Delivered \in SUBSET Node /\ Cardinality(Delivered) \in Nat /\ nextSeq \in Nat
  BY DeliveredType DEF TypeOK
<1>2. \A u \in queue : u.seq \in Nat /\ u.seq < nextSeq
  BY DEF Numbering, NumbersDrawn, TypeOK, Task
<1>3. \A n \in Delivered : /\ Before(n, Delivered) \in Nat
                           /\ Before(n, Delivered) < Cardinality(Delivered)
                           /\ IdleTask(n).seq = nextSeq + Before(n, Delivered)
  BY <1>1, DeliveredType, BeforeCounts DEF IdleTask
<1>4. \A m, n \in Delivered : Before(m, Delivered) = Before(n, Delivered) => m = n
  <2>1. SUFFICES ASSUME NEW m \in Delivered, NEW n \in Delivered, m # n
                 PROVE  Before(m, Delivered) # Before(n, Delivered)
    OBVIOUS
  <2>2. m \in Int /\ n \in Int
    BY <1>1, ConfType DEF Node
  <2>3. CASE m < n
    BY <1>1, <1>3, <2>3, BeforeCounts
  <2>4. CASE n < m
    BY <1>1, <1>3, <2>4, BeforeCounts
  <2> QED BY <2>1, <2>2, <2>3, <2>4
<1>5. ASSUME NEW u \in Ready
      PROVE  u.seq < FirstSeq
  <2>1. CASE u \in queue
    BY <1>1, <1>2, <2>1 DEF FirstSeq
  <2>2. CASE \E n \in Delivered : u = IdleTask(n)
    BY <1>1, <1>3, <2>2 DEF FirstSeq
  <2> QED BY <2>1, <2>2 DEF Ready
<1>6. ASSUME NEW u \in Ready, NEW v \in Ready, u.seq = v.seq
      PROVE  u = v
  <2>1. CASE u \in queue /\ v \in queue
    BY <1>6, <2>1 DEF Numbering, TopIsUnique
  <2>2. CASE \E n \in Delivered : u = IdleTask(n)
    <3>1. PICK n \in Delivered : u = IdleTask(n)
      BY <2>2
    <3>2. v \notin queue
      BY <1>1, <1>2, <1>3, <1>6, <3>1
    <3>3. PICK m \in Delivered : v = IdleTask(m)
      BY <3>2 DEF Ready
    <3>4. Before(m, Delivered) = Before(n, Delivered)
      BY <1>1, <1>3, <1>6, <3>1, <3>3
    <3> QED BY <1>4, <3>1, <3>3, <3>4
  <2>3. CASE u \in queue /\ \E n \in Delivered : v = IdleTask(n)
    BY <1>1, <1>2, <1>3, <1>6, <2>3
  <2> QED BY <2>1, <2>2, <2>3 DEF Ready
<1> QED BY <1>5, <1>6

(* A fault changes the kind of a task, or drops it, but never its number. *)
LEMMA AdmittedOrder ==
  ASSUME NEW t \in Task
  PROVE  /\ \A u \in Admitted(t) : u.seq = t.seq
         /\ \A u, v \in Admitted(t) : u = v
  BY DEF Admitted, Task

(* The requests of one notification are numbered in their order. *)
LEMMA RequestedOrder ==
  ASSUME TypeOK, NEW t \in Task, NEW reqs \in Asks(t)
  PROVE  /\ \A u \in Requested(reqs) : FirstSeq <= u.seq /\ u.seq < FirstSeq + Len(reqs)
         /\ \A u, v \in Requested(reqs) : u.seq = v.seq => u = v
<1>1. DOMAIN reqs = 1 .. Len(reqs) /\ Len(reqs) \in Nat /\ FirstSeq \in Nat
  BY AskType, DeliveredType
<1> DEFINE m(i) == Numbered(reqs[i], FirstSeq + i - 1)
<1>2. ASSUME NEW i \in DOMAIN reqs
      PROVE  /\ m(i) \in Task /\ m(i).seq = FirstSeq + i - 1
             /\ i \in Nat /\ i >= 1 /\ i <= Len(reqs)
  <2>1. i \in Nat /\ i >= 1 /\ i <= Len(reqs) /\ FirstSeq + i - 1 \in Nat
    BY <1>1
  <2>2. reqs[i] \in Demand(NotifiedNode(t), Clock(t))
    BY AskType
  <2>3. m(i) \in Task
    BY <2>1, <2>2, ClockType, DemandType
  <2> QED BY <2>1, <2>3 DEF Numbered
<1>3. \A u \in Requested(reqs) : \E i \in DOMAIN reqs : u \in Admitted(m(i))
  BY DEF Requested
<1> HIDE DEF m
<1>4. ASSUME NEW i \in DOMAIN reqs, NEW u \in Admitted(m(i))
      PROVE  u.seq = FirstSeq + i - 1
  BY <1>2, AdmittedOrder
<1>5. ASSUME NEW u \in Requested(reqs)
      PROVE  FirstSeq <= u.seq /\ u.seq < FirstSeq + Len(reqs)
  <2>1. PICK i \in DOMAIN reqs : u \in Admitted(m(i))
    BY <1>3
  <2> QED BY <1>1, <1>2, <1>4, <2>1
<1>6. ASSUME NEW u \in Requested(reqs), NEW v \in Requested(reqs), u.seq = v.seq
      PROVE  u = v
  <2>1. PICK i \in DOMAIN reqs : u \in Admitted(m(i))
    BY <1>3
  <2>2. PICK j \in DOMAIN reqs : v \in Admitted(m(j))
    BY <1>3
  <2>3. FirstSeq + i - 1 = FirstSeq + j - 1
    BY <1>4, <1>6, <2>1, <2>2
  <2>4. i = j
    BY <1>1, <1>2, <2>3
  <2> QED BY <1>2, <2>1, <2>2, <2>4, AdmittedOrder
<1> QED BY <1>5, <1>6

-----------------------------------------------------------------------------
(* One iteration: at most one task goes on with the number of the served. *)
LEMMA ScheduleOrder ==
  ASSUME TypeOK, Numbering, NEW t \in Ready, NEW reqs \in Asks(t),
         NEW own \in SUBSET Task, \A u \in own : u.seq = t.seq, \A u, v \in own : u = v,
         NEW again \in SUBSET {t}, own = {} \/ again = {}, Schedule(t, own, reqs, again)
  PROVE  Numbering'
<1> DEFINE left == Ready \ {t}
           goesOn == AllAdmitted(own) \cup again
<1>1. t \in Task /\ t.seq < FirstSeq /\ FirstSeq \in Nat /\ Len(reqs) \in Nat /\ t.seq \in Nat
  BY ReadyType, ReadyOrder, DeliveredType, AskType DEF Task
<1>2. \A u \in left : u.seq \in Nat /\ u.seq < FirstSeq /\ u.seq # t.seq
  BY ReadyType, ReadyOrder DEF Task
<1>3. \A u, v \in left : u.seq = v.seq => u = v
  BY ReadyOrder
<1>4. (\A u \in goesOn : u.seq = t.seq) /\ (\A u, v \in goesOn : u = v)
  <2>1. ASSUME NEW u \in AllAdmitted(own)
        PROVE  \E w \in own : u \in Admitted(w) /\ u.seq = w.seq
    BY AdmittedOrder DEF AllAdmitted
  <2>2. \A u, v \in AllAdmitted(own) : u = v
    BY <2>1, AdmittedOrder
  <2>3. own = {} => AllAdmitted(own) = {}
    BY DEF AllAdmitted
  <2> QED BY <2>1, <2>2, <2>3
<1>5. \A u \in Requested(reqs) :
        u.seq \in Nat /\ FirstSeq <= u.seq /\ u.seq < FirstSeq + Len(reqs)
  BY <1>1, RequestedOrder, RequestedType DEF Task
<1>6. \A u, v \in Requested(reqs) : u.seq = v.seq => u = v
  BY <1>1, RequestedOrder
<1>7. queue' = left \cup goesOn \cup Requested(reqs) /\ nextSeq' = FirstSeq + Len(reqs)
  BY DEF Schedule
<1> HIDE DEF left, goesOn
<1>8. NumbersDrawn'
  BY <1>1, <1>2, <1>4, <1>5, <1>7 DEF NumbersDrawn
<1>9. ASSUME NEW u \in queue', NEW v \in queue', u.seq = v.seq
      PROVE  u = v
  <2>1. CASE u \in left
    BY <1>1, <1>2, <1>3, <1>4, <1>5, <1>7, <1>9, <2>1
  <2>2. CASE u \in goesOn
    BY <1>1, <1>2, <1>4, <1>5, <1>7, <1>9, <2>2
  <2>3. CASE u \in Requested(reqs)
    BY <1>1, <1>2, <1>4, <1>5, <1>6, <1>7, <1>9, <2>3
  <2> QED BY <1>7, <2>1, <2>2, <2>3
<1> QED BY <1>8, <1>9 DEF Numbering, TopIsUnique

LEMMA InitNumbering ==
  ASSUME NEW first \in Nat, QStart(first)
  PROVE  Numbering
<1> DEFINE init(n) == [type |-> "Init", tag |-> "INIT", time |-> 0, seq |-> first + n,
                       sender |-> n, receiver |-> n]
<1>1. conf.P \in Nat \ {0}
  BY ConfigurationsAssumption DEF QStart, IsConfiguration
<1>2. ASSUME NEW n \in Node
      PROVE  init(n) \in Task /\ init(n).seq = first + n
  BY <1>1, <1>2 DEF Node, Task, Priority, TagValue
<1>3. queue = UNION {Admitted(t) : t \in {init(n) : n \in Node}} /\ nextSeq = first + conf.P
  BY DEF QStart, AllAdmitted
<1> HIDE DEF init
<1>4. \A u \in queue : \E n \in Node : u \in Admitted(init(n)) /\ u.seq = first + n
  BY <1>2, <1>3, AdmittedOrder
<1>5. NumbersDrawn
  BY <1>1, <1>3, <1>4 DEF NumbersDrawn, Node
<1>6. ASSUME NEW t \in queue, NEW u \in queue, t.seq = u.seq PROVE t = u
  <2>1. PICK n \in Node : t \in Admitted(init(n)) /\ t.seq = first + n
    BY <1>4
  <2>2. PICK m \in Node : u \in Admitted(init(m)) /\ u.seq = first + m
    BY <1>4
  <2>3. n = m
    <3>1. first + n = first + m
      BY <1>6, <2>1, <2>2
    <3>2. n \in Int /\ m \in Int
      BY <1>1 DEF Node
    <3> QED BY <3>1, <3>2
  <2> QED BY <1>2, <2>1, <2>2, <2>3, AdmittedOrder
<1> QED BY <1>5, <1>6 DEF Numbering, TopIsUnique

LEMMA StepNumbering ==
  ASSUME IInv, Numbering, [OpenNext]_qvars
  PROVE  Numbering'
<1>1. TypeOK /\ NoTimewarp /\ conf.L \in Nat /\ conf.o \in Nat /\ conf.g \in Nat
  BY ConfType DEF IInv
<1>2. ASSUME NEW t \in Ready, NEW reqs \in Asks(t), NEW u \in Task, u.seq = t.seq,
             Schedule(t, {u}, reqs, {})
      PROVE  Numbering'
  <2>1. {u} \in SUBSET Task /\ {} \in SUBSET {t} /\ (\A v \in {u} : v.seq = t.seq)
        /\ \A v, w \in {u} : v = w
    BY <1>2
  <2> QED BY <1>1, <1>2, <2>1, ScheduleOrder
<1>3. ASSUME NEW t \in Ready, NEW reqs \in Asks(t), NEW again \in SUBSET {t},
             Schedule(t, {}, reqs, again)
      PROVE  Numbering'
  <2>1. {} \in SUBSET Task /\ (\A v \in {} : v.seq = t.seq) /\ \A v, w \in {} : v = w
    OBVIOUS
  <2> QED BY <1>1, <1>3, <2>1, ScheduleOrder
<1>4. ASSUME NEW t \in Ready, Pop(t), NEW type \in DOMAIN Priority, NEW at \in Nat
      PROVE  [t EXCEPT !.type = type, !.time = at] \in Task
             /\ [t EXCEPT !.type = type, !.time = at].seq = t.seq
  BY <1>1, ReadyType DEF Task
<1>5. ASSUME NEW t \in Ready, NEW reqs \in Asks(t), React(t, reqs)
      PROVE  Numbering'
  <2>1. Pop(t) /\ now' \in Nat
    <3>1. Pop(t)
      BY <1>5 DEF React, SendStart, RecvStart, SendEnd, RecvEnd, Idle, Timer, Init, Finish, Pass
    <3> QED BY <1>1, <3>1, PopClock
  <2>2. now' + LaterOf(conf.o, conf.g) \in Nat
    <3>1. LaterOf(conf.o, conf.g) \in Nat
      BY <1>1, LaterOfType
    <3> QED BY <2>1, <3>1
  <2>3. {"SendEnd", "RecvEnd", "Msg"} \subseteq DOMAIN Priority
    BY DEF Priority
  <2>4. CASE SendStart(t, reqs)
    <3>1. Schedule(t, {EndTask(t, "SendEnd")}, reqs, {})
      BY <2>4 DEF SendStart
    <3>2. EndTask(t, "SendEnd") \in Task /\ EndTask(t, "SendEnd").seq = t.seq
      BY <1>4, <2>1, <2>2, <2>3 DEF EndTask
    <3> QED BY <1>2, <3>1, <3>2
  <2>5. CASE RecvStart(t, reqs)
    <3>1. Schedule(t, {EndTask(t, "RecvEnd")}, reqs, {})
      BY <2>5 DEF RecvStart
    <3>2. EndTask(t, "RecvEnd") \in Task /\ EndTask(t, "RecvEnd").seq = t.seq
      BY <1>4, <2>1, <2>2, <2>3 DEF EndTask
    <3> QED BY <1>2, <3>1, <3>2
  <2>6. CASE SendEnd(t, reqs)
    <3>1. Schedule(t, {[t EXCEPT !.type = "Msg", !.time = now']}, reqs, {})
      BY <2>6 DEF SendEnd, Pass
    <3> QED BY <1>2, <1>4, <2>1, <2>3, <3>1
  <2>7. CASE Idle(t, reqs) \/ Timer(t, reqs) \/ Init(t, reqs) \/ Finish(t, reqs)
    <3>1. Schedule(t, {}, reqs, {})
      BY <2>7 DEF Idle, Timer, Init, Finish, Pass
    <3> QED BY <1>3, <3>1
  <2>8. CASE \E again \in SUBSET {t} : RecvEnd(t, reqs, again)
    <3>1. PICK again \in SUBSET {t} : Schedule(t, {}, reqs, again)
      BY <2>8 DEF RecvEnd, Pass
    <3> QED BY <1>3, <3>1
  <2> QED BY <1>5, <2>4, <2>5, <2>6, <2>7, <2>8 DEF React
<1>6. ASSUME NEW t \in Ready, Silent(t)
      PROVE  Numbering'
  <2>1. t \in Task /\ <<>> \in Asks(t)
    BY <1>1, ReadyType, NoRequests
  <2>2. ASSUME NEW n \in Node, NEW gap \in Nat, Reschedule(t, n, gap)
        PROVE  Numbering'
    <3>1. now' \in Nat
      BY <1>1, <2>2, PopClock DEF Reschedule
    <3>2. PICK k \in Thread :
            Schedule(t, {[t EXCEPT !.time = LaterOf(LaterOf(cpu[n][k], gap), now')]}, <<>>, {})
      BY <2>2 DEF Reschedule
    <3> DEFINE at == LaterOf(LaterOf(cpu[n][k], gap), now')
               u == [t EXCEPT !.time = at]
    <3>3. at \in Nat
      <4>1. cpu[n][k] \in Nat
        BY <1>1 DEF TypeOK
      <4> QED BY <2>2, <3>1, <4>1, LaterOfType
    <3>4. Schedule(t, {u}, <<>>, {})
      BY <3>2
    <3> HIDE DEF at
    <3>5. u \in Task /\ u.seq = t.seq
      BY <2>1, <3>3 DEF Task
    <3> HIDE DEF u
    <3> QED BY <1>2, <2>1, <3>4, <3>5
  <2>3. CASE DelaySend(t)
    BY <1>1, <2>1, <2>2, <2>3 DEF DelaySend, TypeOK, Task
  <2>4. CASE DelayRecv(t)
    BY <1>1, <2>1, <2>2, <2>4 DEF DelayRecv, TypeOK, Task
  <2>5. CASE Msg(t)
    <3>1. Pop(t) /\ Schedule(t, {[t EXCEPT !.type = "RecvStart", !.time = now' + conf.L]}, <<>>, {})
      BY <2>5 DEF Msg, Pass
    <3>2. now' + conf.L \in Nat /\ "RecvStart" \in DOMAIN Priority
      BY <1>1, <3>1, PopClock DEF Priority
    <3> QED BY <1>2, <1>4, <2>1, <3>1, <3>2
  <2>6. CASE Failure(t)
    <3>1. Schedule(t, {}, <<>>, {})
      BY <2>6 DEF Failure
    <3> QED BY <1>3, <2>1, <3>1
  <2>7. CASE ThrowFinish(t)
    BY <2>7 DEF ThrowFinish, Numbering, NumbersDrawn, TopIsUnique
  <2> QED BY <1>6, <2>3, <2>4, <2>5, <2>6, <2>7 DEF Silent
<1>9. ASSUME NEW t \in Ready, NEW how, Leave(t, how)
      PROVE  Numbering'
  BY <1>9 DEF Leave, Numbering, NumbersDrawn, TopIsUnique
<1>7. CASE EmptyPop
  BY <1>7 DEF EmptyPop, Numbering, NumbersDrawn, TopIsUnique
<1>8. CASE UNCHANGED qvars
  BY <1>8 DEF qvars, Numbering, NumbersDrawn, TopIsUnique
<1> QED BY <1>5, <1>6, <1>7, <1>8, <1>9 DEF OpenNext, Stopped

(* Sequence numbers are unique among the tasks in the heap, so the order   *)
(* of TaskQueue never has to choose: a run is determined by its seed.      *)
THEOREM OrderIsTotal == OpenSpec => []TopIsUnique
<1>1. QStarted => Numbering
  BY InitNumbering DEF QStarted
<1>2. IInv /\ Numbering /\ [OpenNext]_qvars => Numbering'
  BY StepNumbering
<1>3. Numbering => TopIsUnique
  BY DEF Numbering
<1> QED BY <1>1, <1>2, <1>3, Invariance, PTL DEF OpenSpec

-----------------------------------------------------------------------------
(***************************************************************************)
(* LogP: no node does more than its threads can, and neither two sends nor *)
(* two receives of a node are within one gap.  The engine looks at the     *)
(* timelines, which hold the ends of the past; the property speaks of the  *)
(* tasks in the heap that end what is going on.                            *)
(***************************************************************************)
EndTypes == {"SendEnd", "RecvEnd"}

(* What node n is at work on. *)
Operations(n) == InProgress("SendEnd", n, conf.o) \cup InProgress("RecvEnd", n, conf.o)

(* When the operation with end task u started. *)
StartOf(u) == u.time - LaterOf(conf.o, conf.g)

(* Every operation has a thread of its own, whose timeline ends with it. *)
OnThreads ==
  \A n \in Node : \E thread \in [Operations(n) -> Thread] :
    /\ \A u, v \in Operations(n) : thread[u] = thread[v] => u = v
    /\ \A u \in Operations(n) : cpu[n][thread[u]] = StartOf(u) + conf.o

(* An operation within a gap is the last one, and the gap is its own. *)
InGaps(type, gap) ==
  \A n \in Node : \A u \in InProgress(type, n, conf.g) :
    /\ gap[n] = StartOf(u) + conf.g
    /\ \A v \in InProgress(type, n, conf.g) : u = v

LogPInv == OnThreads /\ InGaps("SendEnd", sendGap) /\ InGaps("RecvEnd", recvGap)

-----------------------------------------------------------------------------
LEMMA EndTaskType ==
  ASSUME TypeOK, NEW t \in Task, now' \in Nat, NEW type \in EndTypes
  PROVE  EndTask(t, type) \in Task /\ EndTask(t, type).time >= now'
<1>1. LaterOf(conf.o, conf.g) \in Nat
  BY ConfType, LaterOfType
<1>2. type \in DOMAIN Priority
  BY DEF EndTypes, Priority
<1>3. now' + LaterOf(conf.o, conf.g) \in Nat /\ now' + LaterOf(conf.o, conf.g) >= now'
  BY <1>1
<1> QED BY <1>2, <1>3 DEF EndTask, Task

(* An end task in the heap was there, or was scheduled by execute(), or    *)
(* was handed on, when its operation is over.                              *)
LEMMA EndTasks ==
  ASSUME TypeOK, NoTimewarp, NEW t, Pop(t), NEW reqs \in Asks(t),
         NEW own \in SUBSET Task, NEW again \in SUBSET {t}, Schedule(t, own, reqs, again),
         NEW u \in queue', u.type \in EndTypes
  PROVE  u \in queue \/ u \in own \/ u.time = now'
<1>1. t \in Task /\ now' = Clock(t)
  BY PopClock
<1>2. u \in (Ready \ {t}) \cup AllAdmitted(own) \cup Requested(reqs) \cup again
  BY DEF Schedule
<1>3. CASE u \in Ready
  BY <1>3 DEF Ready, IdleTask, EndTypes
<1>4. CASE u \in AllAdmitted(own)
  <2>1. PICK v \in own : u \in Admitted(v)
    BY <1>4 DEF AllAdmitted
  <2> QED BY <2>1 DEF Admitted, EndTypes, Task
<1>5. CASE u \in Requested(reqs)
  <2>1. PICK i \in DOMAIN reqs : u \in Admitted(Numbered(reqs[i], FirstSeq + i - 1))
    BY <1>5 DEF Requested
  <2>2. reqs[i] \in Demand(NotifiedNode(t), Clock(t))
    BY <1>1, AskType
  <2>3. reqs[i].type \notin EndTypes
    BY <2>2 DEF Demand, EndTypes
  <2> QED BY <2>1, <2>3 DEF Admitted, Numbered, EndTypes
<1>6. CASE u \in again
  <2>1. u = t
    BY <1>6
  <2> QED BY <1>1, <2>1 DEF Clock, EndTypes
<1> QED BY <1>2, <1>3, <1>4, <1>5, <1>6

(* As time goes on, what is in progress was, or has just started. *)
LEMMA Progress ==
  ASSUME TypeOK, NoTimewarp, NEW t, Pop(t), NEW reqs \in Asks(t),
         NEW own \in SUBSET Task, \A u \in own : u.time >= now',
         NEW again \in SUBSET {t}, Schedule(t, own, reqs, again),
         NEW type \in EndTypes, NEW n \in Node,
         NEW length \in Nat, length <= LaterOf(conf.o, conf.g),
         NEW u \in InProgress(type, n, length)'
  PROVE  /\ u \in Task /\ StartOf(u) \in Int /\ StartOf(u)' = StartOf(u)
         /\ StartOf(u) + length > now'
         /\ u \in InProgress(type, n, length) \/ (u \in own /\ u.type = type)
<1>1. now' \in Nat /\ now \in Nat /\ now' >= now /\ conf' = conf
  BY PopClock DEF TypeOK
<1>2. LaterOf(conf.o, conf.g) \in Nat
  BY ConfType, LaterOfType
<1>3. /\ u \in queue' /\ u.type = type
      /\ n = IF type = "SendEnd" THEN u.sender ELSE u.receiver
      /\ u.time - LaterOf(conf.o, conf.g) + length > now'
  BY <1>1 DEF InProgress
<1>4. u \in Task /\ u.time \in Nat
  <2>1. queue' \subseteq Task
    BY ScheduleQueue
  <2> QED BY <1>3, <2>1 DEF Task
<1>5. StartOf(u) \in Int /\ StartOf(u)' = StartOf(u) /\ StartOf(u) + length > now'
  BY <1>1, <1>2, <1>3, <1>4 DEF StartOf
<1>6. u.time # now'
  BY <1>1, <1>2, <1>3, <1>4
<1>7. u \in queue \/ u \in own
  BY <1>3, <1>6, EndTasks
<1>8. u \in queue => u \in InProgress(type, n, length)
  <2>1. u.time - LaterOf(conf.o, conf.g) + length > now
    BY <1>1, <1>2, <1>3, <1>4
  <2> QED BY <1>3, <2>1 DEF InProgress
<1> QED BY <1>3, <1>4, <1>5, <1>7, <1>8

(* A gap that nobody starts. *)
LEMMA GapPasses ==
  ASSUME TypeOK, NoTimewarp, NEW t, Pop(t), NEW reqs \in Asks(t),
         NEW own \in SUBSET Task, \A u \in own : u.time >= now',
         NEW again \in SUBSET {t}, Schedule(t, own, reqs, again),
         NEW type \in EndTypes, \A u \in own : u.type # type,
         NEW gap, InGaps(type, gap)
  PROVE  InGaps(type, gap)'
<1>1. conf' = conf /\ Node' = Node
  BY PopClock DEF Node
<1>2. conf.o \in Nat /\ conf.g \in Nat /\ conf.g <= LaterOf(conf.o, conf.g)
  BY ConfType, LaterOfType
<1>3. ASSUME NEW n \in Node, NEW u \in InProgress(type, n, conf.g)'
      PROVE  u \in InProgress(type, n, conf.g) /\ StartOf(u)' = StartOf(u)
  <2>1. u \in InProgress(type, n, conf.g)'
    OBVIOUS
  <2> QED BY <1>1, <1>2, <2>1, Progress
<1>4. ASSUME NEW n \in Node, NEW u \in InProgress(type, n, conf.g)'
      PROVE  gap[n] = StartOf(u)' + conf'.g
  BY <1>1, <1>3, <1>4 DEF InGaps
<1>5. ASSUME NEW n \in Node, NEW u \in InProgress(type, n, conf.g)',
             NEW v \in InProgress(type, n, conf.g)'
      PROVE  u = v
  BY <1>3, <1>5 DEF InGaps
<1> QED BY <1>1, <1>4, <1>5 DEF InGaps
LEMMA SendGapPasses ==
  ASSUME TypeOK, NoTimewarp, NEW t, Pop(t), NEW reqs \in Asks(t),
         NEW own \in SUBSET Task, \A u \in own : u.time >= now',
         NEW again \in SUBSET {t}, Schedule(t, own, reqs, again),
         \A u \in own : u.type # "SendEnd", sendGap' = sendGap, InGaps("SendEnd", sendGap)
  PROVE  InGaps("SendEnd", sendGap)'
<1>1. PICK gap : gap = sendGap
  OBVIOUS
<1>2. InGaps("SendEnd", gap) /\ "SendEnd" \in EndTypes
  BY <1>1 DEF EndTypes
<1>3. InGaps("SendEnd", gap)'
  BY <1>2, GapPasses
<1> QED BY <1>1, <1>3 DEF InGaps

LEMMA RecvGapPasses ==
  ASSUME TypeOK, NoTimewarp, NEW t, Pop(t), NEW reqs \in Asks(t),
         NEW own \in SUBSET Task, \A u \in own : u.time >= now',
         NEW again \in SUBSET {t}, Schedule(t, own, reqs, again),
         \A u \in own : u.type # "RecvEnd", recvGap' = recvGap, InGaps("RecvEnd", recvGap)
  PROVE  InGaps("RecvEnd", recvGap)'
<1>1. PICK gap : gap = recvGap
  OBVIOUS
<1>2. InGaps("RecvEnd", gap) /\ "RecvEnd" \in EndTypes
  BY <1>1 DEF EndTypes
<1>3. InGaps("RecvEnd", gap)'
  BY <1>2, GapPasses
<1> QED BY <1>1, <1>3 DEF InGaps

(* Threads on which nobody starts. *)
LEMMA ThreadsPass ==
  ASSUME TypeOK, NoTimewarp, NEW t, Pop(t), NEW reqs \in Asks(t),
         NEW own \in SUBSET Task, \A u \in own : u.time >= now',
         NEW again \in SUBSET {t}, Schedule(t, own, reqs, again),
         \A u \in own : u.type \notin EndTypes,
         cpu' = cpu, OnThreads
  PROVE  OnThreads'
<1>1. conf' = conf /\ Node' = Node /\ Thread' = Thread
  BY PopClock DEF Node, Thread
<1>2. conf.o \in Nat /\ conf.g \in Nat /\ conf.o <= LaterOf(conf.o, conf.g)
  BY ConfType, LaterOfType
<1>3. ASSUME NEW n \in Node, NEW u \in Operations(n)'
      PROVE  u \in Operations(n) /\ StartOf(u)' = StartOf(u)
  <2>1. PICK q \in EndTypes : u \in InProgress(q, n, conf.o)'
    BY <1>1, <1>3 DEF Operations, EndTypes
  <2>2. PICK length \in Nat : length = conf.o
    BY <1>2
  <2>3. u \in InProgress(q, n, length)' /\ length <= LaterOf(conf.o, conf.g)
    BY <1>1, <1>2, <2>1, <2>2
  <2>4. /\ StartOf(u)' = StartOf(u)
        /\ u \in InProgress(q, n, length) \/ (u \in own /\ u.type = q)
    BY <2>3, Progress
  <2>5. u \in InProgress(q, n, conf.o)
    BY <2>2, <2>4
  <2> QED BY <2>4, <2>5 DEF Operations, EndTypes
<1>4. ASSUME NEW n \in Node
      PROVE  \E thread \in [Operations(n)' -> Thread] :
               /\ \A u, v \in Operations(n)' : thread[u] = thread[v] => u = v
               /\ \A u \in Operations(n)' : cpu[n][thread[u]] = StartOf(u)' + conf.o
  <2>1. PICK thread \in [Operations(n) -> Thread] :
          /\ \A u, v \in Operations(n) : thread[u] = thread[v] => u = v
          /\ \A u \in Operations(n) : cpu[n][thread[u]] = StartOf(u) + conf.o
    BY DEF OnThreads
  <2> DEFINE kept == [u \in Operations(n)' |-> thread[u]]
  <2>2. kept \in [Operations(n)' -> Thread]
    BY <1>3
  <2>3. \A u, v \in Operations(n)' : kept[u] = kept[v] => u = v
    BY <1>3, <2>1
  <2>4. \A u \in Operations(n)' : cpu[n][kept[u]] = StartOf(u)' + conf.o
    BY <1>3, <2>1
  <2> QED BY <2>2, <2>3, <2>4
<1> QED BY <1>1, <1>4 DEF OnThreads

(* An operation that starts now finds a thread on which nothing goes on.   *)
LEMMA ThreadsStart ==
  ASSUME TypeOK, NoTimewarp, NEW t, Pop(t), NEW reqs \in Asks(t),
         NEW type \in EndTypes, Schedule(t, {EndTask(t, type)}, reqs, {}),
         EndTask(t, type) \in Task, EndTask(t, type).time >= now',
         NEW n \in Node, n = IF type = "SendEnd" THEN t.sender ELSE t.receiver,
         Occupy(n), OnThreads
  PROVE  OnThreads'
<1> DEFINE w == EndTask(t, type)
<1>1. conf' = conf /\ Node' = Node /\ Thread' = Thread /\ now' \in Nat /\ t \in Task
  BY PopClock DEF Node, Thread
<1>2. /\ conf.o \in Nat /\ conf.g \in Nat /\ conf.o <= LaterOf(conf.o, conf.g)
      /\ LaterOf(conf.o, conf.g) \in Nat
  BY ConfType, LaterOfType
<1>3. /\ w.type = type /\ StartOf(w) = now' /\ w.sender = t.sender /\ w.receiver = t.receiver
  BY <1>1, <1>2 DEF EndTask, StartOf, Task
<1>4. PICK k \in Thread : BestFit(n, k, now') /\ cpu' = [cpu EXCEPT ![n][k] = now' + conf.o]
  BY DEF Occupy
<1>5. /\ cpu[n][k] <= now' /\ cpu[n][k] \in Nat
      /\ cpu'[n][k] = now' + conf.o
      /\ \A m \in Node : \A j \in Thread : m # n \/ j # k => cpu'[m][j] = cpu[m][j]
  BY <1>4 DEF BestFit, TypeOK
<1>6. ASSUME NEW m \in Node, NEW u \in Operations(m)'
      PROVE  /\ StartOf(u)' = StartOf(u) /\ StartOf(u) \in Int /\ StartOf(u) + conf.o > now'
             /\ u \in Operations(m) \/ (u = w /\ m = n)
  <2> PICK length \in Nat : length = conf.o
    BY <1>2
  <2>1. PICK q \in EndTypes : u \in InProgress(q, m, length)'
    BY <1>1, <1>6 DEF Operations, EndTypes
  <2> PICK own : own = {w}
    OBVIOUS
  <2>2. own \in SUBSET Task /\ (\A v \in own : v.time >= now') /\ {} \in SUBSET {t}
        /\ Schedule(t, own, reqs, {}) /\ length <= LaterOf(conf.o, conf.g)
    BY <1>2
  <2>3. /\ StartOf(u) \in Int /\ StartOf(u)' = StartOf(u) /\ StartOf(u) + length > now'
        /\ u \in InProgress(q, m, length) \/ (u \in own /\ u.type = q)
    BY <2>1, <2>2, Progress, Z3
  <2>4. u \in InProgress(q, m, conf.o) => u \in Operations(m)
    BY DEF Operations, EndTypes
  <2>5. m = IF q = "SendEnd" THEN u.sender ELSE u.receiver
    BY <2>1 DEF InProgress
  <2> QED BY <1>3, <2>3, <2>4, <2>5
<1> HIDE DEF w
<1>7. ASSUME NEW m \in Node
      PROVE  \E thread \in [Operations(m)' -> Thread] :
               /\ \A u, v \in Operations(m)' : thread[u] = thread[v] => u = v
               /\ \A u \in Operations(m)' : cpu'[m][thread[u]] = StartOf(u)' + conf.o
  <2>1. PICK thread \in [Operations(m) -> Thread] :
          /\ \A u, v \in Operations(m) : thread[u] = thread[v] => u = v
          /\ \A u \in Operations(m) : cpu[m][thread[u]] = StartOf(u) + conf.o
    BY DEF OnThreads
  <2> DEFINE new == [u \in Operations(m)' |-> IF u = w /\ m = n THEN k ELSE thread[u]]
  <2>2. new \in [Operations(m)' -> Thread]
    BY <1>6
  <2>3. \A u \in Operations(m)' : ~ (u = w /\ m = n) =>
          /\ new[u] = thread[u] /\ u \in Operations(m)
          /\ cpu[m][thread[u]] = StartOf(u) + conf.o /\ cpu[m][thread[u]] > now'
    BY <1>6, <2>1
  <2>4. \A u \in Operations(m)' : ~ (u = w /\ m = n) => m # n \/ new[u] # k
    BY <1>1, <1>5, <2>3
  <2>5. \A u \in Operations(m)' : (u = w /\ m = n) => new[u] = k
    OBVIOUS
  <2>6. \A u, v \in Operations(m)' : new[u] = new[v] => u = v
    <3> HIDE DEF new
    <3> QED BY <2>1, <2>3, <2>4, <2>5
  <2>7. ASSUME NEW u \in Operations(m)'
        PROVE  cpu'[m][new[u]] = StartOf(u)' + conf.o
    <3>1. CASE u = w /\ m = n
      BY <1>3, <1>5, <1>6, <2>5, <3>1
    <3>2. CASE ~ (u = w /\ m = n)
      <4>1. new[u] \in Thread
        BY <2>2
      <4> HIDE DEF new
      <4> QED BY <1>5, <1>6, <2>3, <2>4, <3>2, <4>1
    <3> QED BY <3>1, <3>2
  <2> HIDE DEF new
  <2> QED BY <2>2, <2>6, <2>7
<1> QED BY <1>1, <1>7 DEF OnThreads

(* A gap that starts now: the one before is over. *)
LEMMA GapStarts ==
  ASSUME TypeOK, NoTimewarp, NEW t, Pop(t), NEW reqs \in Asks(t),
         NEW type \in EndTypes, Schedule(t, {EndTask(t, type)}, reqs, {}),
         EndTask(t, type) \in Task, EndTask(t, type).time >= now',
         NEW n \in Node, n = IF type = "SendEnd" THEN t.sender ELSE t.receiver,
         NEW gap \in [Node -> Nat], gap[n] <= now', InGaps(type, gap),
         NEW next, next = [gap EXCEPT ![n] = now' + conf.g]
  PROVE  InGaps(type, next)'
<1> DEFINE w == EndTask(t, type)
<1>1. conf' = conf /\ Node' = Node /\ now' \in Nat /\ t \in Task
  BY PopClock DEF Node
<1>2. /\ conf.o \in Nat /\ conf.g \in Nat /\ conf.g <= LaterOf(conf.o, conf.g)
      /\ LaterOf(conf.o, conf.g) \in Nat
  BY ConfType, LaterOfType
<1>3. w.type = type /\ StartOf(w) = now' /\ w.sender = t.sender /\ w.receiver = t.receiver
  BY <1>1, <1>2 DEF EndTask, StartOf, Task
<1>4. {w} \in SUBSET Task /\ (\A v \in {w} : v.time >= now') /\ {} \in SUBSET {t}
      /\ Schedule(t, {w}, reqs, {})
  OBVIOUS
<1> HIDE DEF w
<1>5. ASSUME NEW m \in Node, NEW u \in InProgress(type, m, conf.g)'
      PROVE  /\ StartOf(u)' = StartOf(u) /\ StartOf(u) \in Int
             /\ m = n => u = w
             /\ m # n => u \in InProgress(type, m, conf.g)
  <2>1. u \in InProgress(type, m, conf.g)'
    OBVIOUS
  <2>2. /\ StartOf(u) \in Int /\ StartOf(u)' = StartOf(u) /\ StartOf(u) + conf.g > now'
        /\ u \in InProgress(type, m, conf.g) \/ (u \in {w} /\ u.type = type)
    BY <1>1, <1>2, <1>4, <2>1, Progress
  <2>3. m = IF type = "SendEnd" THEN u.sender ELSE u.receiver
    BY <2>1 DEF InProgress
  <2>4. u \in InProgress(type, n, conf.g) => gap[n] = StartOf(u) + conf.g
    BY DEF InGaps
  <2> QED BY <1>1, <1>3, <2>2, <2>3, <2>4
<1>6. next[n] = now' + conf.g /\ \A m \in Node : m # n => next[m] = gap[m]
  OBVIOUS
<1>7. ASSUME NEW m \in Node, NEW u \in InProgress(type, m, conf.g)'
      PROVE  next[m] = StartOf(u)' + conf'.g
  <2>1. u \in InProgress(type, m, conf.g)'
    OBVIOUS
  <2> QED BY <1>1, <1>3, <1>5, <1>6, <2>1 DEF InGaps
<1>8. ASSUME NEW m \in Node, NEW u \in InProgress(type, m, conf.g)',
             NEW v \in InProgress(type, m, conf.g)'
      PROVE  u = v
  BY <1>5, <1>8 DEF InGaps
<1> QED BY <1>1, <1>7, <1>8 DEF InGaps

-----------------------------------------------------------------------------
(* One iteration that starts nothing, and one that starts something.       *)
LEMMA NothingStarts ==
  ASSUME IInv, LogPInv, NEW t, Pop(t), NEW reqs \in Asks(t),
         NEW own \in SUBSET Task, \A u \in own : u.time >= now',
         NEW again \in SUBSET {t}, Schedule(t, own, reqs, again),
         \A u \in own : u.type \notin EndTypes,
         UNCHANGED <<cpu, sendGap, recvGap>>
  PROVE  LogPInv'
<1>1. TypeOK /\ NoTimewarp /\ cpu' = cpu /\ sendGap' = sendGap /\ recvGap' = recvGap
  BY DEF IInv
<1>2. OnThreads'
  BY <1>1, ThreadsPass DEF LogPInv
<1>3. InGaps("SendEnd", sendGap)'
  <2>1. "SendEnd" \in EndTypes /\ \A u \in own : u.type # "SendEnd"
    BY DEF EndTypes
  <2> QED BY <1>1, <2>1, SendGapPasses DEF LogPInv
<1>4. InGaps("RecvEnd", recvGap)'
  <2>1. "RecvEnd" \in EndTypes /\ \A u \in own : u.type # "RecvEnd"
    BY DEF EndTypes
  <2> QED BY <1>1, <2>1, RecvGapPasses DEF LogPInv
<1> QED BY <1>2, <1>3, <1>4 DEF LogPInv

LEMMA SendStarts ==
  ASSUME IInv, LogPInv, NEW t, NEW reqs \in Asks(t), SendStart(t, reqs)
  PROVE  LogPInv'
<1>1. TypeOK /\ NoTimewarp /\ Pop(t) /\ t \in Task /\ now' \in Nat /\ t.sender \in Node
  BY PopClock DEF IInv, SendStart, Task
<1>2. /\ Schedule(t, {EndTask(t, "SendEnd")}, reqs, {}) /\ Occupy(t.sender)
      /\ sendGap[t.sender] <= now' /\ sendGap \in [Node -> Nat]
      /\ sendGap' = [sendGap EXCEPT ![t.sender] = now' + conf.g] /\ recvGap' = recvGap
      /\ {"SendEnd", "RecvEnd"} \subseteq EndTypes
  BY <1>1 DEF SendStart, TypeOK, EndTypes
<1>3. EndTask(t, "SendEnd") \in Task /\ EndTask(t, "SendEnd").time >= now'
  BY <1>1, <1>2, EndTaskType
<1>4. OnThreads'
  BY <1>1, <1>2, <1>3, ThreadsStart DEF LogPInv
<1>5. InGaps("SendEnd", sendGap)'
  <2>1. PICK gap \in [Node -> Nat] : gap = sendGap
    BY <1>2
  <2>2. PICK next : next = sendGap'
    OBVIOUS
  <2>3. InGaps("SendEnd", gap)
    BY <2>1 DEF LogPInv
  <2>4. InGaps("SendEnd", next)'
    BY <1>1, <1>2, <1>3, <2>1, <2>2, <2>3, GapStarts
  <2> QED BY <2>2, <2>4 DEF InGaps
<1>6. InGaps("RecvEnd", recvGap)'
  <2>1. /\ {EndTask(t, "SendEnd")} \in SUBSET Task /\ {} \in SUBSET {t}
        /\ \A u \in {EndTask(t, "SendEnd")} : u.time >= now' /\ u.type # "RecvEnd"
    BY <1>1, <1>3 DEF EndTask, Task
  <2> QED BY <1>1, <1>2, <2>1, RecvGapPasses DEF LogPInv
<1> QED BY <1>4, <1>5, <1>6 DEF LogPInv

LEMMA RecvStarts ==
  ASSUME IInv, LogPInv, NEW t, NEW reqs \in Asks(t), RecvStart(t, reqs)
  PROVE  LogPInv'
<1>1. TypeOK /\ NoTimewarp /\ Pop(t) /\ t \in Task /\ now' \in Nat /\ t.receiver \in Node
  BY PopClock DEF IInv, RecvStart, Task
<1>2. /\ Schedule(t, {EndTask(t, "RecvEnd")}, reqs, {}) /\ Occupy(t.receiver)
      /\ recvGap[t.receiver] <= now' /\ recvGap \in [Node -> Nat]
      /\ recvGap' = [recvGap EXCEPT ![t.receiver] = now' + conf.g] /\ sendGap' = sendGap
      /\ {"SendEnd", "RecvEnd"} \subseteq EndTypes
  BY <1>1 DEF RecvStart, TypeOK, EndTypes
<1>3. EndTask(t, "RecvEnd") \in Task /\ EndTask(t, "RecvEnd").time >= now'
  BY <1>1, <1>2, EndTaskType
<1>4. OnThreads'
  BY <1>1, <1>2, <1>3, ThreadsStart DEF LogPInv
<1>5. InGaps("RecvEnd", recvGap)'
  <2>1. PICK gap \in [Node -> Nat] : gap = recvGap
    BY <1>2
  <2>2. PICK next : next = recvGap'
    OBVIOUS
  <2>3. InGaps("RecvEnd", gap)
    BY <2>1 DEF LogPInv
  <2>4. InGaps("RecvEnd", next)'
    BY <1>1, <1>2, <1>3, <2>1, <2>2, <2>3, GapStarts
  <2> QED BY <2>2, <2>4 DEF InGaps
<1>6. InGaps("SendEnd", sendGap)'
  <2>1. /\ {EndTask(t, "RecvEnd")} \in SUBSET Task /\ {} \in SUBSET {t}
        /\ \A u \in {EndTask(t, "RecvEnd")} : u.time >= now' /\ u.type # "SendEnd"
    BY <1>1, <1>3 DEF EndTask, Task
  <2> QED BY <1>1, <1>2, <2>1, SendGapPasses DEF LogPInv
<1> QED BY <1>4, <1>5, <1>6 DEF LogPInv

(* A state whose heap and timelines are those of another, now or later. *)
LEMMA LogPUnchanged ==
  ASSUME TypeOK, LogPInv, UNCHANGED <<conf, queue, cpu, sendGap, recvGap>>,
         now' \in Nat, now' >= now
  PROVE  LogPInv'
<1>1. Node' = Node /\ Thread' = Thread /\ conf' = conf /\ cpu' = cpu /\ sendGap' = sendGap /\ recvGap' = recvGap
  BY DEF Node, Thread
<1>2. ASSUME NEW type, NEW n, NEW length \in Nat
      PROVE  InProgress(type, n, length)' \subseteq InProgress(type, n, length)
  <2>1. /\ now \in Nat /\ LaterOf(conf.o, conf.g) \in Nat
        /\ \A u \in queue : u.time \in Nat
    BY ConfType, LaterOfType DEF TypeOK, Task
  <2>2. \A u \in queue : /\ u.time - LaterOf(conf.o, conf.g) + length > now'
                         => u.time - LaterOf(conf.o, conf.g) + length > now
    BY <2>1
  <2> QED BY <2>2 DEF InProgress, LaterOf
<1>3. \A u : StartOf(u)' = StartOf(u)
  BY DEF StartOf, LaterOf
<1>4. conf.o \in Nat /\ conf.g \in Nat
  BY ConfType
<1>5. OnThreads'
  <2>1. \A n : Operations(n)' \subseteq Operations(n)
    BY <1>1, <1>2, <1>4 DEF Operations
  <2>2. SUFFICES ASSUME NEW n \in Node
                 PROVE  \E thread \in [Operations(n)' -> Thread] :
                          /\ \A u, v \in Operations(n)' : thread[u] = thread[v] => u = v
                          /\ \A u \in Operations(n)' : cpu[n][thread[u]] = StartOf(u) + conf.o
    BY <1>1, <1>3 DEF OnThreads
  <2>3. PICK thread \in [Operations(n) -> Thread] :
          /\ \A u, v \in Operations(n) : thread[u] = thread[v] => u = v
          /\ \A u \in Operations(n) : cpu[n][thread[u]] = StartOf(u) + conf.o
    BY DEF LogPInv, OnThreads
  <2>4. PICK kept : kept = [u \in Operations(n)' |-> thread[u]]
    OBVIOUS
  <2> QED BY <2>1, <2>3, <2>4
<1>6. ASSUME NEW type, NEW gap, InGaps(type, gap)
      PROVE  InGaps(type, gap)'
  <2>1. \A n : InProgress(type, n, conf.g)' \subseteq InProgress(type, n, conf.g)
    BY <1>2, <1>4
  <2> QED BY <1>1, <1>3, <1>6, <2>1 DEF InGaps
<1>7. InGaps("SendEnd", sendGap)' /\ InGaps("RecvEnd", recvGap)'
  <2>1. PICK sending, receiving : sending = sendGap /\ receiving = recvGap
    OBVIOUS
  <2>2. InGaps("SendEnd", sending) /\ InGaps("RecvEnd", receiving)
    BY <2>1 DEF LogPInv
  <2>3. InGaps("SendEnd", sending)' /\ InGaps("RecvEnd", receiving)'
    BY <1>6, <2>2
  <2> QED BY <1>1, <2>1, <2>3 DEF InGaps
<1> QED BY <1>5, <1>7 DEF LogPInv

LEMMA StepLogP ==
  ASSUME IInv, LogPInv, [OpenNext]_qvars
  PROVE  LogPInv'
<1>1. TypeOK /\ NoTimewarp /\ conf.L \in Nat
  BY ConfType DEF IInv
<1>2. ASSUME NEW t \in Ready, NEW reqs \in Asks(t), NEW again \in SUBSET {t}, Pop(t),
             Schedule(t, {}, reqs, again), UNCHANGED <<cpu, sendGap, recvGap>>
      PROVE  LogPInv'
  <2>1. {} \in SUBSET Task /\ \A u \in {} : u.time >= now' /\ u.type \notin EndTypes
    OBVIOUS
  <2> QED BY <1>2, <2>1, NothingStarts
<1>3. ASSUME NEW t \in Ready, NEW reqs \in Asks(t), Pop(t),
             NEW type \in DOMAIN Priority, type \notin EndTypes, NEW at \in Nat, at >= now',
             Schedule(t, {[t EXCEPT !.type = type, !.time = at]}, reqs, {}),
             UNCHANGED <<cpu, sendGap, recvGap>>
      PROVE  LogPInv'
  <2> DEFINE u == [t EXCEPT !.type = type, !.time = at]
  <2>1. u \in Task /\ u.time = at /\ u.type = type
    BY <1>1, <1>3, ReadyType DEF Task
  <2>2. Schedule(t, {u}, reqs, {})
    BY <1>3
  <2> HIDE DEF u
  <2>3. {u} \in SUBSET Task /\ {} \in SUBSET {t} /\ \A v \in {u} : v.time >= now' /\ v.type \notin EndTypes
    BY <1>3, <2>1
  <2> QED BY <1>3, <2>2, <2>3, NothingStarts
<1>4. {"Msg", "RecvStart", "SendStart"} \subseteq DOMAIN Priority \ EndTypes
  BY DEF Priority, EndTypes
<1>5. ASSUME NEW t \in Ready, NEW reqs \in Asks(t), React(t, reqs)
      PROVE  LogPInv'
  <2>1. CASE SendStart(t, reqs)
    BY <1>5, <2>1, SendStarts
  <2>2. CASE RecvStart(t, reqs)
    BY <1>5, <2>2, RecvStarts
  <2>3. CASE SendEnd(t, reqs)
    <3>1. /\ Pop(t) /\ Schedule(t, {[t EXCEPT !.type = "Msg", !.time = now']}, reqs, {})
          /\ UNCHANGED <<cpu, sendGap, recvGap>>
      BY <2>3 DEF SendEnd, Pass, timeline
    <3>2. PICK at \in Nat : at = now' /\ at >= now'
      BY <1>1, <3>1, PopClock
    <3> QED BY <1>3, <1>4, <3>1, <3>2
  <2>4. CASE Idle(t, reqs) \/ Timer(t, reqs) \/ Init(t, reqs) \/ Finish(t, reqs)
    <3>1. Pop(t) /\ Schedule(t, {}, reqs, {}) /\ UNCHANGED <<cpu, sendGap, recvGap>>
      BY <2>4 DEF Idle, Timer, Init, Finish, Pass, timeline
    <3> QED BY <1>2, <3>1
  <2>5. CASE \E again \in SUBSET {t} : RecvEnd(t, reqs, again)
    <3>1. PICK again \in SUBSET {t} : RecvEnd(t, reqs, again)
      BY <2>5
    <3>2. Pop(t) /\ Schedule(t, {}, reqs, again) /\ UNCHANGED <<cpu, sendGap, recvGap>>
      BY <3>1 DEF RecvEnd, Pass, timeline
    <3> QED BY <1>2, <3>2
  <2> QED BY <1>5, <2>1, <2>2, <2>3, <2>4, <2>5 DEF React
<1>6. ASSUME NEW t \in Ready, Silent(t)
      PROVE  LogPInv'
  <2>1. t \in Task /\ <<>> \in Asks(t)
    BY <1>1, ReadyType, NoRequests
  <2>2. ASSUME NEW n \in Node, NEW gap \in Nat, t.type \in {"SendStart", "RecvStart"}, Reschedule(t, n, gap)
        PROVE  LogPInv'
    <3>1. Pop(t) /\ now' \in Nat /\ UNCHANGED <<cpu, sendGap, recvGap>>
      BY <1>1, <2>2, PopClock DEF Reschedule, timeline
    <3>2. PICK k \in Thread :
            Schedule(t, {[t EXCEPT !.time = LaterOf(LaterOf(cpu[n][k], gap), now')]}, <<>>, {})
      BY <2>2 DEF Reschedule
    <3> DEFINE at == LaterOf(LaterOf(cpu[n][k], gap), now')
    <3>3. at \in Nat /\ at >= now'
      <4>1. cpu[n][k] \in Nat
        BY <1>1 DEF TypeOK
      <4> QED BY <2>2, <3>1, <4>1, LaterOfType
    <3>4. Schedule(t, {[t EXCEPT !.time = at]}, <<>>, {})
      BY <3>2
    <3> HIDE DEF at
    <3>5. [t EXCEPT !.time = at] = [t EXCEPT !.type = t.type, !.time = at]
      BY <2>1 DEF Task
    <3>6. Schedule(t, {[t EXCEPT !.type = t.type, !.time = at]}, <<>>, {})
      BY <3>4, <3>5
    <3>7. t.type \in DOMAIN Priority /\ t.type \notin EndTypes
      BY <1>4, <2>2
    <3> QED BY <1>3, <2>1, <3>1, <3>3, <3>6, <3>7
  <2>3. CASE DelaySend(t)
    BY <1>1, <2>1, <2>2, <2>3 DEF DelaySend, TypeOK, Task
  <2>4. CASE DelayRecv(t)
    BY <1>1, <2>1, <2>2, <2>4 DEF DelayRecv, TypeOK, Task
  <2>5. CASE Msg(t)
    <3>1. /\ Pop(t) /\ Schedule(t, {[t EXCEPT !.type = "RecvStart", !.time = now' + conf.L]}, <<>>, {})
          /\ UNCHANGED <<cpu, sendGap, recvGap>>
      BY <2>5 DEF Msg, Pass, timeline
    <3>2. now' + conf.L \in Nat /\ now' + conf.L >= now'
      BY <1>1, <3>1, PopClock
    <3> QED BY <1>3, <1>4, <2>1, <3>1, <3>2
  <2>6. CASE Failure(t)
    <3>1. Pop(t) /\ Schedule(t, {}, <<>>, {}) /\ UNCHANGED <<cpu, sendGap, recvGap>>
      BY <2>6 DEF Failure
    <3> QED BY <1>2, <2>1, <3>1
  <2>7. CASE ThrowFinish(t)
    <3>1. now' = now /\ conf' = conf
      BY <2>7 DEF ThrowFinish, Clock, Pop
    <3> QED BY <1>1, <2>7, <3>1, LogPUnchanged DEF ThrowFinish, timeline, TypeOK
  <2> QED BY <1>6, <2>3, <2>4, <2>5, <2>6, <2>7 DEF Silent
<1>7. CASE EmptyPop
  BY <1>1, <1>7, LogPUnchanged DEF EmptyPop, timeline, TypeOK
<1>8. CASE UNCHANGED qvars
  BY <1>1, <1>8, LogPUnchanged DEF qvars, timeline, TypeOK
<1>9. ASSUME NEW t \in Ready, NEW how, Leave(t, how)
      PROVE  LogPInv'
  <2>1. Pop(t) /\ UNCHANGED <<queue, cpu, sendGap, recvGap>>
    BY <1>9 DEF Leave, timeline
  <2> QED BY <1>1, <2>1, PopClock, LogPUnchanged
<1> QED BY <1>5, <1>6, <1>7, <1>8, <1>9 DEF OpenNext, Stopped

LEMMA InitLogP ==
  ASSUME NEW first \in Nat, QStart(first)
  PROVE  LogPInv
<1>1. \A u \in queue : u.type \notin EndTypes
  BY DEF QStart, AllAdmitted, Admitted, EndTypes
<1>2. \A type \in EndTypes, n \in Node : \A length : InProgress(type, n, length) = {}
  BY <1>1 DEF InProgress
<1>3. \A n \in Node : Operations(n) = {}
  BY <1>2 DEF Operations, EndTypes
<1>4. OnThreads
  <2>1. SUFFICES ASSUME NEW n \in Node
                 PROVE  \E thread \in [{} -> Thread] :
                          /\ \A u, v \in {} : thread[u] = thread[v] => u = v
                          /\ \A u \in {} : cpu[n][thread[u]] = StartOf(u) + conf.o
    BY <1>3 DEF OnThreads
  <2>2. [u \in {} |-> 1] \in [{} -> Thread]
    OBVIOUS
  <2> QED BY <2>2
<1>5. InGaps("SendEnd", sendGap) /\ InGaps("RecvEnd", recvGap)
  BY <1>2 DEF InGaps, EndTypes
<1> QED BY <1>4, <1>5 DEF LogPInv

(* One thread for each: not more of them than threads. *)
LEMMA CapacityKept ==
  ASSUME TypeOK, LogPInv
  PROVE  LogPCapacity
<1>1. SUFFICES ASSUME NEW n \in Node
               PROVE  /\ Cardinality(InProgress("SendEnd", n, conf.o))
                           + Cardinality(InProgress("RecvEnd", n, conf.o)) <= conf.parallelism
                      /\ Cardinality(InProgress("SendEnd", n, conf.g)) <= 1
                      /\ Cardinality(InProgress("RecvEnd", n, conf.g)) <= 1
  BY DEF LogPCapacity
<1> DEFINE sends == InProgress("SendEnd", n, conf.o)
           recvs == InProgress("RecvEnd", n, conf.o)
<1>2. IsFiniteSet(Thread) /\ Cardinality(Thread) = conf.parallelism
  <2>1. 1 \in Int /\ conf.parallelism \in Int /\ conf.parallelism >= 1
    BY ConfType
  <2>2. IsFiniteSet(1 .. conf.parallelism) /\ Cardinality(1 .. conf.parallelism) = conf.parallelism
    BY <2>1, FS_Interval
  <2> QED BY <2>2 DEF Thread
<1>3. IsFiniteSet(Operations(n)) /\ Cardinality(Operations(n)) <= conf.parallelism
  <2>1. PICK thread \in [Operations(n) -> Thread] :
          \A u, v \in Operations(n) : thread[u] = thread[v] => u = v
    BY DEF LogPInv, OnThreads
  <2>2. thread \in Injection(Operations(n), Thread)
    BY <2>1 DEF Injection, IsInjective
  <2> QED BY <1>2, <2>2, FS_Injection
<1>4. Cardinality(Operations(n)) = Cardinality(sends) + Cardinality(recvs)
  <2>1. sends \cap recvs = {}
    BY DEF InProgress
  <2>2. Operations(n) = sends \cup recvs
    BY DEF Operations
  <2>3. IsFiniteSet(sends) /\ IsFiniteSet(recvs)
    BY <1>3, <2>2, FS_Subset
  <2> HIDE DEF sends, recvs
  <2>4. Cardinality(sends \cup recvs)
          = Cardinality(sends) + Cardinality(recvs) - Cardinality(sends \cap recvs)
    BY <2>3, FS_Union
  <2>5. Cardinality(sends \cap recvs) = 0 /\ Cardinality(sends) \in Nat /\ Cardinality(recvs) \in Nat
    BY <2>1, <2>3, FS_EmptySet, FS_CardinalityType
  <2> QED BY <2>2, <2>4, <2>5
<1>5. ASSUME NEW S, \A u, v \in S : u = v
      PROVE  Cardinality(S) <= 1
  <2>1. CASE S = {}
    BY <2>1, FS_EmptySet
  <2>2. CASE S # {}
    <3>1. PICK u : u \in S
      BY <2>2
    <3>2. S = {u}
      BY <1>5, <3>1
    <3> QED BY <3>2, FS_Singleton
  <2> QED BY <2>1, <2>2
<1>6. Cardinality(InProgress("SendEnd", n, conf.g)) <= 1
  BY <1>5 DEF LogPInv, InGaps
<1>7. Cardinality(InProgress("RecvEnd", n, conf.g)) <= 1
  BY <1>5 DEF LogPInv, InGaps
<1> QED BY <1>3, <1>4, <1>6, <1>7

-----------------------------------------------------------------------------
(* SendStartTask and RecvStartTask respect the threads, the overhead and   *)
(* the gaps of every node, although a task waits in the heap and not with  *)
(* its node.                                                               *)
THEOREM CapacityRespected == OpenSpec => []LogPCapacity
<1>1. QStarted => LogPInv
  BY InitLogP DEF QStarted
<1>2. IInv /\ LogPInv /\ [OpenNext]_qvars => LogPInv'
  BY StepLogP
<1>3. IInv /\ LogPInv => LogPCapacity
  BY CapacityKept DEF IInv
<1> QED BY <1>1, <1>2, <1>3, Invariance, PTL DEF OpenSpec

-----------------------------------------------------------------------------
(***************************************************************************)
(* "This task is delivered, when a node can send once again": nobody takes *)
(* the cpu or the send gap of a node while its IdleTask waits.  Several    *)
(* nodes are delivered to at once, the phase of the first may send, set    *)
(* timers and move on in the same timestamp, and with tags first its tasks *)
(* may overtake the idle tasks of the others.                              *)
(***************************************************************************)
(* What a node that was delivered to may do at once. *)
Harmless == {"SendStart", "Timer", "Init", "Failure"}

(* The idle tasks among tasks: their nodes are free, each has one, and     *)
(* whatever else is due now is somebody else's and ends nothing.           *)
Undisturbed(tasks) ==
  /\ \A t \in tasks : t.type = "Idle" =>
       t.time = now /\ CpuFree(t.sender, now) /\ sendGap[t.sender] <= now
  /\ \A t, u \in tasks :
       t.type = "Idle" /\ u.type = "Idle" /\ t.sender = u.sender => t = u
  /\ conf.o + conf.g > 0 =>
       \A t, u \in tasks :
         t.type = "Idle" /\ u.type \notin {"Idle", "Finish"} /\ u.time = now =>
           u.type \in Harmless /\ u.sender # t.sender

(* Without costs nothing lasts. *)
NothingLasts ==
  conf.o + conf.g = 0 =>
    \A n \in Node : sendGap[n] <= now /\ \A k \in Thread : cpu[n][k] <= now

(* A FinishTask is later than anything that is due while the loop runs. *)
FinishIsLast ==
  /\ \A u \in queue : u.type = "Finish" => u.time = TimeMax
  /\ status = "running" => now < TimeMax

IdleInv == Undisturbed(queue) /\ NothingLasts /\ FinishIsLast

-----------------------------------------------------------------------------
(* Every heap that is not empty has a top. *)
LEMMA LeastNatural ==
  ASSUME NEW S \in SUBSET Nat, S # {}
  PROVE  \E x \in S : \A y \in S : x <= y
<1>1. PICK x \in S : \A y \in S : ~ (<<y, x>> \in OpToRel(<, Nat))
  BY NatLessThanWellFounded, WFMin
<1>2. \A y \in S : ~ (y < x)
  BY <1>1 DEF OpToRel
<1>3. \A y \in S : x <= y
  BY <1>2
<1> QED BY <1>3

LEMMA TopExists ==
  ASSUME NEW tasks \in SUBSET Task, tasks # {}
  PROVE  \E t \in tasks : IsTop(t, tasks)
<1> DEFINE least(i, T) == {t \in T : \A u \in T : Key(t)[i] <= Key(u)[i]}
<1>1. \A t \in Task : Key(t)[1] \in Nat /\ Key(t)[2] \in Nat /\ Key(t)[3] \in Nat /\ Key(t)[4] \in Nat
  BY DEF Key, Task, Priority, TagValue
<1>2. ASSUME NEW T \in SUBSET Task, T # {}, NEW i \in 1 .. 4
      PROVE  least(i, T) \in SUBSET T /\ least(i, T) # {}
  <2> DEFINE S == {Key(t)[i] : t \in T}
  <2>1. i = 1 \/ i = 2 \/ i = 3 \/ i = 4
    OBVIOUS
  <2>2. \A t \in T : Key(t)[i] \in Nat
    BY <1>1, <2>1
  <2>3. S \in SUBSET Nat /\ S # {}
    BY <1>2, <2>2
  <2>4. PICK x \in S : \A y \in S : x <= y
    BY <2>3, LeastNatural
  <2> QED BY <2>4
<1> DEFINE A == least(1, tasks)
           B == least(2, A)
           C == least(3, B)
           D == least(4, C)
<1>3. A \in SUBSET tasks /\ A # {} /\ A \in SUBSET Task
  <2> HIDE DEF least
  <2>1. 1 \in 1 .. 4
    OBVIOUS
  <2> QED BY <1>2, <2>1
<1>4. B \in SUBSET A /\ B # {} /\ B \in SUBSET Task
  <2> HIDE DEF A, least
  <2>1. 2 \in 1 .. 4
    OBVIOUS
  <2> QED BY <1>2, <1>3, <2>1
<1>5. C \in SUBSET B /\ C # {} /\ C \in SUBSET Task
  <2> HIDE DEF B, least
  <2>1. 3 \in 1 .. 4
    OBVIOUS
  <2> QED BY <1>2, <1>4, <2>1
<1>6. D \in SUBSET C /\ D # {}
  <2> HIDE DEF C, least
  <2>1. 4 \in 1 .. 4
    OBVIOUS
  <2> QED BY <1>2, <1>5, <2>1
<1>7. PICK t \in D : TRUE
  BY <1>6
<1>8. t \in A /\ t \in B /\ t \in C /\ t \in tasks /\ t \in Task
  BY <1>3, <1>4, <1>5, <1>6
<1>9. ASSUME NEW u \in tasks, Precedes(u, t)
      PROVE  FALSE
  <2>1. PICK i \in 1 .. 4 : Key(u)[i] < Key(t)[i] /\ \A j \in 1 .. i - 1 : Key(u)[j] = Key(t)[j]
    BY <1>9 DEF Precedes
  <2>2. u \in Task
    OBVIOUS
  <2>3. Key(t)[1] <= Key(u)[1]
    BY <1>8
  <2>4. Key(u)[1] = Key(t)[1] => u \in A /\ Key(t)[2] <= Key(u)[2]
    <3>1. Key(u)[1] = Key(t)[1] => u \in A
      BY <1>8
    <3> QED BY <1>8, <3>1
  <2>5. u \in A /\ Key(u)[2] = Key(t)[2] => u \in B /\ Key(t)[3] <= Key(u)[3]
    <3>1. u \in A /\ Key(u)[2] = Key(t)[2] => u \in B
      BY <1>8
    <3> QED BY <1>8, <3>1
  <2>6. u \in B /\ Key(u)[3] = Key(t)[3] => Key(t)[4] <= Key(u)[4]
    <3>1. u \in B /\ Key(u)[3] = Key(t)[3] => u \in C
      BY <1>8
    <3> QED BY <1>7, <3>1
  <2> HIDE DEF A, B
  <2>7. CASE i = 1
    BY <1>1, <1>8, <2>1, <2>2, <2>3, <2>7
  <2>8. CASE i = 2
    <3>1. Key(u)[1] = Key(t)[1]
      BY <2>1, <2>8
    <3> QED BY <1>1, <1>8, <2>1, <2>2, <2>4, <2>8, <3>1
  <2>9. CASE i = 3
    <3>1. Key(u)[1] = Key(t)[1] /\ Key(u)[2] = Key(t)[2]
      BY <2>1, <2>9
    <3> QED BY <1>1, <1>8, <2>1, <2>2, <2>4, <2>5, <2>9, <3>1
  <2>10. CASE i = 4
    <3>1. Key(u)[1] = Key(t)[1] /\ Key(u)[2] = Key(t)[2] /\ Key(u)[3] = Key(t)[3]
      BY <2>1, <2>10
    <3> QED BY <1>1, <1>8, <2>1, <2>2, <2>4, <2>5, <2>6, <2>10, <3>1
  <2> QED BY <2>1, <2>7, <2>8, <2>9, <2>10
<1> QED BY <1>8, <1>9 DEF IsTop

-----------------------------------------------------------------------------
(* An idle task is created only when nothing else is due.                  *)
LEMMA ReadyUndisturbed ==
  ASSUME TypeOK, NoTimewarp, IdleInv, status = "running"
  PROVE  /\ Undisturbed(Ready)
         /\ \A u \in Ready : u.type = "Finish" => u.time = TimeMax
<1>1. CASE Delivered = {}
  <2>1. Ready = queue
    BY <1>1 DEF Ready
  <2> QED BY <2>1 DEF IdleInv, FinishIsLast
<1>2. CASE Delivered # {}
  <2>1. NextTimestamp
    BY <1>2 DEF Delivered
  <2>2. now \in Nat /\ now < TimeMax /\ queue \in SUBSET Task
    BY DEF TypeOK, IdleInv, FinishIsLast
  <2>3. ASSUME NEW u \in queue, u.time = now
        PROVE  FALSE
    <3>1. PICK t \in queue : IsTop(t, queue)
      BY <2>2, TopExists
    <3>2. t.time \in Nat /\ u.time \in Nat
      BY <2>2 DEF Task
    <3>3. ~ (u.time < t.time)
      <4>1. ~ (Key(u)[1] < Key(t)[1])
        <5>1. 1 \in 1 .. 4 /\ \A j \in 1 .. 1 - 1 : Key(u)[j] = Key(t)[j]
          OBVIOUS
        <5> QED BY <3>1, <5>1 DEF IsTop, Precedes
      <4> QED BY <4>1 DEF Key
    <3>4. t.type # "Finish"
      BY <2>2, <2>3, <3>2, <3>3 DEF IdleInv, FinishIsLast
    <3>5. t.time = now
      BY <2>2, <2>3, <3>2, <3>3, <3>4 DEF NoTimewarp, Clock
    <3> QED BY <2>1, <3>1, <3>5 DEF NextTimestamp
  <2>4. \A u \in queue : u.type # "Idle"
    BY <2>3 DEF IdleInv, Undisturbed
  <2>5. \A u \in Ready : u \in queue \/ \E n \in Delivered : u = IdleTask(n)
    BY DEF Ready
  <2>6. \A n \in Delivered : /\ IdleTask(n).type = "Idle" /\ IdleTask(n).time = now
                             /\ IdleTask(n).sender = n
                             /\ CpuFree(n, now) /\ sendGap[n] <= now
    BY DEF Delivered, Deliverable, IdleTask
  <2>7. \A u \in Ready : u.type = "Idle" =>
          u.time = now /\ CpuFree(u.sender, now) /\ sendGap[u.sender] <= now
    BY <2>4, <2>5, <2>6
  <2>8. \A t, u \in Ready : t.type = "Idle" /\ u.type = "Idle" /\ t.sender = u.sender => t = u
    BY <2>4, <2>5, <2>6
  <2>9. \A u \in Ready : u.type # "Idle" => u.time # now
    BY <2>3, <2>5, <2>6
  <2>10. \A u \in Ready : u.type = "Finish" => u.time = TimeMax
    BY <2>5, <2>6 DEF IdleInv, FinishIsLast
  <2> QED BY <2>7, <2>8, <2>9, <2>10 DEF Undisturbed
<1> QED BY <1>1, <1>2

(* While an idle task waits, the clock stands still. *)
LEMMA IdleComesFirst ==
  ASSUME TypeOK, NoTimewarp, IdleInv, NEW t, Pop(t), NEW i \in Ready, i.type = "Idle"
  PROVE  t.time = now /\ now' = now /\ t.type # "Finish"
<1>1. t \in Ready /\ t \in Task /\ status = "running" /\ now' = Clock(t) /\ now \in Nat /\ now' >= now
  BY PopClock DEF TypeOK
<1>2. Undisturbed(Ready) /\ \A u \in Ready : u.type = "Finish" => u.time = TimeMax
  BY <1>1, ReadyUndisturbed
<1>3. now < TimeMax /\ TimeMax \in Nat
  BY <1>1, BoundsAssumption DEF IdleInv, FinishIsLast
<1>4. i.time = now /\ t.time \in Nat
  BY <1>1, <1>2 DEF Undisturbed, Task
<1>5. ~ (Key(i)[1] < Key(t)[1])
  <2>1. 1 \in 1 .. 4 /\ \A j \in 1 .. 1 - 1 : Key(i)[j] = Key(t)[j]
    OBVIOUS
  <2> QED BY <2>1 DEF Pop, IsTop, Precedes
<1>6. t.time <= now
  BY <1>1, <1>4, <1>5 DEF Key
<1>7. t.type # "Finish"
  BY <1>1, <1>2, <1>3, <1>4, <1>6
<1> QED BY <1>1, <1>4, <1>6, <1>7 DEF Clock

(* When the loop is left with the heap as it is. *)
LEMMA LeftBehind ==
  ASSUME TypeOK, NoTimewarp, IdleInv, NEW t, Pop(t), UNCHANGED <<queue, cpu, sendGap>>,
         status' # "running"
  PROVE  IdleInv'
<1>1. conf' = conf /\ now' \in Nat /\ now \in Nat /\ now' >= now /\ Node' = Node /\ Thread' = Thread
  BY PopClock DEF TypeOK, Node, Thread
<1>2. ASSUME NEW i \in queue, i.type = "Idle"
      PROVE  now' = now
  BY <1>2, IdleComesFirst, ReadyType
<1>3. \A n : CpuFree(n, now)' = \E k \in Thread : cpu[n][k] <= now'
  BY <1>1 DEF CpuFree
<1>4. Undisturbed(queue)'
  BY <1>1, <1>2, <1>3 DEF IdleInv, Undisturbed, CpuFree
<1>5. NothingLasts'
  <2>1. \A n \in Node : sendGap[n] \in Nat /\ \A k \in Thread : cpu[n][k] \in Nat
    BY DEF TypeOK
  <2> QED BY <1>1, <2>1 DEF IdleInv, NothingLasts
<1>6. FinishIsLast'
  BY DEF IdleInv, FinishIsLast
<1> QED BY <1>4, <1>5, <1>6 DEF IdleInv

(***************************************************************************)
(* One iteration.  What execute() schedules itself lies ahead, or is the   *)
(* served SendStartTask, unless the served task ends something; only the   *)
(* start of an operation touches a node.                                   *)
(***************************************************************************)
LEMMA IdleStep ==
  ASSUME TypeOK, NoTimewarp, IdleInv, NEW t, Pop(t), NEW reqs \in Asks(t),
         NEW own \in SUBSET Task, NEW again \in SUBSET {t}, Schedule(t, own, reqs, again),
         \A u \in own : u.type \notin {"Idle", "Finish"} /\ u.sender = t.sender,
         conf.o + conf.g > 0 =>
           \A u \in own : \/ u.time # now' \/ u.type = "SendStart"
                          \/ t.type \notin Harmless \cup {"Idle"},
         again = {} \/ t.type = "RecvEnd",
         \A n \in Node : \/ cpu'[n] = cpu[n] /\ sendGap'[n] = sendGap[n]
                         \/ t.type = "SendStart" /\ n = t.sender
                         \/ t.type = "RecvStart",
         \A n \in Node : \A k \in Thread : cpu'[n][k] = cpu[n][k] \/ cpu'[n][k] = now' + conf.o,
         \A n \in Node : sendGap'[n] = sendGap[n] \/ sendGap'[n] = now' + conf.g
  PROVE  IdleInv'
<1>1. /\ t \in Ready /\ t \in Task /\ conf' = conf /\ Node' = Node /\ Thread' = Thread
      /\ status = "running" /\ now' = Clock(t) /\ now' \in Nat /\ now \in Nat /\ now' >= now
  BY PopClock DEF Node, Thread, TypeOK
<1>2. /\ Undisturbed(Ready) /\ \A u \in Ready : u.type = "Finish" => u.time = TimeMax
  BY <1>1, ReadyUndisturbed
<1>3. /\ now < TimeMax /\ TimeMax \in Nat /\ conf.limit <= TimeMax /\ conf.limit \in Nat
      /\ conf.o \in Nat /\ conf.g \in Nat
  BY <1>1, ConfType, BoundsAssumption, LimitAssumption DEF IdleInv, FinishIsLast, TypeOK
<1>4. queue' = (Ready \ {t}) \cup AllAdmitted(own) \cup Requested(reqs) \cup again
  BY DEF Schedule
<1>5. ASSUME NEW u \in AllAdmitted(own)
      PROVE  \E v \in own : u = v \/ (u.type = "Failure" /\ u.sender = v.sender /\ u.time = v.time
                                       /\ v.type \in {"RecvStart", "Init"})
  BY DEF AllAdmitted, Admitted, Task
<1>6. ASSUME NEW u \in Requested(reqs)
      PROVE  /\ u.type \in Harmless \cup {"Finish"} /\ u.sender = NotifiedNode(t)
             /\ u.type = "Finish" => u.time = TimeMax
  <2>1. PICK i \in DOMAIN reqs : /\ reqs[i].type # "Idle"
                                 /\ u \in Admitted(Numbered(reqs[i], FirstSeq + i - 1))
    BY DEF Requested
  <2> DEFINE m == Numbered(reqs[i], FirstSeq + i - 1)
  <2>2. reqs[i] \in Demand(NotifiedNode(t), Clock(t))
    BY <1>1, AskType
  <2>3. /\ reqs[i].type \in {"SendStart", "Timer", "Init", "Finish"}
        /\ reqs[i].sender = NotifiedNode(t)
        /\ reqs[i].type = "Finish" => reqs[i].time = TimeMax
    BY <2>1, <2>2 DEF Demand
  <2>4. m.type = reqs[i].type /\ m.sender = reqs[i].sender /\ m.time = reqs[i].time
    BY DEF Numbered
  <2>5. u = m \/ (u.type = "Failure" /\ u.sender = m.sender)
    BY <2>1 DEF Admitted, Numbered
  <2> QED BY <2>3, <2>4, <2>5 DEF Harmless
<1>7. \A u \in queue' : u.type = "Idle" => u \in Ready /\ u # t
  BY <1>4, <1>5, <1>6 DEF Harmless
<1>8. ASSUME NEW i \in Ready, i.type = "Idle"
      PROVE  t.time = now /\ now' = now /\ t.type # "Finish" /\ NotifiedNode(t) \in Node
  BY <1>1, <1>8, IdleComesFirst, ClockType
<1>9. NothingLasts'
  <2>1. \A n \in Node : sendGap[n] \in Nat /\ \A k \in Thread : cpu[n][k] \in Nat
    BY DEF TypeOK
  <2>2. SUFFICES ASSUME conf.o + conf.g = 0, NEW n \in Node
                 PROVE  sendGap'[n] <= now' /\ \A k \in Thread : cpu'[n][k] <= now'
    BY <1>1 DEF NothingLasts
  <2>3. conf.o = 0 /\ conf.g = 0
    BY <1>3, <2>2
  <2>4. sendGap[n] <= now /\ \A k \in Thread : cpu[n][k] <= now
    BY <2>2 DEF IdleInv, NothingLasts
  <2> QED BY <1>1, <2>1, <2>3, <2>4
<1>10. FinishIsLast'
  <2>1. \A u \in queue' : u.type = "Finish" => u.time = TimeMax
    <3>1. \A u \in again : u \in Ready
      BY <1>1
    <3> QED BY <1>2, <1>4, <1>5, <1>6, <3>1
  <2>2. status' = "running" => now' < conf.limit
    BY <1>1, <1>3 DEF Schedule
  <2> QED BY <1>1, <1>3, <2>1, <2>2 DEF FinishIsLast
<1>11. ASSUME conf.o + conf.g > 0, NEW i \in queue', i.type = "Idle"
       PROVE  t.type \in Harmless \cup {"Idle"} /\ t.sender # i.sender
  <2>1. i \in Ready /\ i # t /\ t.time = now /\ t.type # "Finish"
    BY <1>7, <1>8, <1>11
  <2>2. CASE t.type = "Idle"
    BY <1>1, <1>2, <1>11, <2>1, <2>2 DEF Undisturbed
  <2>3. CASE t.type # "Idle"
    BY <1>1, <1>2, <1>11, <2>1, <2>3 DEF Undisturbed
  <2> QED BY <2>2, <2>3
<1>12. ASSUME NEW i \in queue', i.type = "Idle"
       PROVE  /\ i.time = now' /\ CpuFree(i.sender, now)' /\ sendGap'[i.sender] <= now'
  <2>1. /\ i \in Ready /\ now' = now /\ i.time = now
        /\ CpuFree(i.sender, now) /\ sendGap[i.sender] <= now
    BY <1>2, <1>7, <1>8, <1>12 DEF Undisturbed
  <2>2. i.sender \in Node
    BY <2>1, ReadyType DEF Task
  <2>3. CASE conf.o + conf.g > 0
    <3>1. cpu'[i.sender] = cpu[i.sender] /\ sendGap'[i.sender] = sendGap[i.sender]
      BY <1>11, <1>12, <2>2, <2>3 DEF Harmless
    <3> QED BY <1>1, <2>1, <3>1 DEF CpuFree
  <2>4. CASE ~ (conf.o + conf.g > 0)
    <3>1. conf.o + conf.g = 0 /\ 1 \in Thread
      BY <1>3, <2>4, ConfType DEF Thread
    <3>2. sendGap'[i.sender] <= now' /\ cpu'[i.sender][1] <= now'
      BY <1>1, <1>9, <2>2, <3>1 DEF NothingLasts
    <3> QED BY <1>1, <2>1, <3>1, <3>2 DEF CpuFree
  <2> QED BY <2>3, <2>4
<1>13. ASSUME conf.o + conf.g > 0, NEW i \in queue', i.type = "Idle",
              NEW u \in queue', u.type \notin {"Idle", "Finish"}, u.time = now'
       PROVE  u.type \in Harmless /\ u.sender # i.sender
  <2>1. i \in Ready /\ now' = now /\ t.type \in Harmless \cup {"Idle"} /\ t.sender # i.sender
    BY <1>7, <1>8, <1>11, <1>13
  <2>2. CASE u \in Ready
    BY <1>2, <1>13, <2>1, <2>2 DEF Undisturbed
  <2>3. CASE u \in AllAdmitted(own)
    <3>1. PICK v \in own : u = v \/ (u.type = "Failure" /\ u.sender = v.sender /\ u.time = v.time
                                       /\ v.type \in {"RecvStart", "Init"})
      BY <1>5, <2>3
    <3>2. v.time = now' /\ v.sender = t.sender /\ v.type = "SendStart"
      BY <1>13, <2>1, <3>1
    <3> QED BY <2>1, <3>1, <3>2 DEF Harmless
  <2>4. CASE u \in Requested(reqs)
    <3>1. NotifiedNode(t) = t.sender
      BY <2>1 DEF NotifiedNode, Harmless
    <3> QED BY <1>6, <1>13, <2>1, <2>4, <3>1
  <2>5. again = {}
    BY <2>1 DEF Harmless
  <2> QED BY <1>4, <1>13, <2>2, <2>3, <2>4, <2>5
<1>14. ASSUME NEW i \in queue', NEW j \in queue', i.type = "Idle", j.type = "Idle", i.sender = j.sender
       PROVE  i = j
  BY <1>2, <1>7, <1>14 DEF Undisturbed
<1>15. Undisturbed(queue)'
  BY <1>1, <1>12, <1>13, <1>14 DEF Undisturbed
<1> QED BY <1>9, <1>10, <1>15 DEF IdleInv
-----------------------------------------------------------------------------
(* The steps of the open engine. *)
LEMMA InitIdle ==
  ASSUME NEW first \in Nat, QStart(first)
  PROVE  IdleInv
<1>1. \A u \in queue : u.type \notin {"Idle", "Finish"}
  BY DEF QStart, AllAdmitted, Admitted
<1>2. Undisturbed(queue)
  BY <1>1 DEF Undisturbed
<1>3. NothingLasts
  BY DEF QStart, NothingLasts
<1>4. FinishIsLast
  BY <1>1, LimitAssumption DEF QStart, FinishIsLast
<1> QED BY <1>2, <1>3, <1>4 DEF IdleInv

(* A task whose execute() leaves all nodes alone and schedules nothing. *)
LEMMA QuietStep ==
  ASSUME TypeOK, NoTimewarp, IdleInv, NEW t, Pop(t), NEW reqs \in Asks(t),
         NEW again \in SUBSET {t}, Schedule(t, {}, reqs, again),
         again = {} \/ t.type = "RecvEnd", UNCHANGED <<cpu, sendGap>>
  PROVE  IdleInv'
<1>1. {} \in SUBSET Task /\ \A u \in {} : u.type \notin {"Idle", "Finish"} /\ u.sender = t.sender
  OBVIOUS
<1>2. \A n \in Node : cpu'[n] = cpu[n] /\ sendGap'[n] = sendGap[n]
  OBVIOUS
<1> QED BY <1>1, <1>2, IdleStep

(* A message goes on, or its start has to wait. *)
LEMMA LaterStep ==
  ASSUME TypeOK, NoTimewarp, IdleInv, NEW t, Pop(t), NEW reqs \in Asks(t),
         NEW type \in {"Msg", "RecvStart", "SendStart"}, NEW at \in Nat,
         type = "SendStart" \/ t.type \notin Harmless \cup {"Idle"},
         Schedule(t, {[t EXCEPT !.type = type, !.time = at]}, reqs, {}),
         UNCHANGED <<cpu, sendGap>>
  PROVE  IdleInv'
<1> DEFINE u == [t EXCEPT !.type = type, !.time = at]
<1>1. t \in Task /\ type \in DOMAIN Priority
  BY PopClock DEF Priority
<1>2. u \in Task /\ u.type = type /\ u.sender = t.sender
  BY <1>1 DEF Task
<1>3. {u} \in SUBSET Task /\ {} \in SUBSET {t} /\ Schedule(t, {u}, reqs, {})
  BY <1>2
<1> HIDE DEF u
<1>4. /\ \A v \in {u} : v.type \notin {"Idle", "Finish"} /\ v.sender = t.sender
      /\ \A v \in {u} : v.type = "SendStart" \/ t.type \notin Harmless \cup {"Idle"}
  BY <1>2
<1>5. \A n \in Node : cpu'[n] = cpu[n] /\ sendGap'[n] = sendGap[n]
  OBVIOUS
<1> QED BY <1>3, <1>4, <1>5, IdleStep

(* An operation starts: its end lies ahead, unless it costs nothing. *)
LEMMA BusyStart ==
  ASSUME TypeOK, NoTimewarp, IdleInv, NEW t, Pop(t), NEW reqs \in Asks(t),
         NEW n \in Node, Occupy(n), NEW type \in {"SendEnd", "RecvEnd"},
         Schedule(t, {EndTask(t, type)}, reqs, {}),
         t.type = "RecvStart" \/ (t.type = "SendStart" /\ n = t.sender),
         sendGap' = sendGap \/ sendGap' = [sendGap EXCEPT ![n] = now' + conf.g]
  PROVE  IdleInv'
<1> DEFINE u == EndTask(t, type)
<1>1. t \in Task /\ now' \in Nat /\ conf.o \in Nat /\ conf.g \in Nat
  BY PopClock, ConfType
<1>2. LaterOf(conf.o, conf.g) \in Nat /\ (conf.o + conf.g > 0 => LaterOf(conf.o, conf.g) > 0)
  BY <1>1 DEF LaterOf
<1>3. now' + LaterOf(conf.o, conf.g) \in Nat /\ type \in DOMAIN Priority
  BY <1>1, <1>2 DEF Priority
<1>4. /\ u \in Task /\ u.type = type /\ u.sender = t.sender
      /\ u.time = now' + LaterOf(conf.o, conf.g)
  BY <1>1, <1>3 DEF EndTask, Task
<1>5. {u} \in SUBSET Task /\ {} \in SUBSET {t} /\ Schedule(t, {u}, reqs, {})
  BY <1>4
<1> HIDE DEF u
<1>6. /\ \A v \in {u} : v.type \notin {"Idle", "Finish"} /\ v.sender = t.sender
      /\ conf.o + conf.g > 0 => \A v \in {u} : v.time # now'
  BY <1>1, <1>2, <1>4
<1>7. PICK k \in Thread : cpu' = [cpu EXCEPT ![n][k] = now' + conf.o]
  BY DEF Occupy
<1>8. cpu \in [Node -> [Thread -> Nat]] /\ sendGap \in [Node -> Nat]
  BY DEF TypeOK
<1>9. \A m \in Node : m # n => cpu'[m] = cpu[m] /\ sendGap'[m] = sendGap[m]
  BY <1>7, <1>8
<1>10. \A m \in Node : \A j \in Thread : cpu'[m][j] = cpu[m][j] \/ cpu'[m][j] = now' + conf.o
  BY <1>7, <1>8
<1>11. \A m \in Node : sendGap'[m] = sendGap[m] \/ sendGap'[m] = now' + conf.g
  BY <1>8
<1> QED BY <1>5, <1>6, <1>9, <1>10, <1>11, IdleStep

LEMMA IdleUnchanged ==
  ASSUME IdleInv, UNCHANGED <<conf, queue, now, cpu, sendGap>>,
         status' = status \/ status' # "running"
  PROVE  IdleInv'
<1>1. \A n : CpuFree(n, now)' = CpuFree(n, now)
  BY DEF CpuFree, Thread
<1>2. Undisturbed(queue)'
  BY <1>1 DEF IdleInv, Undisturbed
<1>3. NothingLasts'
  BY DEF IdleInv, NothingLasts, Node, Thread
<1>4. FinishIsLast'
  BY DEF IdleInv, FinishIsLast
<1> QED BY <1>2, <1>3, <1>4 DEF IdleInv

LEMMA StepIdle ==
  ASSUME IInv, IdleInv, [OpenNext]_qvars
  PROVE  IdleInv'
<1>1. TypeOK /\ NoTimewarp /\ conf.L \in Nat
  BY ConfType DEF IInv
<1>2. ASSUME NEW t \in Ready, NEW reqs \in Asks(t), React(t, reqs)
      PROVE  IdleInv'
  <2>1. t \in Task /\ t.sender \in Node /\ t.receiver \in Node
    BY <1>1, ReadyType DEF Task
  <2>2. CASE SendStart(t, reqs)
    <3>1. /\ Pop(t) /\ Occupy(t.sender) /\ t.type = "SendStart"
          /\ Schedule(t, {EndTask(t, "SendEnd")}, reqs, {})
          /\ sendGap' = [sendGap EXCEPT ![t.sender] = now' + conf.g]
      BY <2>2 DEF SendStart
    <3> QED BY <1>1, <1>2, <2>1, <3>1, BusyStart
  <2>3. CASE RecvStart(t, reqs)
    <3>1. /\ Pop(t) /\ Occupy(t.receiver) /\ t.type = "RecvStart"
          /\ Schedule(t, {EndTask(t, "RecvEnd")}, reqs, {}) /\ sendGap' = sendGap
      BY <2>3 DEF RecvStart
    <3> QED BY <1>1, <1>2, <2>1, <3>1, BusyStart
  <2>4. CASE SendEnd(t, reqs)
    <3>1. /\ Pop(t) /\ Schedule(t, {[t EXCEPT !.type = "Msg", !.time = now']}, reqs, {})
          /\ UNCHANGED <<cpu, sendGap>> /\ t.type \notin Harmless \cup {"Idle"}
      BY <2>4 DEF SendEnd, Pass, timeline, Harmless
    <3>2. PICK at \in Nat : at = now'
      BY <1>1, <3>1, PopClock
    <3> QED BY <1>1, <1>2, <3>1, <3>2, LaterStep
  <2>5. CASE Idle(t, reqs) \/ Timer(t, reqs) \/ Init(t, reqs) \/ Finish(t, reqs)
    <3>1. Pop(t) /\ Schedule(t, {}, reqs, {}) /\ UNCHANGED <<cpu, sendGap>> /\ {} \in SUBSET {t}
      BY <2>5 DEF Idle, Timer, Init, Finish, Pass, timeline
    <3> QED BY <1>1, <1>2, <3>1, QuietStep
  <2>6. CASE \E again \in SUBSET {t} : RecvEnd(t, reqs, again)
    <3>1. PICK again \in SUBSET {t} : RecvEnd(t, reqs, again)
      BY <2>6
    <3>2. /\ Pop(t) /\ Schedule(t, {}, reqs, again) /\ UNCHANGED <<cpu, sendGap>>
          /\ t.type = "RecvEnd"
      BY <3>1 DEF RecvEnd, Pass, timeline
    <3> QED BY <1>1, <1>2, <3>2, QuietStep
  <2> QED BY <1>2, <2>2, <2>3, <2>4, <2>5, <2>6 DEF React
<1>3. ASSUME NEW t \in Ready, Silent(t)
      PROVE  IdleInv'
  <2>1. t \in Task /\ <<>> \in Asks(t)
    BY <1>1, ReadyType, NoRequests
  <2>2. ASSUME NEW n \in Node, NEW gap \in Nat, t.type \in {"SendStart", "RecvStart"}, Reschedule(t, n, gap)
        PROVE  IdleInv'
    <3>1. Pop(t) /\ now' \in Nat /\ UNCHANGED <<cpu, sendGap>>
      BY <1>1, <2>2, PopClock DEF Reschedule, timeline
    <3>2. PICK k \in Thread :
            Schedule(t, {[t EXCEPT !.time = LaterOf(LaterOf(cpu[n][k], gap), now')]}, <<>>, {})
      BY <2>2 DEF Reschedule
    <3>3. LaterOf(LaterOf(cpu[n][k], gap), now') \in Nat
      <4>1. cpu[n][k] \in Nat
        BY <1>1 DEF TypeOK
      <4> QED BY <2>2, <3>1, <4>1, LaterOfType
    <3>4. PICK at \in Nat : at = LaterOf(LaterOf(cpu[n][k], gap), now')
      BY <3>3
    <3>5. [t EXCEPT !.time = at] = [t EXCEPT !.type = t.type, !.time = at]
      BY <2>1 DEF Task
    <3>6. Schedule(t, {[t EXCEPT !.type = t.type, !.time = at]}, <<>>, {})
      BY <3>2, <3>4, <3>5
    <3>7. t.type = "SendStart" \/ t.type \notin Harmless \cup {"Idle"}
      BY <2>2 DEF Harmless
    <3> QED BY <1>1, <2>1, <2>2, <3>1, <3>6, <3>7, LaterStep
  <2>3. CASE DelaySend(t)
    BY <1>1, <2>1, <2>2, <2>3 DEF DelaySend, TypeOK, Task
  <2>4. CASE DelayRecv(t)
    BY <1>1, <2>1, <2>2, <2>4 DEF DelayRecv, TypeOK, Task
  <2>5. CASE Msg(t)
    <3>1. /\ Pop(t) /\ Schedule(t, {[t EXCEPT !.type = "RecvStart", !.time = now' + conf.L]}, <<>>, {})
          /\ UNCHANGED <<cpu, sendGap>> /\ t.type \notin Harmless \cup {"Idle"}
      BY <2>5 DEF Msg, Pass, timeline, Harmless
    <3>2. now' + conf.L \in Nat
      BY <1>1, <3>1, PopClock
    <3> QED BY <1>1, <2>1, <3>1, <3>2, LaterStep
  <2>6. CASE Failure(t)
    <3>1. Pop(t) /\ Schedule(t, {}, <<>>, {}) /\ UNCHANGED <<cpu, sendGap>> /\ {} \in SUBSET {t}
      BY <2>6 DEF Failure
    <3> QED BY <1>1, <2>1, <3>1, QuietStep
  <2>7. CASE ThrowFinish(t)
    <3>1. now' = now /\ conf' = conf /\ status' # "running"
      BY <2>7 DEF ThrowFinish, Clock, Pop
    <3> QED BY <2>7, <3>1, IdleUnchanged DEF ThrowFinish, timeline
  <2> QED BY <1>3, <2>3, <2>4, <2>5, <2>6, <2>7 DEF Silent
<1>4. CASE EmptyPop
  BY <1>4, IdleUnchanged DEF EmptyPop, timeline
<1>5. CASE UNCHANGED qvars
  BY <1>5, IdleUnchanged DEF qvars, timeline
<1>6. ASSUME NEW t \in Ready, NEW how, how # "running", Leave(t, how)
      PROVE  IdleInv'
  <2>1. Pop(t) /\ UNCHANGED <<queue, cpu, sendGap>> /\ status' # "running"
    BY <1>6 DEF Leave, timeline
  <2> QED BY <1>1, <2>1, LeftBehind
<1> QED BY <1>2, <1>3, <1>4, <1>5, <1>6 DEF OpenNext, Stopped

-----------------------------------------------------------------------------
(* An IdleTask is delivered to a node that can send: the one who is told   *)
(* so by IdleTracker::deliver_tasks is still free when the task is served. *)
THEOREM IdleIsFree == OpenSpec => []IdleMeansFree
<1>1. QStarted => IdleInv
  BY InitIdle DEF QStarted
<1>2. IInv /\ IdleInv /\ [OpenNext]_qvars => IdleInv'
  BY StepIdle
<1>3. IdleInv => IdleMeansFree
  BY DEF IdleInv, Undisturbed, IdleMeansFree
<1> QED BY <1>1, <1>2, <1>3, Invariance, PTL DEF OpenSpec
=============================================================================
