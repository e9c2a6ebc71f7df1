------------------------------ MODULE TaskQueue ------------------------------
(***************************************************************************)
(* The discrete-event engine of flogsim: the priority queue of tasks, the  *)
(* tracker of idle requests, the timelines of the nodes and the tasks      *)
(* that read and extend them (lib/task_queue.cpp, lib/task.cpp,            *)
(* include/task.hpp, include/event.hpp, lib/fault_injector.cpp).           *)
(*                                                                         *)
(* The engine is open: what the notified collective asks for in return is  *)
(* the parameter reqs of every action.  QNext lets it be any short         *)
(* sequence of requests a phase can make for the notified node; module     *)
(* Collective closes it with the phases of the program.                    *)
(*                                                                         *)
(* One step is one iteration of the loop of TaskQueue::run.                *)
(***************************************************************************)
EXTENDS Integers, FiniteSets, Sequences

CONSTANTS
  Configurations, \* the command lines: records, see IsConfiguration
  TimeMax,        \* Time::max(), the start of a FinishTask
  MaxSeq,         \* bound: the phases stop asking at this sequence number
  MaxRequests,    \* bound: requests made by one notification
  Delays,         \* bound: how far ahead a phase sets a timer
  SendTags        \* bound: the tags of the messages phases send

(***************************************************************************)
(* A configuration: the LogP parameters, the width of a cpu, the order of  *)
(* the queue (true: by tag first), the time limit and the failed nodes.    *)
(***************************************************************************)
IsConfiguration(c) ==
  /\ c.P \in Nat \ {0} /\ c.parallelism \in Nat \ {0}
  /\ c.L \in Nat /\ c.o \in Nat /\ c.g \in Nat
  /\ c.limit \in Nat /\ c.tagFirst \in BOOLEAN
  /\ c.failed \subseteq 0 .. c.P - 1

ASSUME ConfigurationsAssumption == \A c \in Configurations : IsConfiguration(c)

(* task_priority() of every kind of task; a lower one is served first. *)
Priority == [RecvStart |-> 3, RecvEnd |-> 4, Msg |-> 5, Timer |-> 5,
             Failure |-> 5, Init |-> 6, SendStart |-> 7, SendEnd |-> 8,
             Idle |-> 9, Finish |-> 10]

TagValue == [INIT |-> 1, TREE |-> 2, GOSSIP |-> 3, GATHER |-> 4,
             RING_LEFT |-> 10, RING_RIGHT |-> 11, INTERNAL |-> 20,
             EXCLUSIVE |-> 50]

ASSUME BoundsAssumption ==
  /\ TimeMax \in Nat /\ MaxSeq \in Nat /\ MaxRequests \in Nat
  /\ Delays \subseteq Nat /\ SendTags \subseteq DOMAIN TagValue

(* No time limit is beyond the largest time. *)
ASSUME LimitAssumption ==
  TimeMax > 0 /\ \A c \in Configurations : c.limit <= TimeMax

VARIABLES
  conf,      \* the configuration of this run, never changed
  queue,     \* the tasks in the heap
  now,       \* TaskQueue::current_time
  nextSeq,   \* the value Sequence::next() returns next
  pending,   \* IdleTracker::pending: nodes that want an IdleTask
  count,     \* IdleTracker::count
  wasIdle,   \* IdleTracker::was_idle, per node
  cpu,       \* end of the last CpuEvent of every thread of every node
  sendGap,   \* end of the last SendGap of every node
  recvGap,   \* end of the last RecvGap of every node
  worked,    \* nodes with at least one CpuEvent
  finished,  \* nodes with a FinishEvent
  failures,  \* nodes with a FailureEvent
  totalTime, \* Timeline::total_time
  status     \* how far TaskQueue::run has come

idle == <<pending, count, wasIdle>>
timeline == <<cpu, sendGap, recvGap, worked, finished, failures, totalTime>>
qvars == <<conf, queue, now, nextSeq, idle, timeline, status>>

Node == 0 .. conf.P - 1
Thread == 1 .. conf.parallelism
LaterOf(a, b) == IF a < b THEN b ELSE a

Task == [type : DOMAIN Priority, tag : DOMAIN TagValue, time : Nat,
         seq : Nat, sender : Node, receiver : Node]

-----------------------------------------------------------------------------
(* Task::operator<: time, with --priority tag the tag, priority, sequence. *)
Key(t) == << t.time,
             IF conf.tagFirst THEN TagValue[t.tag] ELSE 0,
             Priority[t.type],
             t.seq >>

Precedes(a, b) ==
  LET x == Key(a)
      y == Key(b)
  IN \E i \in 1 .. 4 : x[i] < y[i] /\ \A j \in 1 .. i - 1 : x[j] = y[j]

IsTop(t, tasks) == t \in tasks /\ \A u \in tasks : ~ Precedes(u, t)

(* EventQueue::earliest_start_time() <= at: some thread has nothing later. *)
CpuFree(n, at) == \E k \in Thread : cpu[n][k] <= at

(* EventQueue::append: the first of the threads with the least slack. *)
BestFit(n, k, at) ==
  /\ cpu[n][k] <= at
  /\ \A j \in Thread : cpu[n][j] <= at =>
       cpu[n][j] < cpu[n][k] \/ (cpu[n][j] = cpu[n][k] /\ k <= j)

(* Mutants of Deliverable: who did not ask is served; the gap is forgotten. *)
DeliverableUnasked(n) == wasIdle[n] # 0 /\ CpuFree(n, now) /\ sendGap[n] <= now
DeliverableInGap(n) == pending[n] /\ wasIdle[n] # 0 /\ CpuFree(n, now)

(***************************************************************************)
(* IdleTracker::deliver_tasks: when the next task belongs to another       *)
(* timestamp, every node that waits for it, did not use all its threads in *)
(* this one and can send now gets an IdleTask, in the order of the nodes.  *)
(***************************************************************************)
NextTimestamp == \A t \in queue : t.time = now => ~ IsTop(t, queue)

Deliverable(n) ==
  /\ pending[n] /\ wasIdle[n] # 0
  /\ CpuFree(n, now) /\ sendGap[n] <= now

Before(n, nodes) == Cardinality({m \in nodes : m < n})

Delivered ==
  IF NextTimestamp
  THEN {n \in Node : Deliverable(n) /\ Before(n, {m \in Node : Deliverable(m)}) < count}
  ELSE {}

IdleTask(n) == [type |-> "Idle", tag |-> "INTERNAL", time |-> now,
                seq |-> nextSeq + Before(n, Delivered), sender |-> n, receiver |-> n]

Ready == queue \cup {IdleTask(n) : n \in Delivered}

-----------------------------------------------------------------------------
(* TaskQueue::pop: only a FinishTask does not move the clock. *)
Clock(t) == IF t.type = "Finish" THEN now ELSE t.time

Pop(t) ==
  /\ status = "running"
  /\ IsTop(t, Ready)
  /\ now' = Clock(t)
  /\ conf' = conf

(* Mutant of MarkIdle: was_idle is not reset when time moves on. *)
MarkIdleForever(t, busy) ==
  wasIdle' = [n \in Node |-> wasIdle[n] - (IF n \in busy THEN 1 ELSE 0)]

(* progress() forgets who was busy when time moves on; mark_nonidle(). *)
MarkIdle(t, busy) ==
  wasIdle' = [n \in Node |->
                (IF Clock(t) = now THEN wasIdle[n] ELSE conf.parallelism)
                  - (IF n \in busy THEN 1 ELSE 0)]

(* ListFaults::failure and the reaction of TaskQueue::schedule to it. *)
Admitted(t) ==
  IF t.type \in {"RecvStart", "Init"} /\ t.receiver \in conf.failed
  THEN {[t EXCEPT !.type = "Failure"]}
  ELSE IF t.type \in {"SendStart", "Finish"} /\ t.sender \in conf.failed
       THEN {}
       ELSE {t}

AllAdmitted(tasks) == UNION {Admitted(t) : t \in tasks}

(***************************************************************************)
(* Requests carry no sequence number: make_new takes the next one.  A      *)
(* request for an IdleTask only marks the node.                            *)
(***************************************************************************)
Numbered(r, s) == [type |-> r.type, tag |-> r.tag, time |-> r.time, seq |-> s,
                   sender |-> r.sender, receiver |-> r.receiver]

FirstSeq == nextSeq + Cardinality(Delivered)

(* Mutant of Requested: one number for all requests of a notification. *)
RequestedOnce(reqs) ==
  UNION {Admitted(Numbered(reqs[i], FirstSeq)) :
           i \in {j \in DOMAIN reqs : reqs[j].type # "Idle"}}

Requested(reqs) ==
  UNION {Admitted(Numbered(reqs[i], FirstSeq + i - 1)) :
           i \in {j \in DOMAIN reqs : reqs[j].type # "Idle"}}

IdleWishes(reqs) == {reqs[i].sender : i \in {j \in DOMAIN reqs : reqs[j].type = "Idle"}}

(***************************************************************************)
(* Everything scheduled while t is served: what its own execute()          *)
(* schedules, the requests of the notified collective, and the tasks it    *)
(* schedules again unchanged.  Then the conditions of the loop.            *)
(***************************************************************************)
Schedule(t, own, reqs, again) ==
  LET left   == {n \in Node : pending[n]} \ Delivered
      wishes == IdleWishes(reqs)
  IN /\ queue' = (Ready \ {t}) \cup AllAdmitted(own) \cup Requested(reqs) \cup again
     /\ nextSeq' = FirstSeq + Len(reqs)
     /\ pending' = [n \in Node |-> n \in left \cup wishes]
     /\ count' = count - Cardinality(Delivered) + Cardinality(wishes \ left)
     /\ status' = IF now' >= conf.limit THEN "limit"
                  ELSE IF queue' = {} /\ count' <= 0 THEN "done"
                  ELSE "running"

(* Mutant of Occupy: the event has no length. *)
OccupyNoTime(n) ==
  /\ \E k \in Thread : BestFit(n, k, now') /\ cpu' = [cpu EXCEPT ![n][k] = now']
  /\ worked' = worked \cup {n}

(* append() of a CpuEvent to node n, which occupies a thread for o. *)
Occupy(n) ==
  /\ \E k \in Thread : /\ BestFit(n, k, now')
                       /\ cpu' = [cpu EXCEPT ![n][k] = now' + conf.o]
  /\ worked' = worked \cup {n}

(* Mutants of EndTask: subtracted, not added; without the start; without   *)
(* the gap.                                                                *)
EndTaskBackwards(t, type) == [t EXCEPT !.type = type, !.time = now' - LaterOf(conf.o, conf.g)]
EndTaskFromZero(t, type) == [t EXCEPT !.type = type, !.time = LaterOf(conf.o, conf.g)]
EndTaskWithoutGap(t, type) == [t EXCEPT !.type = type, !.time = now' + conf.o]

(* The task that ends what t starts; both the overhead and the gap pass. *)
EndTask(t, type) == [t EXCEPT !.type = type, !.time = now' + LaterOf(conf.o, conf.g)]

-----------------------------------------------------------------------------
(* The actions: execute() and notify() of every kind of task. *)

(* SendStartTask::execute, the sender has a thread and its gap has passed. *)
SendStart(t, reqs) ==
  /\ t.type = "SendStart" /\ Pop(t)
  /\ CpuFree(t.sender, now') /\ sendGap[t.sender] <= now'
  /\ Occupy(t.sender)
  /\ sendGap' = [sendGap EXCEPT ![t.sender] = now' + conf.g]
  /\ MarkIdle(t, {t.sender})
  /\ Schedule(t, {EndTask(t, "SendEnd")}, reqs, {})
  /\ UNCHANGED <<recvGap, finished, failures, totalTime>>

RecvStart(t, reqs) ==
  /\ t.type = "RecvStart" /\ Pop(t)
  /\ CpuFree(t.receiver, now') /\ recvGap[t.receiver] <= now'
  /\ Occupy(t.receiver)
  /\ recvGap' = [recvGap EXCEPT ![t.receiver] = now' + conf.g]
  /\ MarkIdle(t, {t.receiver})
  /\ Schedule(t, {EndTask(t, "RecvEnd")}, reqs, {})
  /\ UNCHANGED <<sendGap, finished, failures, totalTime>>

(***************************************************************************)
(* Either start finds its node busy: the same task at the time the node is *)
(* free, and nobody is notified.  k is a thread that is free the earliest. *)
(***************************************************************************)
Reschedule(t, n, gap) ==
  /\ Pop(t)
  /\ ~ (CpuFree(n, now') /\ gap <= now')
  /\ \E k \in Thread :
       /\ \A j \in Thread : cpu[n][k] <= cpu[n][j]
       /\ Schedule(t, {[t EXCEPT !.time = LaterOf(LaterOf(cpu[n][k], gap), now')]}, <<>>, {})
  /\ MarkIdle(t, {})
  /\ UNCHANGED timeline

DelaySend(t) == t.type = "SendStart" /\ Reschedule(t, t.sender, sendGap[t.sender])
DelayRecv(t) == t.type = "RecvStart" /\ Reschedule(t, t.receiver, recvGap[t.receiver])

(* A task whose execute() schedules own and leaves the timeline alone. *)
Pass(t, own, reqs, again) ==
  /\ Pop(t)
  /\ MarkIdle(t, {})
  /\ Schedule(t, own, reqs, again)
  /\ UNCHANGED timeline

SendEnd(t, reqs) == t.type = "SendEnd" /\ Pass(t, {[t EXCEPT !.type = "Msg", !.time = now']}, reqs, {})

(* The message crosses the network; nobody is notified. *)
Msg(t) ==
  /\ t.type = "Msg"
  /\ Pass(t, {[t EXCEPT !.type = "RecvStart", !.time = now' + conf.L]}, <<>>, {})

(* A combiner may hand the task to the next phase: it is scheduled again. *)
RecvEnd(t, reqs, again) == t.type = "RecvEnd" /\ again \subseteq {t} /\ Pass(t, {}, reqs, again)

Idle(t, reqs) == t.type = "Idle" /\ Pass(t, {}, reqs, {})
Timer(t, reqs) == t.type = "Timer" /\ Pass(t, {}, reqs, {})
Init(t, reqs) == t.type = "Init" /\ Pass(t, {}, reqs, {})

(* FinishTask::execute: a FinishEvent when the last CpuEvent of the node ends. *)
Finish(t, reqs) ==
  /\ t.type = "Finish" /\ t.sender \in worked /\ Pop(t)
  /\ finished' = finished \cup {t.sender}
  /\ \E k \in Thread : /\ \A j \in Thread : cpu[t.sender][j] <= cpu[t.sender][k]
                       /\ totalTime' = LaterOf(totalTime, cpu[t.sender][k])
  /\ MarkIdle(t, {})
  /\ Schedule(t, {}, reqs, {})
  /\ UNCHANGED <<cpu, sendGap, recvGap, worked, failures>>

(* "CPU done without ever doing anything" leaves the loop. *)
ThrowFinish(t) ==
  /\ t.type = "Finish" /\ t.sender \notin worked /\ Pop(t)
  /\ status' = "thrown"
  /\ UNCHANGED <<queue, nextSeq, idle, timeline>>

(* A phase that is initialised throws, or fails an assertion of its own:   *)
(* the loop is left at once, and nobody looks at the heap any more.        *)
Leave(t, how) ==
  /\ t.type = "Init" /\ Pop(t)
  /\ MarkIdle(t, {})
  /\ status' = how
  /\ UNCHANGED <<queue, nextSeq, pending, count, timeline>>

Failure(t) ==
  /\ t.type = "Failure" /\ Pop(t)
  /\ failures' = failures \cup {t.receiver}
  /\ totalTime' = LaterOf(totalTime, t.time)
  /\ MarkIdle(t, {})
  /\ Schedule(t, {}, <<>>, {})
  /\ UNCHANGED <<cpu, sendGap, recvGap, worked, finished>>

(* The assertion of TaskQueue::pop: only idle requests are left, and none *)
(* of them can be delivered.                                              *)
EmptyPop ==
  /\ status = "running" /\ Ready = {}
  /\ status' = "aborted"
  /\ UNCHANGED <<conf, queue, now, nextSeq, idle, timeline>>

Stopped == status # "running" /\ UNCHANGED qvars

-----------------------------------------------------------------------------
(* The open engine. *)

(* Collective::accept: which node a task is reported to. *)
NotifiedNode(t) == IF t.type = "RecvEnd" THEN t.receiver ELSE t.sender

Request(n, at) ==
  [type : {"SendStart"}, tag : SendTags, time : {at}, sender : {n}, receiver : Node \ {n}]
    \cup [type : {"Timer"}, tag : {"INTERNAL", "EXCLUSIVE"}, time : {at + d : d \in Delays},
          sender : {n}, receiver : {n}]
    \cup [type : {"Init"}, tag : {"INIT"}, time : {at}, sender : {n}, receiver : {n}]
    \cup [type : {"Idle"}, tag : {"INTERNAL"}, time : {0}, sender : {n}, receiver : {n}]
    \cup [type : {"Finish"}, tag : {"INTERNAL"}, time : {TimeMax}, sender : {n}, receiver : {n}]

Reactions(t) ==
  {reqs \in UNION {[1 .. k -> Request(NotifiedNode(t), Clock(t))] : k \in 0 .. MaxRequests} :
     reqs = <<>> \/ nextSeq + Len(reqs) <= MaxSeq}

React(t, reqs) ==
  \/ SendStart(t, reqs) \/ RecvStart(t, reqs) \/ SendEnd(t, reqs)
  \/ Idle(t, reqs) \/ Timer(t, reqs) \/ Init(t, reqs) \/ Finish(t, reqs)
  \/ \E again \in SUBSET {t} : RecvEnd(t, reqs, again)

Silent(t) == DelaySend(t) \/ DelayRecv(t) \/ Msg(t) \/ Failure(t) \/ ThrowFinish(t)

(* Collective::run schedules an InitTask for every node, then the loop. *)
QInit ==
  /\ conf \in Configurations
  /\ queue = AllAdmitted({[type |-> "Init", tag |-> "INIT", time |-> 0, seq |-> n,
                            sender |-> n, receiver |-> n] : n \in Node})
  /\ now = 0 /\ nextSeq = conf.P
  /\ pending = [n \in Node |-> FALSE] /\ count = 0
  /\ wasIdle = [n \in Node |-> conf.parallelism]
  /\ cpu = [n \in Node |-> [k \in Thread |-> 0]]
  /\ sendGap = [n \in Node |-> 0] /\ recvGap = [n \in Node |-> 0]
  /\ worked = {} /\ finished = {} /\ failures = {} /\ totalTime = 0
  /\ status = "running"

QNext ==
  \/ \E t \in Ready : \/ Silent(t)
                      \/ \E how \in {"thrown", "asserted"} : Leave(t, how)
                      \/ \E reqs \in Reactions(t) : React(t, reqs)
  \/ EmptyPop
  \/ Stopped

QSpec == QInit /\ [][QNext]_qvars

-----------------------------------------------------------------------------
(***************************************************************************)
(* The shape of the state.  A node that starts more than parallelism tasks *)
(* in one timestamp drives its was_idle below zero, so it is an integer.   *)
(***************************************************************************)
TypeOK ==
  /\ conf \in Configurations
  /\ queue \subseteq Task
  /\ now \in Nat /\ nextSeq \in Nat /\ count \in Int /\ totalTime \in Nat
  /\ pending \in [Node -> BOOLEAN] /\ wasIdle \in [Node -> Int]
  /\ cpu \in [Node -> [Thread -> Nat]]
  /\ sendGap \in [Node -> Nat] /\ recvGap \in [Node -> Nat]
  /\ worked \subseteq Node /\ finished \subseteq Node /\ failures \subseteq Node
  /\ status \in {"running", "done", "limit", "thrown", "asserted", "aborted"}

(* "Let's not do the timewarp again": the clock never has to go back; it   *)
(* is the assertion of TaskQueue::progress, seen from the tasks in the     *)
(* heap, whatever sends, timers and failures put there.                    *)
NoTimewarp == \A t \in queue : Clock(t) >= now

(* IdleTracker::count is the number of nodes marked pending, which its two *)
(* users keep apart: the loop goes on while it is positive.                *)
CountMatchesPending == count = Cardinality({n \in Node : pending[n]})

(* The idle tracker never strands a request: when only idle requests are   *)
(* left and none can be delivered, which the assertion of TaskQueue::pop   *)
(* rules out, then operations cost nothing (o = g = 0).  Otherwise whoever *)
(* made a node busy still has its end task in the heap.                    *)
EmptyPopOnlyWithoutCosts == status = "aborted" => conf.o = 0 /\ conf.g = 0

(* Whoever made a node busy still has its end task in the heap: the reason *)
(* why the idle tracker may skip a node that is busy or was busy in this   *)
(* timestamp and trust that there is a later iteration to ask again.       *)
EndTaskIn(tasks, at) == \E u \in tasks : u.type \in {"SendEnd", "RecvEnd"} /\ u.time >= at

BusyNodesHaveEndTasks ==
  /\ conf.o + conf.g > 0 =>
       \A n \in Node : wasIdle[n] # conf.parallelism => EndTaskIn(queue, now + 1)
  /\ \A n \in Node : \A k \in Thread : cpu[n][k] > now => EndTaskIn(queue, cpu[n][k])
  /\ \A n \in Node : sendGap[n] > now => EndTaskIn(queue, sendGap[n])

(* "This task is delivered, when a node can send once again": while an     *)
(* IdleTask waits behind the others of its timestamp, nobody takes the cpu *)
(* or the send gap of its node.                                            *)
IdleMeansFree ==
  \A t \in queue : t.type = "Idle" =>
    t.time = now /\ CpuFree(t.sender, now) /\ sendGap[t.sender] <= now

(* The order of the heap is total: the pairing heap never has to choose    *)
(* between equal tasks, so a run is determined by its seed.  A message has *)
(* one sequence number all its life, and only one task at a time.          *)
TopIsUnique == \A t, u \in queue : t.seq = u.seq => t = u

(* The LogP rules: the operations in progress on a node never exceed its   *)
(* threads, and neither two sends nor two receives are within one gap.     *)
InProgress(type, n, length) ==
  {t \in queue : /\ t.type = type
                 /\ n = IF type = "SendEnd" THEN t.sender ELSE t.receiver
                 /\ t.time - LaterOf(conf.o, conf.g) + length > now}

LogPCapacity ==
  \A n \in Node :
    /\ Cardinality(InProgress("SendEnd", n, conf.o))
         + Cardinality(InProgress("RecvEnd", n, conf.o)) <= conf.parallelism
    /\ Cardinality(InProgress("SendEnd", n, conf.g)) <= 1
    /\ Cardinality(InProgress("RecvEnd", n, conf.g)) <= 1
=============================================================================
