------------------------------ MODULE EventQueue ------------------------------
(***************************************************************************)
(* The timeline of one resource of a node, with all its events             *)
(* (include/event.hpp): several threads, each a chronological list.  An    *)
(* event takes the time o of the machine (CpuEvent) or g (SendGap,         *)
(* RecvGap).  Module TaskQueue keeps the ends of the threads only, which   *)
(* is all that the tasks read; this module also has the phases that walk   *)
(* over all events when the root finishes (lib/phase/tree.cpp).            *)
(*                                                                         *)
(* The clock of the caller never goes back (theorem NeverTimewarp).        *)
(***************************************************************************)
EXTENDS Naturals, Sequences, FiniteSets

CONSTANTS
  Shapes,   \* the widths and lengths of the timelines
  MaxStart, \* bound: the last start of an event
  MaxEvents \* bound: the number of events

ASSUME ShapesAssumption == Shapes \subseteq [width : Nat \ {0}, length : Nat]
ASSUME BoundsAssumption == MaxStart \in Nat /\ MaxEvents \in Nat

VARIABLES
  width,   \* EventQueue::queue.size()
  length,  \* end() - start() of an event
  now,     \* the clock of the caller
  events,  \* EventThread::events of every thread
  nextSeq, \* the sequence number of the next event
  walk,    \* the iterator: "none" is under way, at an "event", or "done"
  at,      \* const_iterator::thread and event
  seen     \* the positions the present walk has been at

vars == <<width, length, now, events, nextSeq, walk, at, seen>>

Thread == 1 .. width
Time == 0 .. MaxStart

(* A position: a thread and an index of its list. *)
Positions == UNION {{k} \X DOMAIN events[k] : k \in Thread}
EventAt(p) == events[p[1]][p[2]]
EndOf(event) == event.start + length

-----------------------------------------------------------------------------
(* Mutant of LastOrZero: the front of the deque. *)
FirstOrZero(k) == IF events[k] = <<>> THEN 0 ELSE EndOf(events[k][1])

(* get_last_or_zero() *)
LastOrZero(k) == IF events[k] = <<>> THEN 0 ELSE EndOf(events[k][Len(events[k])])

(* earliest_start_time() <= t, empty(), and e is end(). *)
AcceptsAt(t) == \E k \in Thread : LastOrZero(k) <= t
Empty == \A k \in Thread : events[k] = <<>>

(* Mutant of IsEnd: the end of the first thread. *)
IsEndOfFirst(e) == e = LastOrZero(1)
IsEnd(e) == \E k \in Thread : e = LastOrZero(k) /\ \A j \in Thread : LastOrZero(j) <= e

(* Mutants of BestFit: of several threads the last one, the busiest one.   *)
BestFitLast(k, t) ==
  /\ LastOrZero(k) <= t
  /\ \A j \in Thread : LastOrZero(j) <= t =>
       LastOrZero(j) < LastOrZero(k) \/ (LastOrZero(j) = LastOrZero(k) /\ j <= k)
BestFitBusiest(k, t) ==
  \A j \in Thread : LastOrZero(j) < LastOrZero(k) \/ (LastOrZero(j) = LastOrZero(k) /\ k <= j)

(* append(): the thread with the least slack, the first of several. *)
BestFit(k, t) ==
  /\ LastOrZero(k) <= t
  /\ \A j \in Thread : LastOrZero(j) <= t =>
       LastOrZero(j) < LastOrZero(k) \/ (LastOrZero(j) = LastOrZero(k) /\ k <= j)

(* A task starts an operation: it looks at earliest_start_time() first. *)
AppendEvent(t) ==
  /\ walk # "event" /\ nextSeq <= MaxEvents
  /\ now <= t /\ AcceptsAt(t)
  /\ \E k \in Thread :
       /\ BestFit(k, t)
       /\ events' = [events EXCEPT ![k] = Append(@, [seq |-> nextSeq, start |-> t])]
  /\ now' = t /\ nextSeq' = nextSeq + 1
  /\ walk' = "none" /\ seen' = {}
  /\ UNCHANGED <<width, length, at>>

-----------------------------------------------------------------------------
(* begin(): the first event of the first thread.  FinishTask::execute threw *)
(* if there was none; several phases may walk, one after the other.         *)
BeginWalk ==
  /\ walk # "event" /\ ~ Empty
  /\ walk' = "event" /\ at' = <<1, 1>> /\ seen' = {}
  /\ UNCHANGED <<width, length, now, events, nextSeq>>

(* Mutant of NextThread: the next one, whether it has events or not. *)
NextThreadAny(k) == k = at[1] + 1

(* operator++ looks for the next thread that has events. *)
NextThread(k) ==
  /\ at[1] < k /\ events[k] # <<>>
  /\ \A j \in Thread : at[1] < j /\ j < k => events[j] = <<>>

(* The body of the loop reads the event; operator++. *)
Advance ==
  /\ walk = "event"
  /\ seen' = seen \cup {at}
  /\ \/ /\ at[2] < Len(events[at[1]])
        /\ at' = <<at[1], at[2] + 1>> /\ walk' = "event"
     \/ /\ at[2] >= Len(events[at[1]])
        /\ \E k \in Thread : NextThread(k) /\ at' = <<k, 1>> /\ walk' = "event"
     \/ /\ at[2] >= Len(events[at[1]])
        /\ ~ \E k \in Thread : NextThread(k)
        /\ at' = at /\ walk' = "done"
  /\ UNCHANGED <<width, length, now, events, nextSeq>>

Init ==
  /\ \E shape \in Shapes : width = shape.width /\ length = shape.length
  /\ now = 0 /\ nextSeq = 1
  /\ events = [k \in Thread |-> <<>>]
  /\ walk = "none" /\ at = <<1, 1>> /\ seen = {}

Next == (\E t \in Time : AppendEvent(t)) \/ BeginWalk \/ Advance
Spec == Init /\ [][Next]_vars

-----------------------------------------------------------------------------
Event == [seq : Nat \ {0}, start : Nat]

TypeOK ==
  /\ width \in Nat \ {0} /\ length \in Nat /\ now \in Nat /\ nextSeq \in Nat \ {0}
  /\ events \in [Thread -> Seq(Event)]
  /\ walk \in {"none", "event", "done"} /\ at \in Thread \X (Nat \ {0})
  /\ seen \subseteq Positions

(* "Each line contains a chronologically ordered deque of events": the      *)
(* events of a thread do not overlap, and none of them starts in the future. *)
Chronological ==
  \A k \in Thread : \A i, j \in DOMAIN events[k] :
    /\ events[k][i].start <= now
    /\ i < j => EndOf(events[k][i]) <= events[k][j].start

(* Threads are used in their order: one without events is followed by no   *)
(* thread with events, also when events take no time.  begin() relies on   *)
(* it: it reads the first thread without a look at whether it is empty.    *)
UsedInOrder ==
  \A j, k \in Thread : j < k /\ events[j] = <<>> => events[k] = <<>>

(* The iterator is always at an event, at none twice, and has been at all  *)
(* of them in the end.                                                     *)
WalkVisitsAll ==
  /\ walk = "event" => at \in Positions \ seen
  /\ walk = "done" => seen = Positions

(* end(), which is when the node finishes: no event ends later. *)
EndIsLatest ==
  \A e \in {LastOrZero(k) : k \in Thread} : IsEnd(e) => \A p \in Positions : EndOf(EventAt(p)) <= e

(* earliest_start_time() knows the ends of the threads only, but says no   *)
(* exactly if as many operations go on as there are threads.               *)
AcceptsIfFree ==
  \A t \in Time : now <= t =>
    (AcceptsAt(t) <=> Cardinality({p \in Positions : EndOf(EventAt(p)) > t}) < width)

(* The timeline implements the abstract one, which knows no threads: the   *)
(* operations that go on never exceed its width.                           *)
Starts ==
  [i \in 1 .. nextSeq - 1 |->
     EventAt(CHOOSE p \in Positions : EventAt(p).seq = i).start]
Abstract == INSTANCE Slots WITH starts <- Starts
ImplementsSlots == Abstract!Spec
=============================================================================
