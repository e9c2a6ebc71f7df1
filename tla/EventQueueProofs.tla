--------------------------- MODULE EventQueueProofs ---------------------------
(***************************************************************************)
(* The timelines, for any number of threads and any length of an event:    *)
(* the inductive invariant and its consequences.                           *)
(***************************************************************************)
EXTENDS EventQueue, FiniteSetTheorems, SequenceTheorems, TLAPS

(* The positions before the iterator, in the order of the walk. *)
Passed == {p \in Positions : p[1] < at[1] \/ (p[1] = at[1] /\ p[2] < at[2])}

(* A walk has seen exactly what it passed. *)
WalkInOrder ==
  /\ walk = "event" => at \in Positions /\ seen = Passed
  /\ walk = "done" => seen = Positions

IInv == TypeOK /\ Chronological /\ UsedInOrder /\ WalkInOrder

(* Reading get_last_or_zero() yields a time, which the events of the thread *)
(* do not exceed.                                                           *)
LEMMA LastOrZeroBounds ==
  ASSUME TypeOK, Chronological, NEW k \in Thread
  PROVE  /\ LastOrZero(k) \in Nat
         /\ \A i \in DOMAIN events[k] : EndOf(events[k][i]) <= LastOrZero(k)
<1> DEFINE last == Len(events[k])
<1>1. events[k] \in Seq(Event) /\ length \in Nat
  BY DEF TypeOK
<1>2. CASE events[k] = <<>>
  BY <1>2 DEF LastOrZero
<1>3. CASE events[k] # <<>>
  <2>1. last \in DOMAIN events[k] /\ \A i \in DOMAIN events[k] : events[k][i] \in Event /\ i \in Nat /\ i <= last
    BY <1>1, <1>3
  <2>2. LastOrZero(k) = events[k][last].start + length
    BY <1>3 DEF LastOrZero, EndOf
  <2>3. ASSUME NEW i \in DOMAIN events[k]
        PROVE  events[k][i].start + length <= events[k][last].start + length
    <3>1. events[k][i].start \in Nat /\ events[k][last].start \in Nat
      BY <2>1, <2>3 DEF Event
    <3>2. i = last \/ i < last
      BY <2>1, <2>3
    <3>3. i < last => events[k][i].start + length <= events[k][last].start
      BY <2>1, <2>3 DEF Chronological, EndOf
    <3> QED
      BY <1>1, <3>1, <3>2, <3>3
  <2> QED
    BY <1>1, <2>1, <2>2, <2>3 DEF EndOf, Event
<1> QED
  BY <1>2, <1>3

THEOREM InitInvariant == Init => IInv
<1> SUFFICES ASSUME Init PROVE IInv
  OBVIOUS
<1>1. width \in Nat \ {0} /\ length \in Nat
  BY ShapesAssumption DEF Init
<1>2. \A k \in Thread : events[k] = <<>>
  BY DEF Init
<1>3. Positions = {}
  BY <1>2 DEF Positions
<1>4. TypeOK
  BY <1>1, <1>3 DEF Init, TypeOK, Thread
<1> QED
  BY <1>2, <1>4 DEF Init, IInv, Chronological, UsedInOrder, WalkInOrder

(* What append() changes: one list, by one event that starts now. *)
LEMMA AppendKeeps ==
  ASSUME IInv, NEW t \in Time, AppendEvent(t)
  PROVE  IInv'
<1>1. PICK k \in Thread : /\ BestFit(k, t)
                          /\ events' = [events EXCEPT ![k] = Append(@, [seq |-> nextSeq, start |-> t])]
  BY DEF AppendEvent
<1> DEFINE new == [seq |-> nextSeq, start |-> t]
           last == Len(events[k])
<1>2. /\ width' = width /\ length' = length /\ now' = t /\ now <= t
      /\ walk' = "none" /\ seen' = {} /\ at' = at /\ nextSeq' = nextSeq + 1
  BY DEF AppendEvent
<1>3. Thread' = Thread /\ t \in Nat /\ now \in Nat /\ length \in Nat
  BY <1>2, BoundsAssumption DEF Thread, Time, IInv, TypeOK
<1>4. events \in [Thread -> Seq(Event)] /\ new \in Event
  BY <1>3 DEF IInv, TypeOK, Event
<1>5. /\ events'[k] = Append(events[k], new)
      /\ \A j \in Thread : j # k => events'[j] = events[j]
  BY <1>1, <1>4
<1>6. TypeOK'
  <2>1. events' \in [Thread -> Seq(Event)]
    BY <1>1, <1>4
  <2> QED
    BY <1>2, <1>3, <2>1 DEF IInv, TypeOK
<1>7. Chronological'
  <2> SUFFICES ASSUME NEW j \in Thread, NEW a \in DOMAIN events'[j], NEW b \in DOMAIN events'[j]
               PROVE  /\ events'[j][a].start <= t
                      /\ a < b => events'[j][a].start + length <= events'[j][b].start
    BY <1>2, <1>3 DEF Chronological, EndOf
  <2>1. CASE j # k
    <3>1. events'[j] = events[j]
      BY <1>5, <2>1
    <3>2. a \in DOMAIN events[j] /\ events[j] \in Seq(Event)
      BY <1>4, <3>1
    <3>3. events[j][a].start \in Nat
      <4>1. events[j][a] \in Event
        BY <3>2
      <4> QED
        BY <4>1 DEF Event
    <3>4. b \in DOMAIN events[j]
      BY <3>1
    <3>5. events[j][a].start <= now /\ (a < b => events[j][a].start + length <= events[j][b].start)
      BY <3>2, <3>4 DEF IInv, Chronological, EndOf
    <3> QED
      BY <1>2, <1>3, <3>1, <3>3, <3>5
  <2>2. CASE j = k
    <3>1. /\ LastOrZero(k) \in Nat /\ LastOrZero(k) <= t
          /\ \A i \in DOMAIN events[k] : events[k][i].start + length <= LastOrZero(k)
      BY <1>1, LastOrZeroBounds DEF IInv, BestFit, EndOf
    <3>2. /\ a \in 1 .. last + 1 /\ b \in 1 .. last + 1 /\ last \in Nat
          /\ DOMAIN events[k] = 1 .. last
      BY <1>4, <1>5, <2>2
    <3>3. \A i \in 1 .. last : events'[k][i] = events[k][i] /\ events[k][i] \in Event
      BY <1>4, <1>5, <3>2
    <3>4. events'[k][last + 1].start = t
      BY <1>4, <1>5
    <3>5. \A i \in 1 .. last : /\ events[k][i].start \in Nat
                               /\ events[k][i].start + length <= t
      BY <1>3, <3>1, <3>2, <3>3 DEF Event
    <3>6. CASE a \in 1 .. last /\ b \in 1 .. last
      <4>1. a < b => events[k][a].start + length <= events[k][b].start
        BY <3>2, <3>6 DEF IInv, Chronological, EndOf
      <4>2. events[k][a].start <= t
        BY <1>3, <3>5, <3>6
      <4> QED
        BY <2>2, <3>3, <3>6, <4>1, <4>2
    <3>7. CASE a \in 1 .. last /\ b = last + 1
      BY <1>3, <2>2, <3>2, <3>3, <3>4, <3>5, <3>7
    <3>8. CASE a = last + 1
      BY <1>3, <2>2, <3>2, <3>4, <3>8
    <3> QED
      BY <3>2, <3>6, <3>7, <3>8
  <2> QED
    BY <2>1, <2>2
<1>8. UsedInOrder'
  <2> SUFFICES ASSUME NEW i \in Thread, NEW j \in Thread, i < j, events'[i] = <<>>
               PROVE  events'[j] = <<>>
    BY <1>3 DEF UsedInOrder
  <2>1. events'[k] # <<>>
    <3>1. Len(events'[k]) = last + 1 /\ last \in Nat
      BY <1>4, <1>5
    <3> QED
      BY <3>1
  <2>2. i # k /\ events[i] = <<>>
    BY <1>5, <2>1
  <2>3. events[j] = <<>>
    BY <2>2 DEF IInv, UsedInOrder
  <2>4. ASSUME j = k PROVE FALSE
    <3>1. LastOrZero(i) = 0 /\ LastOrZero(k) = 0
      BY <2>2, <2>3, <2>4 DEF LastOrZero
    <3>2. k <= i
      BY <1>1, <1>3, <3>1 DEF BestFit
    <3> QED
      BY <2>4, <3>2 DEF Thread
  <2> QED
    BY <1>5, <2>3, <2>4
<1>9. WalkInOrder'
  BY <1>2 DEF WalkInOrder
<1> QED
  BY <1>6, <1>7, <1>8, <1>9 DEF IInv

(* begin() finds an event, as the first thread is used first. *)
LEMMA BeginKeeps ==
  ASSUME IInv, BeginWalk
  PROVE  IInv'
<1>1. /\ UNCHANGED <<width, length, now, events, nextSeq>>
      /\ walk' = "event" /\ at' = <<1, 1>> /\ seen' = {}
  BY DEF BeginWalk
<1>2. Positions' = Positions /\ Thread' = Thread /\ 1 \in Thread
  BY <1>1 DEF Positions, Thread, IInv, TypeOK
<1>3. events \in [Thread -> Seq(Event)]
  BY DEF IInv, TypeOK
<1>4. events[1] # <<>>
  <2>1. PICK k \in Thread : events[k] # <<>>
    BY DEF BeginWalk, Empty
  <2>2. k = 1 \/ 1 < k
    BY DEF Thread
  <2> QED
    BY <1>2, <2>1, <2>2 DEF IInv, UsedInOrder
<1>5. <<1, 1>> \in Positions
  <2>1. 1 \in DOMAIN events[1]
    BY <1>2, <1>3, <1>4
  <2> QED
    BY <1>2, <2>1 DEF Positions
<1>6. Passed' = {}
  <2>1. \A p \in Positions : p[1] \in Nat \ {0} /\ p[2] \in Nat \ {0}
    BY <1>3 DEF Positions, Thread
  <2> QED
    BY <1>1, <1>2, <2>1 DEF Passed
<1>7. TypeOK'
  BY <1>1, <1>2 DEF IInv, TypeOK, Positions
<1>8. Chronological' /\ UsedInOrder'
  BY <1>1, <1>2 DEF IInv, Chronological, UsedInOrder, EndOf
<1>9. WalkInOrder'
  BY <1>1, <1>2, <1>5, <1>6 DEF WalkInOrder
<1> QED
  BY <1>7, <1>8, <1>9 DEF IInv

(* operator++ goes to the next position, or there is none left. *)
LEMMA AdvanceKeeps ==
  ASSUME IInv, Advance
  PROVE  IInv'
<1>1. /\ UNCHANGED <<width, length, now, events, nextSeq>>
      /\ walk = "event" /\ seen' = seen \cup {at}
  BY DEF Advance
<1>2. Positions' = Positions /\ Thread' = Thread
  BY <1>1 DEF Positions, Thread
<1>3. events \in [Thread -> Seq(Event)]
  BY DEF IInv, TypeOK
<1> DEFINE k == at[1]
           i == at[2]
<1>4. /\ at = <<k, i>> /\ k \in Thread /\ i \in 1 .. Len(events[k])
      /\ at \in Positions /\ seen = Passed
  <2>1. at \in Positions /\ seen = Passed
    BY <1>1 DEF IInv, WalkInOrder
  <2>2. PICK j \in Thread : at \in {j} \X DOMAIN events[j]
    BY <2>1 DEF Positions
  <2>3. DOMAIN events[j] = 1 .. Len(events[j])
    BY <1>3
  <2> QED
    BY <2>1, <2>2, <2>3
<1>5. \A p \in Positions : /\ p = <<p[1], p[2]>> /\ p[1] \in Thread
                           /\ p[2] \in 1 .. Len(events[p[1]]) /\ Len(events[p[1]]) \in Nat
  BY <1>3 DEF Positions
<1>6. \A j \in Thread : \A n \in 1 .. Len(events[j]) : <<j, n>> \in Positions
  BY <1>3 DEF Positions
<1>7. Thread \subseteq Nat \ {0}
  BY DEF Thread
<1>8. Chronological' /\ UsedInOrder'
  BY <1>1, <1>2 DEF IInv, Chronological, UsedInOrder, EndOf
<1>9. TypeOK' /\ WalkInOrder'
  <2>1. CASE i < Len(events[k]) /\ at' = <<k, i + 1>> /\ walk' = "event"
    <3>1. at' \in Positions
      BY <1>3, <1>4, <1>6, <2>1
    <3>2. Passed' = Passed \cup {at}
      BY <1>2, <1>4, <1>5, <1>7, <2>1 DEF Passed
    <3> QED
      BY <1>1, <1>2, <1>3, <1>4, <1>7, <2>1, <3>1, <3>2 DEF IInv, TypeOK, WalkInOrder
  <2>2. CASE /\ i >= Len(events[k])
             /\ \E j \in Thread : NextThread(j) /\ at' = <<j, 1>> /\ walk' = "event"
    <3>1. PICK j \in Thread : NextThread(j) /\ at' = <<j, 1>> /\ walk' = "event"
      BY <2>2
    <3>2. k < j /\ events[j] # <<>> /\ \A m \in Thread : k < m /\ m < j => events[m] = <<>>
      BY <3>1 DEF NextThread
    <3>3. at' \in Positions
      BY <1>3, <1>6, <3>1, <3>2
    <3>4. \A p \in Positions : p[1] > k => p[1] >= j
      BY <1>5, <1>7, <3>2
    <3>5. \A p \in Positions : p[1] = k => p[2] <= i
      BY <1>4, <1>5, <2>2
    <3>6. Passed' = Passed \cup {at}
      BY <1>2, <1>4, <1>5, <1>7, <3>1, <3>2, <3>4, <3>5 DEF Passed
    <3> QED
      BY <1>1, <1>2, <1>3, <1>4, <1>7, <3>1, <3>3, <3>6 DEF IInv, TypeOK, WalkInOrder
  <2>3. CASE /\ i >= Len(events[k])
             /\ ~ \E j \in Thread : NextThread(j)
             /\ at' = at /\ walk' = "done"
    <3>1. \A p \in Positions : p[1] <= k
      <4>1. k + 1 \in Thread => events[k + 1] = <<>>
        BY <1>4, <1>7, <2>3 DEF NextThread
      <4>2. \A m \in Thread : m > k => events[m] = <<>>
        <5> SUFFICES ASSUME NEW m \in Thread, m > k PROVE events[m] = <<>>
          OBVIOUS
        <5>1. k + 1 \in Thread /\ (m = k + 1 \/ k + 1 < m)
          BY <1>4, <1>7 DEF Thread, IInv, TypeOK
        <5> QED
          BY <4>1, <5>1 DEF IInv, UsedInOrder
      <4> QED
        BY <1>4, <1>5, <1>7, <4>2
    <3>2. \A p \in Positions : p[1] = k => p[2] <= i
      BY <1>4, <1>5, <2>3
    <3>3. Positions = Passed \cup {at}
      BY <1>4, <1>5, <1>7, <3>1, <3>2 DEF Passed
    <3> QED
      BY <1>1, <1>2, <1>3, <1>4, <2>3, <3>3 DEF IInv, TypeOK, WalkInOrder
  <2> QED
    BY <2>1, <2>2, <2>3 DEF Advance
<1> QED
  BY <1>8, <1>9 DEF IInv

THEOREM StepInvariant == IInv /\ [Next]_vars => IInv'
<1> SUFFICES ASSUME IInv, [Next]_vars PROVE IInv'
  OBVIOUS
<1>1. ASSUME NEW t \in Time, AppendEvent(t) PROVE IInv'
  BY <1>1, AppendKeeps
<1>2. CASE BeginWalk
  BY <1>2, BeginKeeps
<1>3. CASE Advance
  BY <1>3, AdvanceKeeps
<1>4. CASE UNCHANGED vars
  BY <1>4 DEF vars, IInv, TypeOK, Chronological, UsedInOrder, WalkInOrder, Thread, Positions,
              Passed, EndOf
<1> QED
  BY <1>1, <1>2, <1>3, <1>4 DEF Next

(* The strengthening holds in every reachable state. *)
THEOREM Invariance == Spec => []IInv
  BY InitInvariant, StepInvariant, PTL DEF Spec

(* The timeline keeps its shape. *)
THEOREM TypeCorrect == Spec => []TypeOK
<1>1. IInv => TypeOK
  BY DEF IInv
<1> QED
  BY <1>1, Invariance, PTL

(* The events of a thread never overlap: EventQueue::append chooses well. *)
THEOREM ThreadsChronological == Spec => []Chronological
<1>1. IInv => Chronological
  BY DEF IInv
<1> QED
  BY <1>1, Invariance, PTL

(* A thread is used only after all those before it. *)
THEOREM ThreadsUsedInOrder == Spec => []UsedInOrder
<1>1. IInv => UsedInOrder
  BY DEF IInv
<1> QED
  BY <1>1, Invariance, PTL

(* The phases that walk over the events of the root meet every event once,  *)
(* and read no position that has none.                                      *)
THEOREM WalkComplete == Spec => []WalkVisitsAll
<1>1. IInv => WalkVisitsAll
  <2> SUFFICES ASSUME IInv, walk = "event" PROVE at \notin Passed
    BY DEF IInv, WalkInOrder, WalkVisitsAll
  <2>1. at[1] \in Nat /\ at[2] \in Nat
    BY DEF IInv, TypeOK, Thread
  <2> QED
    BY <2>1 DEF Passed
<1> QED
  BY <1>1, Invariance, PTL

(* EventQueue::end() is the end of all events, not only of the last ones. *)
THEOREM EndCorrect == Spec => []EndIsLatest
<1>1. IInv => EndIsLatest
  <2> SUFFICES ASSUME IInv, NEW e \in {LastOrZero(k) : k \in Thread}, IsEnd(e), NEW p \in Positions
               PROVE  EndOf(EventAt(p)) <= e
    BY DEF EndIsLatest
  <2>1. PICK k \in Thread : p \in {k} \X DOMAIN events[k]
    BY DEF Positions
  <2>2. LastOrZero(k) \in Nat /\ EndOf(EventAt(p)) <= LastOrZero(k)
    BY <2>1, LastOrZeroBounds DEF IInv, EventAt
  <2>3. LastOrZero(k) <= e /\ e \in Nat
    BY LastOrZeroBounds DEF IsEnd, IInv
  <2>4. EndOf(EventAt(p)) \in Nat
    <3>1. events[k] \in Seq(Event) /\ length \in Nat
      BY DEF IInv, TypeOK
    <3>2. events[k][p[2]] \in Event
      BY <2>1, <3>1
    <3> QED
      BY <2>1, <3>1, <3>2 DEF EndOf, EventAt, Event
  <2> QED
    BY <2>2, <2>3, <2>4
<1> QED
  BY <1>1, Invariance, PTL

-----------------------------------------------------------------------------
(* How many operations go on at t, which is what the abstract timeline      *)
(* counts: no thread has two of them.                                       *)
Busy(t) == {p \in Positions : EndOf(EventAt(p)) > t}

LEMMA BusyThreads ==
  ASSUME IInv, NEW t \in Nat, now <= t
  PROVE  /\ \A p \in Busy(t) : p[1] \in Thread /\ LastOrZero(p[1]) > t
         /\ \A p, q \in Busy(t) : p[1] = q[1] => p = q
<1>1. /\ events \in [Thread -> Seq(Event)] /\ length \in Nat /\ now \in Nat
      /\ TypeOK /\ Chronological
  BY DEF IInv, TypeOK
<1>2. ASSUME NEW p \in Busy(t)
      PROVE  /\ p = <<p[1], p[2]>> /\ p[1] \in Thread /\ p[2] \in DOMAIN events[p[1]] /\ p[2] \in Nat
             /\ events[p[1]][p[2]].start \in Nat
             /\ events[p[1]][p[2]].start + length > t
  <2>1. PICK k \in Thread : p \in {k} \X DOMAIN events[k]
    BY DEF Busy, Positions
  <2>2. events[k] \in Seq(Event)
    BY <1>1
  <2>3. events[k][p[2]] \in Event /\ p[2] \in Nat
    BY <2>1, <2>2
  <2> QED
    BY <2>1, <2>3 DEF Busy, EventAt, EndOf, Event
<1>3. ASSUME NEW p \in Busy(t) PROVE p[1] \in Thread /\ LastOrZero(p[1]) > t
  <2>1. /\ EndOf(events[p[1]][p[2]]) <= LastOrZero(p[1]) /\ LastOrZero(p[1]) \in Nat
    BY <1>1, <1>2, LastOrZeroBounds
  <2> QED
    BY <1>1, <1>2, <2>1 DEF EndOf
<1>4. ASSUME NEW p \in Busy(t), NEW q \in Busy(t), p[1] = q[1] PROVE p = q
  <2>1. ASSUME NEW a \in DOMAIN events[p[1]], NEW b \in DOMAIN events[p[1]], a < b,
               events[p[1]][a].start + length > t
        PROVE  events[p[1]][b].start > t \/ events[p[1]][b].start \notin Nat \/ events[p[1]][a].start \notin Nat
    <3>1. events[p[1]][a].start + length <= events[p[1]][b].start
      BY <1>1, <1>2, <2>1 DEF Chronological, EndOf
    <3> QED
      BY <1>1, <2>1, <3>1
  <2>2. ~ (p[2] < q[2])
    <3>1. events[q[1]][q[2]].start <= t /\ events[q[1]][q[2]].start \in Nat
      BY <1>1, <1>2 DEF Chronological
    <3> QED
      BY <1>2, <1>4, <2>1, <3>1
  <2>3. ~ (q[2] < p[2])
    <3>1. events[p[1]][p[2]].start <= t /\ events[p[1]][p[2]].start \in Nat
      BY <1>1, <1>2 DEF Chronological
    <3> QED
      BY <1>2, <1>4, <2>1, <3>1
  <2> QED
    BY <1>2, <1>4, <2>2, <2>3
<1> QED
  BY <1>3, <1>4

LEMMA BusyCount ==
  ASSUME IInv, NEW t \in Nat, now <= t
  PROVE  /\ IsFiniteSet(Busy(t)) /\ Cardinality(Busy(t)) \in Nat
         /\ AcceptsAt(t) <=> Cardinality(Busy(t)) < width
<1>1. IsFiniteSet(Thread) /\ Cardinality(Thread) = width /\ width \in Nat
  BY FS_Interval DEF IInv, TypeOK, Thread
<1> DEFINE f == [p \in Busy(t) |-> p[1]]
<1>2. f \in Injection(Busy(t), Thread)
  BY BusyThreads DEF Injection, IsInjective
<1>3. IsFiniteSet(Busy(t)) /\ Cardinality(Busy(t)) \in Nat
  BY <1>1, <1>2, FS_Injection, FS_CardinalityType
<1>4. ASSUME NEW k \in Thread, LastOrZero(k) <= t PROVE Cardinality(Busy(t)) < width
  <2>1. IsFiniteSet(Thread \ {k}) /\ Cardinality(Thread \ {k}) = width - 1
    BY <1>1, FS_RemoveElement
  <2>2. LastOrZero(k) \in Nat
    BY LastOrZeroBounds DEF IInv
  <2>3. \A p \in Busy(t) : p[1] \in Thread \ {k}
    <3> SUFFICES ASSUME NEW p \in Busy(t) PROVE p[1] # k
      BY BusyThreads
    <3>1. LastOrZero(p[1]) > t
      BY BusyThreads
    <3> QED
      BY <1>4, <2>2, <3>1
  <2>4. f \in Injection(Busy(t), Thread \ {k})
    BY <2>3, BusyThreads DEF Injection, IsInjective
  <2>5. Cardinality(Busy(t)) <= Cardinality(Thread \ {k})
    BY <2>1, <2>4, FS_Injection
  <2> QED
    BY <1>1, <1>3, <2>1, <2>5
<1>5. ASSUME ~ AcceptsAt(t) PROVE Cardinality(Busy(t)) >= width
  <2> DEFINE g == [k \in Thread |-> <<k, Len(events[k])>>]
  <2>1. ASSUME NEW k \in Thread PROVE g[k] \in Busy(t)
    <3>1. LastOrZero(k) \in Nat /\ ~ (LastOrZero(k) <= t)
      BY <1>5, LastOrZeroBounds DEF AcceptsAt, IInv
    <3>2. events[k] # <<>> /\ events[k] \in Seq(Event)
      BY <3>1 DEF LastOrZero, IInv, TypeOK
    <3>3. Len(events[k]) \in DOMAIN events[k]
      BY <3>2
    <3>4. g[k] \in Positions /\ EventAt(g[k]) = events[k][Len(events[k])]
      BY <3>3 DEF Positions, EventAt
    <3>5. EndOf(EventAt(g[k])) = LastOrZero(k)
      BY <3>2, <3>4 DEF LastOrZero
    <3> QED
      BY <3>1, <3>4, <3>5 DEF Busy
  <2>2. g \in Injection(Thread, Busy(t))
    BY <2>1 DEF Injection, IsInjective
  <2> QED
    BY <1>1, <1>3, <2>2, FS_Injection
<1> QED
  BY <1>1, <1>3, <1>4, <1>5 DEF AcceptsAt

(* The ends of the threads say enough: an operation is turned away exactly  *)
(* if as many go on as there are threads.                                   *)
THEOREM AcceptsCorrect == Spec => []AcceptsIfFree
<1>1. IInv => AcceptsIfFree
  <2> SUFFICES ASSUME IInv, NEW t \in Time, now <= t
               PROVE  AcceptsAt(t) <=> Cardinality(Busy(t)) < width
    BY DEF AcceptsIfFree, Busy
  <2> QED
    BY BusyCount, BoundsAssumption DEF Time
<1> QED
  BY <1>1, Invariance, PTL

-----------------------------------------------------------------------------
(* The sequence numbers tell the events apart, and none is missing. *)
Numbered ==
  /\ \A p \in Positions : EventAt(p).seq \in 1 .. nextSeq - 1
  /\ \A i \in 1 .. nextSeq - 1 : \E p \in Positions : EventAt(p).seq = i
  /\ \A p, q \in Positions : EventAt(p).seq = EventAt(q).seq => p = q

Where(i) == CHOOSE p \in Positions : EventAt(p).seq = i

LEMMA WhereUnique ==
  ASSUME Numbered
  PROVE  /\ \A i \in 1 .. nextSeq - 1 : Where(i) \in Positions /\ EventAt(Where(i)).seq = i
         /\ \A p \in Positions : Where(EventAt(p).seq) = p
<1>1. ASSUME NEW i \in 1 .. nextSeq - 1
      PROVE  Where(i) \in Positions /\ EventAt(Where(i)).seq = i
  BY DEF Numbered, Where
<1>2. ASSUME NEW p \in Positions PROVE Where(EventAt(p).seq) = p
  BY <1>1 DEF Numbered
<1> QED
  BY <1>1, <1>2

LEMMA AppendPosition ==
  ASSUME IInv, NEW t \in Time, AppendEvent(t)
  PROVE  \E q : /\ q \notin Positions /\ Positions' = Positions \cup {q}
                /\ EventAt(q)' = [seq |-> nextSeq, start |-> t]
                /\ \A p \in Positions : EventAt(p)' = EventAt(p)
<1>1. PICK k \in Thread : events' = [events EXCEPT ![k] = Append(@, [seq |-> nextSeq, start |-> t])]
  BY DEF AppendEvent
<1> DEFINE new == [seq |-> nextSeq, start |-> t]
           last == Len(events[k])
<1>0. PICK q : q = <<k, last + 1>>
  OBVIOUS
<1>2. Thread' = Thread /\ width \in Nat /\ t \in Nat
  BY BoundsAssumption DEF AppendEvent, Thread, Time, IInv, TypeOK
<1>3. events \in [Thread -> Seq(Event)] /\ new \in Event
  BY <1>2 DEF IInv, TypeOK, Event
<1>4. /\ events'[k] = Append(events[k], new) /\ last \in Nat
      /\ \A j \in Thread : j # k => events'[j] = events[j]
  BY <1>1, <1>3
<1>5. /\ DOMAIN events[k] = 1 .. last /\ DOMAIN events'[k] = 1 .. last + 1
      /\ events'[k][last + 1] = new
      /\ \A i \in 1 .. last : events'[k][i] = events[k][i]
  BY <1>3, <1>4
<1>6. q \notin Positions
  BY <1>0, <1>4, <1>5 DEF Positions
<1>7. DOMAIN events'[k] = DOMAIN events[k] \cup {last + 1}
  BY <1>4, <1>5
<1>8. Positions' = Positions \cup {q}
  <2>1. Positions' = UNION {{j} \X DOMAIN events'[j] : j \in Thread}
    BY <1>2 DEF Positions
  <2>2. ASSUME NEW p \in Positions' PROVE p \in Positions \cup {q}
    <3>1. PICK j \in Thread : p \in {j} \X DOMAIN events'[j]
      BY <2>1
    <3>2. CASE j = k
      BY <1>0, <1>7, <3>1, <3>2 DEF Positions
    <3>3. CASE j # k
      BY <1>4, <3>1, <3>3 DEF Positions
    <3> QED
      BY <3>2, <3>3
  <2>3. ASSUME NEW p \in Positions PROVE p \in Positions'
    <3>1. PICK j \in Thread : p \in {j} \X DOMAIN events[j]
      BY DEF Positions
    <3>2. p \in {j} \X DOMAIN events'[j]
      BY <1>4, <1>7, <3>1
    <3> QED
      BY <2>1, <3>2
  <2>4. q \in Positions'
    BY <1>0, <1>7, <2>1
  <2> QED
    BY <2>2, <2>3, <2>4
<1>9. EventAt(q)' = new
  BY <1>0, <1>5 DEF EventAt
<1>10. ASSUME NEW p \in Positions PROVE EventAt(p)' = EventAt(p)
  <2>1. PICK j \in Thread : p \in {j} \X DOMAIN events[j]
    BY DEF Positions
  <2>2. events'[j][p[2]] = events[j][p[2]]
    BY <1>4, <1>5, <2>1
  <2> QED
    BY <2>1, <2>2 DEF EventAt
<1> QED
  BY <1>6, <1>8, <1>9, <1>10

LEMMA NumberedStep ==
  ASSUME IInv, Numbered, [Next]_vars
  PROVE  Numbered'
<1>1. ASSUME NEW t \in Time, AppendEvent(t) PROVE Numbered'
  <2>1. PICK q : /\ q \notin Positions /\ Positions' = Positions \cup {q}
                 /\ EventAt(q)' = [seq |-> nextSeq, start |-> t]
                 /\ \A p \in Positions : EventAt(p)' = EventAt(p)
    BY <1>1, AppendPosition
  <2>2. nextSeq' = nextSeq + 1 /\ nextSeq \in Nat \ {0}
    BY <1>1 DEF AppendEvent, IInv, TypeOK
  <2>3. 1 .. nextSeq' - 1 = (1 .. nextSeq - 1) \cup {nextSeq} /\ nextSeq \notin 1 .. nextSeq - 1
    BY <2>2
  <2> QED
    BY <2>1, <2>3 DEF Numbered
<1>2. CASE BeginWalk \/ Advance \/ UNCHANGED vars
  <2>1. UNCHANGED <<width, events, nextSeq>>
    BY <1>2 DEF BeginWalk, Advance, vars
  <2> QED
    BY <2>1 DEF Numbered, Positions, EventAt, Thread
<1> QED
  BY <1>1, <1>2 DEF Next

(* An operation that goes on is an event that does, and conversely. *)
LEMMA GoingOnCount ==
  ASSUME IInv, Numbered, NEW t \in Nat, now <= t, AcceptsAt(t)
  PROVE  Cardinality(Abstract!GoingOn(t)) < width
<1> DEFINE f == [i \in Abstract!GoingOn(t) |-> Where(i)]
<1>1. \A i \in 1 .. nextSeq - 1 : Starts[i] = EventAt(Where(i)).start /\ DOMAIN Starts = 1 .. nextSeq - 1
  BY DEF Starts, Where
<1>2. \A i \in Abstract!GoingOn(t) : Where(i) \in Busy(t) /\ EventAt(Where(i)).seq = i
  BY <1>1, WhereUnique DEF Abstract!GoingOn, Busy, EndOf, Starts
<1>3. f \in Injection(Abstract!GoingOn(t), Busy(t))
  BY <1>2 DEF Injection, IsInjective
<1>4. /\ IsFiniteSet(Busy(t)) /\ Cardinality(Busy(t)) \in Nat /\ Cardinality(Busy(t)) < width
      /\ width \in Nat
  BY BusyCount DEF IInv, TypeOK
<1>5. IsFiniteSet(Abstract!GoingOn(t)) /\ Cardinality(Abstract!GoingOn(t)) <= Cardinality(Busy(t))
  BY <1>3, <1>4, FS_Injection
<1> QED
  BY <1>4, <1>5, FS_CardinalityType

LEMMA AppendImplements ==
  ASSUME IInv, Numbered, Numbered', NEW t \in Time, AppendEvent(t)
  PROVE  Abstract!Begin(t)
<1>1. PICK q : /\ q \notin Positions /\ Positions' = Positions \cup {q}
               /\ EventAt(q)' = [seq |-> nextSeq, start |-> t]
               /\ \A p \in Positions : EventAt(p)' = EventAt(p)
  BY AppendPosition
<1>2. /\ nextSeq' = nextSeq + 1 /\ nextSeq \in Nat \ {0} /\ now <= t /\ AcceptsAt(t)
      /\ UNCHANGED <<width, length>> /\ t \in Nat
  BY BoundsAssumption DEF AppendEvent, IInv, TypeOK, Time
<1>3. DOMAIN Starts = 1 .. nextSeq - 1 /\ DOMAIN Starts' = 1 .. nextSeq
  BY <1>2 DEF Starts
<1>4. ASSUME NEW r \in Positions' PROVE Starts'[EventAt(r)'.seq] = EventAt(r)'.start
  <2>1. EventAt(r)'.seq \in 1 .. nextSeq' - 1
    BY DEF Numbered
  <2>2. \A p \in Positions' : EventAt(p)'.seq = EventAt(r)'.seq => p = r
    BY DEF Numbered
  <2>3. (CHOOSE p \in Positions' : EventAt(p)'.seq = EventAt(r)'.seq) = r
    BY <2>2
  <2> QED
    BY <2>1, <2>3 DEF Starts
<1>5. ASSUME NEW i \in 1 .. nextSeq - 1 PROVE Starts'[i] = Starts[i]
  <2>1. PICK p \in Positions : EventAt(p).seq = i
    BY DEF Numbered
  <2>2. Where(i) = p
    BY <2>1, WhereUnique
  <2>3. Starts[i] = EventAt(p).start
    BY <2>2 DEF Starts, Where
  <2>4. Starts'[EventAt(p)'.seq] = EventAt(p)'.start /\ EventAt(p)' = EventAt(p)
    BY <1>1, <1>4, <2>1
  <2> QED
    BY <2>1, <2>3, <2>4
<1>6. Starts'[nextSeq] = t
  <2>1. Starts'[EventAt(q)'.seq] = EventAt(q)'.start
    BY <1>1, <1>4
  <2> QED
    BY <1>1, <2>1
<1>7. ASSUME NEW i \in 1 .. nextSeq - 1 PROVE Starts[i] \in Nat /\ Starts[i] <= now
  <2>1. PICK p \in Positions : Where(i) = p
    BY WhereUnique
  <2>2. PICK k \in Thread : p \in {k} \X DOMAIN events[k]
    BY DEF Positions
  <2>3. events[k] \in Seq(Event)
    BY DEF IInv, TypeOK
  <2>4. events[k][p[2]] \in Event
    BY <2>2, <2>3
  <2>5. EventAt(p).start \in Nat /\ EventAt(p).start <= now
    BY <2>2, <2>4 DEF EventAt, Event, IInv, Chronological
  <2> QED
    BY <2>1, <2>5 DEF Starts, Where
<1>8. /\ Starts \in Seq(Nat) /\ Len(Starts) = nextSeq - 1
      /\ Starts' = [i \in 1 .. nextSeq |-> Starts'[i]]
  BY <1>2, <1>3, <1>7 DEF Starts
<1>9. Starts' = Append(Starts, t)
  <2>1. /\ Append(Starts, t) \in Seq(Nat) /\ Len(Append(Starts, t)) = nextSeq
        /\ \A i \in 1 .. nextSeq - 1 : Append(Starts, t)[i] = Starts[i]
        /\ Append(Starts, t)[nextSeq] = t
    BY <1>2, <1>8
  <2>2. Append(Starts, t) \in [1 .. nextSeq -> Nat]
    BY <2>1, LenProperties
  <2>3. \A i \in 1 .. nextSeq : Starts'[i] = Append(Starts, t)[i]
    BY <1>2, <1>5, <1>6, <2>1
  <2> QED
    BY <1>8, <2>2, <2>3
<1>10. \A i \in DOMAIN Starts : Starts[i] <= t
  BY <1>2, <1>3, <1>7 DEF IInv, TypeOK
<1>11. Cardinality(Abstract!GoingOn(t)) < width
  BY <1>2, GoingOnCount
<1>12. Abstract!Cardinality(Abstract!GoingOn(t)) = Cardinality(Abstract!GoingOn(t))
  BY DEF Cardinality, Abstract!Cardinality
<1> QED
  BY <1>2, <1>9, <1>10, <1>11, <1>12 DEF Abstract!Begin

(* The timeline of the code, with its threads, implements the abstract one: *)
(* never do more operations go on than there are units.                     *)
THEOREM SlotsImplemented == Spec => ImplementsSlots
<1>1. Init => Numbered /\ Abstract!Init
  <2> SUFFICES ASSUME Init PROVE Numbered /\ Abstract!Init
    OBVIOUS
  <2>1. Positions = {} /\ nextSeq = 1
    BY DEF Init, Positions
  <2>2. Starts = <<>>
    BY <2>1 DEF Starts
  <2> QED
    BY <2>1, <2>2 DEF Numbered, Abstract!Init
<1>2. IInv /\ Numbered /\ [Next]_vars => Numbered'
  BY NumberedStep
<1>3. IInv /\ Numbered /\ Numbered' /\ [Next]_vars => [Abstract!Next]_<<width, length, Starts>>
  <2> SUFFICES ASSUME IInv, Numbered, Numbered', [Next]_vars
               PROVE  [Abstract!Next]_<<width, length, Starts>>
    OBVIOUS
  <2>1. ASSUME NEW t \in Time, AppendEvent(t) PROVE Abstract!Next
    BY <2>1, AppendImplements DEF Abstract!Next
  <2>2. CASE BeginWalk \/ Advance \/ UNCHANGED vars
    <3>1. UNCHANGED <<width, length, events, nextSeq>>
      BY <2>2 DEF BeginWalk, Advance, vars
    <3>2. UNCHANGED Starts
      BY <3>1 DEF Starts, Positions, EventAt, Thread
    <3> QED
      BY <3>1, <3>2
  <2> QED
    BY <2>1, <2>2 DEF Next
<1> QED
  BY <1>1, <1>2, <1>3, Invariance, PTL DEF Spec, ImplementsSlots, Abstract!Spec
=============================================================================
