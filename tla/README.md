# flogsim in TLA+

flogsim simulates fault-tolerant collectives (mostly broadcasts) on a machine
described by the LogP model: `P` nodes, a latency `L`, an overhead `o` of the
cpu per message, a gap `g` between two messages. It is a sequential
discrete-event simulator; what is concurrent is what it simulates, and the
hard part is that the order of the simulated events decides what a collective
does. This directory holds a specification of the simulator's engine, of its
timelines, of all its collectives and topologies and of its main loop, the
model-checking runs, and machine-checked proofs about the engine, the
timelines and the abstract specifications.

## Inventory

| component | state it keeps | operations | correct when |
|---|---|---|---|
| event engine (`lib/task_queue.cpp`, `lib/task.cpp`) | heap of tasks, clock, idle tracker (`pending`, `count`, `was_idle`) | `run`, `pop`, `schedule`, `deliver_tasks`; `execute` and `notify` of ten kinds of tasks | the clock never goes back, no request is stranded, an idle task means a node that can send, the order of tasks is total |
| timeline (`include/event.hpp`, `include/timeline.hpp`) | events per thread, send and receive gaps, finish and failure events, total time | `append`, `earliest_start_time`, `begin`, `operator++`, `end`, `node_stat` | threads are never overbooked and never idle without reason, gaps kept, a walk meets every event once, the statistics agree with what happened |
| fault injection (`lib/fault_injector.cpp`) | the set of failed nodes | `failure`, the draw of uniform faults | a failed node neither sends nor is coloured |
| collective (`lib/collective.cpp`) | done and coloured nodes, colouring time | `accept` of every task, `run` | every live coloured node finishes once |
| combiner (`lib/phase/combiner.cpp`) | the phase of every node | `forward` | a node goes through the phases in order; a forwarded message is not lost |
| exclusive (`lib/phase/exclusive.cpp`) | start of the phase | timers, `forward` | a barrier between phases |
| tree (`lib/phase/tree.cpp`, `dependency_init.cpp`) | reached nodes | init, reception | everybody below live nodes is reached |
| correction (`lib/phase/correction.cpp`) | two rings or two distances per node | idle, timer, end of a send, reception | checked: all live nodes are reached; opportunistic: all within the distance |
| topologies (`lib/topology`) | children and parents | constructors, `deadline` | a spanning tree of the promised shape |
| registry (`lib/phase/registered_collectives.cpp`) | – | names to phases | – |
| gossip (`lib/phase/gossip.cpp`) | start of the phase, the random generator | init, timer, idle task, end of a send, reception | all nodes leave at the gossip time, none is left behind |
| gather (`lib/phase/gather.cpp`) | children to be heard from, per node | init, reception | a node reports once, after all below it |
| multiple trees (`lib/phase/multitree.cpp`) | roots | init, reception | `d` trees tolerate fewer than `d` failures |
| optimal tree (`lib/topology/optimal.cpp`) | vector of labels while it is built | constructor | the labels are the least possible, the tree spans all nodes |
| main loop, metrics, entropy (`src/flogsim.cpp`, `lib/metrics.cpp`, `lib/entropy.cpp`) | metrics, counters, sequence numbers, generator | a repetition, reset, the rows of the csv table | repetitions leave no trace in each other, a seed makes them equal |
| command line and output (`src/configuration_args.cpp`, `src/results_printer.cpp`) | options, columns | parsing, formatting | the rows fit the header |

**How they interact.** `Collective::run` schedules an `InitTask` for every node
and calls `TaskQueue::run`. One iteration of its loop delivers idle requests
if the next task belongs to another timestamp, pops the first task, moves the
clock, lets the task `execute` (which reads and extends the timelines and may
schedule a successor or itself again) and `notify` the collective. The
collective hands the task to the combiner, which hands it to the phase the
node is in. The phase updates the state of that node and schedules tasks.
`schedule` asks the fault injector about every task, and keeps idle requests
out of the heap. Everything is a call; the heap is the only place where
something waits.

**What is hard.** Tasks of one timestamp are served by tag, kind and sequence
number, so an idle task, a receive and a timer of one node race each other; a
message may overtake the tree and reach a node that is in an earlier phase than
its sender; failures remove messages; the idle tracker keeps a cache
(`was_idle`, `count`) of what the timelines say; correction ends on local
evidence only; deadlines are computed ahead from formulas.
`PROJECT.json` lists each hazard at its line with the properties that cover it.

## Modules

| module | models |
|---|---|
| `TaskQueue` | the engine, open: the phases are the parameter `reqs` of the actions |
| `EngineProofs` | the engine whatever the phases ask for: its inductive invariant, and three more properties, each with a strengthening of its own on top of that |
| `EventQueue` | the timeline of one resource with all its events, `append` and the iterator |
| `Slots` | abstract specification of a timeline: so many units, no threads |
| `EventQueueProofs` | everything that is checked of the timeline, proved, with the refinement |
| `Phase`, `Tree`, `Correction`, `Gossip`, `Gather`, `MultiTree` | the phases, as operators from a node's state and a task to an outcome (result, requests, state) |
| `Collective` | collective, combiner and exclusive phase; composes engine and phases |
| `Broadcast`, `Convergecast` | abstract specifications: what any broadcast, and any acknowledgement or reduction, promises |
| `AbstractProofs` | what follows from them |
| `CollectiveProofs` | the collectives: what the phases keep and ask for, that every collective is an instance of the engine, and every repetition one of a collective |
| `DeliveryProofs` | on top of that: who sends and who waits, the refinement of `Broadcast`, and that nobody is forgotten with a request or a task open |
| `PhaseProofs` | on top of that: phases that last for a given time, whom a tree reaches, and what multiple trees tolerate |
| `CorrectionProofs` | on top of that: the two directions of the checked correction, that it reaches every live node, and what the opportunistic correction covers |
| `GatherProofs` | on top of `PhaseProofs`: how nodes that gather count, the refinement of `Convergecast`, and who finishes |
| `Registered` | the registered styles as sequences of phases |
| `Topology`, `TreeConstruction` | the trees as formulas; the constructors, sender by sender |
| `Optimal`, `OptimalConstruction` | the optimal tree as an operator; its constructor, round by round |
| `Repetitions` | the main program: repetitions, faults, metrics, rows; composes `Collective` with what is global |
| `MCTaskQueue`, `MCEventQueue`, `MCCollective`, `MCTests`, `MCOptimal`, `MCRepetitions` | instances for TLC |

### State and actions

*One step of the model is one iteration of the loop of `TaskQueue::run`*, since
nothing else runs. `queue` is the heap as a set of tasks: its order is
`Precedes` (`Task::operator<`), and `TopIsUnique` says that it never matters how
a heap breaks ties. `Ready` is the heap after `deliver_tasks`, and every action
takes its top, so `Pop(t)` fixes which task is served and where the clock goes.
`Schedule` collects what one iteration puts into the heap - what `execute`
schedules (`own`), the requests of the phases (`reqs`, in order, numbered from
`nextSeq`), the task that is handed on (`again`) - filtered by the fault
injector, and evaluates the conditions of the loop into `status`:

- `running`, `done` (nothing left), `limit` (time limit), `thrown` (the
  exception of `FinishTask`, or of `MultiTree`), `asserted` (an assertion of a phase:
  `multitree.cpp:55`, `tree.cpp:31` or `gather.cpp:34`), `aborted` (the assertion of
  `pop`).

`SendStart`, `RecvStart`, `SendEnd`, `Msg`, `RecvEnd`, `Idle`, `Timer`, `Init`,
`Finish` and `Failure` are `execute` and `notify` of the tasks of those names;
`DelaySend` and `DelayRecv` are the branches in which `execute` reschedules the
task and returns false. `cpu`, `sendGap` and `recvGap` hold the end of the last
event of each timeline, the only part of it the program reads back.
`FinishTask`s carry `Time::max()` and do not move the clock; `TimeMax` stands
for it and is larger than any time of a run.

In `Collective`, `local[n]` gathers what the phases keep for node `n`:
`ReachedNodes`, `Combiner::cur_phase`, the rings of the checked correction, the
distances of the opportunistic one and the counter of a gathering. As a phase is asked about one node at a
time and touches only that node's entry, an operator from the old to the new
entry models a dispatch. `Notify(t)` is `Collective::accept`: dispatch, then the
engine's action with the requests, then the bookkeeping of the collective. The
recursion in `post_message` is at most two deep, one for each direction that is
barred at the root, and is written as `Barred` applied twice. The receiver a
gossiping node draws is any other node: the random generator is a
nondeterministic choice, and the only one after `Init`.

`Refuses` says when a phase does not survive a task. Besides the trees that do not
fit in `MultiTree` (`TreesUnfit`) these are the `InitTask` of a reached node other than
the root in the tree phase (`TreeFails`) and a report of a node that already sent its
own (`GatherFails`). `Terminates` ends in `done` for the styles that have these
phases, so neither assertion fails there. `Gather` sends to all parents of a node;
`Upwards` is the one parent a node has in a tree.

Configurations are records and not constants, so that one run covers many
command lines, failed nodes and collectives: `conf` is chosen in `Init` and
never changes. After that the simulator is deterministic, as the program is,
but for gossip, so the runs over registered collectives explore many short
behaviours. The open
engine is where a step has many outcomes.

Lengths of `Time` are unbounded integers; the program has 64 bits and the
model never gets near. `Ring.minRecv` starts at the largest 32-bit integer, as
in the code.

`TaskQueue` keeps only the ends of a timeline's threads. `EventQueue` has the
events themselves, since the phases walk over the cpu events of the root when it
finishes: `AppendEvent` is `append` after the look at `earliest_start_time` that
every task takes, `BeginWalk` and `Advance` are the iterator.

`Optimal` writes a round of the loop of `compute_opt_tree` as an operator on a
build (the vector and `running_i`), which `OptimalConstruction` uses as actions
`Push`, `Turn` and `Sort`, and `OptimalTree` as a recursive function for the
collectives. `ReadOutside` is the access beyond the end of the vector: what the
program does afterwards is undefined, so the state has no successor but itself.

In `Repetitions`, `Begin` sets up a repetition, with everything that is made
anew and `nextSeq` and the metrics, which are not; `Continue` is the end of the
body of the loop, with the three resets. `Report`, `Catch` and `Abort` are the
ways in which a repetition ends: a row, the exception that is caught and
printed, an assertion (of `pop` or of a phase). Metrics are a function from names, as `Metrics::map` is;
that `reset_metrics` keeps the names is `ResetMetrics`. `drawn` are the numbers the
random generator gave to gossiping nodes in this repetition, `known` the longest such
sequence of an earlier one: a generator that is seeded again yields it again in the same
order (`Draw`), and any number beyond its end.

### The abstract specifications

`Broadcast` has three steps: a coloured live node speaks, a message is heard by
a live node (which may speak at once), a message is lost at a failed node.
`Collective` implements it with the coloured nodes `Reached`, the messages
`Wire` (all tasks between the request to send and the end of the reception) and
`Live`. A message that a combiner hands to the next phase is heard twice, which
is a second `Hear` of the same message. That a node can only be coloured by a
message, and only coloured nodes send, is what makes the tree, the correction
and the failures of the program a broadcast at all.

`Convergecast` has one step: a live node reports after all its children have.
`Collective` implements it with the nodes whose counter in `Gather` has gone
below zero, in acknowledged broadcasts and in reductions, with and without
failures. Its consequence `RootSpeaksForAll` is what the caller relies on.

`Slots` knows no threads: an operation may begin whenever fewer than `width` go
on. `EventQueue` implements it although `append` looks at nothing but the
last event of each thread.

## Runs

| run | properties | instance |
|---|---|---|
| `engine` | `TypeOK`, `NoTimewarp`, `CountMatchesPending`, `EmptyPopOnlyWithoutCosts`, `BusyNodesHaveEndTasks`, `IdleMeansFree`, `TopIsUnique`, `LogPCapacity` | 2 nodes, four machines: `g` over `o`; `o` over `g` with two threads, tag order and a limit that cuts runs short; `o` = 0 and a failed node; `o` = `g` = 0. Any sequence of at most `MaxRequests` = 2 requests per notification until `MaxSeq` = 6 |
| `checked` | `StatisticsAgree`, `TotalTimeCoversAll`, `RingsMeet`, `ExclusiveBarrier`, `TreeIsOver`, `GossipWindow`, `CheckedReachesAll`, `MatchesTests`, `ImplementsBroadcast` | all five styles with checked correction: 4 nodes on two trees, six machines, every set of failed nodes but the root, one and two threads, both orders; 5 nodes on two machines, also on the optimal tree; a failed root. All five styles with gossip, 3 nodes on three machines with gossip times `k` = 0 and 1, 4 nodes on one machine, every set of failed nodes, every draw. The parameters of 58 unit tests, up to 21 nodes |
| `failures` | `NeighboursCovered`, `TreeReachesBelow`, `FewFailuresTolerated`, `AwaitedChildren`, `WholeSubtreesFinish`, `ImplementsConvergecast` | all six styles with opportunistic correction, 5 nodes, all distances the constructor accepts, every set of failed nodes; 7 nodes on the optimal tree; plain trees of 8 nodes with selected failures; acknowledged broadcasts and reductions of 7 nodes on three trees and four machines, up to two failures, the root included; one and two trees of 8 nodes, up to two failures; three trees of 12 nodes, every two failures; trees that do not fit (the exception and the assertion); free operations; a single node |
| `termination` | `Terminates` | every style on 4 nodes, six machines, with and without a failed inner node; gossip on 3 nodes; two trees on 6 nodes |
| `trees` | `SpanningTree`, `ScatteredSubtrees`, `LameIsPunctual` | every constructor for 1 to 17 nodes and `k` from 1 to 4 |
| `optimal` | `OutsideOnlyIfTied`, `SpansIfSlow`, `LeastIfEven`, `DeadlineKnowsLabels`, `ConstructionEnds` | `L` from 0 to 5, `o` to 3, `g` to 4, 1 to 18 nodes |
| `timeline` | `Chronological`, `UsedInOrder`, `WalkVisitsAll`, `EndIsLatest`, `AcceptsIfFree`, `ImplementsSlots` | 1 to 3 threads, events that take 0 to 3, at most `MaxEvents` = 6 of them that start by `MaxStart` = 5 |
| `repetitions` | `RepetitionsAgree`, `SeedReproduces` | two and three repetitions of seven styles on 4 nodes, one or two uniform faults, seeded and not; gossip alone and before checked correction on 3 nodes, seeded and not, up to one fault; a limit that cuts some repetitions short, listed faults, a phase that throws, two assertions, a refusal |
| `empty_pop`, `same_node_twice`, `optimised`, `optimal_late` | one each | disagreements, see below |

**Why the bounds are enough.** Six sequence numbers in `engine` (the initial tasks take two) let a message
pass through all its stages while idle requests and timers of both nodes
compete with it, and two requests per notification make a node send twice in one
timestamp or send and ask for an idle task; a third node would only add
messages that the two can also exchange, as the engine treats every node by
itself. The theorems below remove the bounds from all eight properties. Those of
`timeline` have their bounds removed, too; six events are two on each of three
threads. Four and five nodes are the smallest rings on which the two
directions meet at one node and at two, and on which a gap of failures lies
between two correcting nodes; the six machines have `L` below, at and above
`o`, `g` on either side of `o`, and one of both free. Gossip needs a third node
for a choice at all, and a fourth for two senders that choose the same receiver
while a third one is left out. Seven nodes have inner nodes on two levels in
every tree, so a failure may cut a whole subtree or a leaf, or two of them. Three trees
with three children per inner node need twelve nodes. 17 nodes are one more than
a full binomial tree, and cut every k-ary level in the middle.
For the optimal tree the machines have messages that take less than, exactly and
several times the time of a send, and its disagreement needs eleven nodes. `TimeMax` =
1000 and the limit of 500 are beyond the longest run (under 100), and the limit
as such is exercised in `engine`, `checked` and `repetitions`. `CONSTANTS` that
only bound the open engine (`MaxSeq`, `MaxRequests`, `Delays`, `SendTags`) are
zero or empty in the runs of `Collective`, which closes it.

`MatchesTests` ties the model to the program: it must produce the exact runtimes
that the test suite expects of the code, which depend on every priority, gap and
rescheduling. Three parameters of `phased_test.cpp` (lines 62, 64, 66) expect a
runtime of 99 under a comment that asks what it should be; they are placeholders
and not part of the run. `gossip_test.cpp` expects what one seed of one library's
generator yields, which a choice among all draws does not determine.

**Stuttering and deadlock.** `Stopped` (and `Finished`, `Ended` in the other
modules) is a step that changes nothing once the loop was left, so TLC's
deadlock check stays on and finds a state in which the loop runs and cannot take
an iteration. A timeline whose events are used up can still be walked over.

**Fairness.** `termination` and `optimal` need it. Both are sequential code in
one thread, so the next iteration of a loop happens: `FairCSpec` has
`WF_vars(CNext)`, `FairSpec` has `WF_vars(Construct)`. Nothing is assumed of
single actions; time passes, messages arrive and timers fire because the heap
says so, and the constructor moves on because its labels say so. Machines with
`o` = `g` = 0 are left out of `termination`, as they abort (below); gossip with
`L` = `o` = `g` = 0 would go on forever, as its clock does not move.

## Disagreements found

1. `empty_pop`: when operations cost nothing the loop ends in the assertion of
   `TaskQueue::pop`. A node that sends is no longer idle in this timestamp
   (`was_idle` 0), so its request is not delivered, and as its operations end in the
   same timestamp the clock never moves and `was_idle` is never reset.
   `EmptyPopOnlyWithoutCosts` and its proof say that this is the only way.
2. `same_node_twice`: the comment in `phased_test.cpp:65` asks that checked
   correction does not send to one node on both rings; the condition in
   `post_message` allows it for the last message. `RingsMeet` shows that this is
   the only message sent twice, and that no node ever sends to itself.
3. `optimised`: the optimised correction computes what the sender covers with
   `left_dist` where the sender uses `right_dist`. For an odd distance a node is
   left to a sender that does not cover it (5 nodes, distance 3, nodes 1 and 2
   failed). Also with equal distances two nodes may leave one node to each other,
   since the reach of a sender was cut by a third node (7 nodes, distance 6, nodes
   2 and 5 failed: 3 and 4 leave node 6 to each other). Both contradict the comment
   at `correction.cpp:98`. The plain opportunistic styles have no such gap
   (`NeighboursCovered`). That property does not speak of the style
   `corrected_binomial_bcast`, in which a node that is hit by an early correction
   leaves the collective without correcting; nothing in the repository promises
   coverage there.
4. `optimal_late`: the optimal tree is not optimal on the default machine with
   eleven nodes, since the loop compares with the next node and with node 0 only.
   `LeastIfEven` says where it is: when a message takes a multiple of the time
   of a send.

Smaller observations, which the passing runs delimit or reach:

- `optimal.cpp:102`: when a message takes exactly as long as the next send
  (`L + 2o = max(o, g)`, as in `L` = 1, `o` = 1, `g` = 3 and three nodes)
  `running_i` leaves the vector. `OutsideOnlyIfTied` says that this is the only case.
- `optimal.cpp:110`: parents are indices taken before the sort. When a message is
  faster than the next send (`L` = 1, `o` = 0, `g` = 4, six nodes) inner nodes move
  and a node is left without an edge. `SpansIfSlow` says that otherwise none is.
- `flogsim.cpp:45`: the csv header is printed after the first repetition. Without a
  seed a later repetition may be the first to record a metric, and its row has
  more columns than the header. `SeedReproduces` is therefore about seeded runs.
- `fault_injector.cpp:145`: uniform faults are refused when `F` and the robust nodes
  together reach `P`, although robust nodes stay alive.
- `multitree.cpp:55` asserts that at most half of the nodes are inner nodes, also for a
  single tree: five nodes with two children each, which are three inner nodes, abort.
- `multitree.hpp:5` speaks of roots chosen at random; they are spaced evenly.
- `phased_checked_corrected_kary_inorder_bcast` is registered, but the in-order k-ary
  tree is asserted out by its constructor.

## Proofs

**The engine**, for all configurations, numbers of nodes and threads and for whatever
the phases ask. The theorems are about `OpenSpec`, in which a phase may ask for any
number of tasks of any tag and receiver, as long as they are its own node's and not for
the past; `BoundedIsOpen` says that `QSpec`, which TLC explores with its bounds on
requests, is an instance. All eight properties of the run `engine` are theorems of
`EngineProofs`: `TypeCorrect`, `NeverTimewarp`, `CountCorrect`, `BusyCovered`,
`EmptyPopSafe`, `OrderIsTotal`, `CapacityRespected` and `IdleIsFree`.

The first five follow from one inductive invariant, `IInv`, with `Invariance` as
`OpenSpec => []IInv`. `IInv` is the conjunction of those five and of `LoopGoesOn`: while
the loop runs there is a task or a request. None of them is inductive alone:
`NoTimewarp` needs that times are numbers, `BusyNodesHaveEndTasks` needs that the
clock only goes forward, and `EmptyPopOnlyWithoutCosts` says something of the state
after a step that follows from what the others say of the state before. It also
matters that `BusyNodesHaveEndTasks` speaks of the nodes that were busy in this
timestamp, of every thread and of the send gap separately, as the idle tracker
looks at each of them. The argument for `EmptyPopSafe`: if
the heap is empty no end task is left, so by `BusyNodesHaveEndTasks` no thread
and no gap of any node ends in the future and (when operations cost something) no
node was busy in this timestamp; `count` is positive, as the loop is running, so
by `CountMatchesPending` some node is pending; that node is deliverable, so
`Ready` is not empty and `EmptyPop` is not enabled.

The other three use `IInv` in every step and add:

- `Numbering`: every number in use was drawn. The delivered idle tasks are numbered
  by the order of their nodes, so that they differ from each other (`BeforeCounts`),
  and what `execute`, the phases and `again` schedule comes from disjoint ranges.
- `LogPInv`: the operations in progress of a node map one to one to its threads, each
  to one whose timeline ends with it; an operation within a gap is the last of
  its kind, and the gap is its own. An operation starts on a free thread, which no
  operation in progress is mapped to; the property itself is then a matter of
  counting.
- `IdleInv`: an idle task is due now, its node is free and has no other, and whatever
  else is due in this timestamp neither ends an operation nor is a reception,
  and belongs to other nodes (when operations cost something; when not, nothing
  lasts). Delivery happens only when the top of the heap belongs to a later
  timestamp, so it meets an empty present (`ReadyUndisturbed`). That a heap has a
  top is proved from the well-foundedness of the naturals (`TopExists`).

**The timelines**, for any number of threads and any length of an event. All six
properties of the run `timeline` are theorems of `EventQueueProofs`, from
the invariant `IInv` (type, `Chronological`, `UsedInOrder`, and that a walk has seen
exactly the positions before it). `UsedInOrder` is needed by the walk: it starts at the
first thread without a look. `AcceptsCorrect` counts the events that go on by
mapping them to the threads they keep busy, and `SlotsImplemented` shows
`Spec => ImplementsSlots` under the refinement mapping `Starts`, with a
numbering of the events as its invariant.

**The collectives**, for every sequence of phases that a registered style may have
(`CollectivesAssumption`), every tree, machine, number of nodes and set of failures.

- `CollectiveInvariant`: the invariant `CInv` is `IInv` of the engine, the type of what the
  phases keep (`LocalOK`) and `StartUp`: while the trees of a `MultiTree` begin nobody but the
  root was reached, so that the assertions about them are met by the root alone.
  `Proper` says what a phase may answer, and every phase has a lemma that it does.
- `EngineServes`: every step of `CNext` is a step of the open engine, and
  `EngineOfCollectives`: so `IInv`, `OrderIsTotal`, `CapacityRespected` and `IdleIsFree` hold of
  every collective. This is why the run `engine` and the runs of the collectives need
  not check the same things twice.
- `RingsNeverCross` (`RingsMeet`, more than one node): the two offsets of a ring add up to at most `P`, and no message
  is for its sender. `post_message` looks at the sum before it moves, but a message to the
  barrier at the root moves one offset and starts over, so what is needed beyond
  the sum is where the two directions are: while both are active they take turns (`RingsFine`,
  with `nowLeft` if throttled). The distances of the opportunistic correction are bounded,
  and a node leaves when it has covered them (`SentFine`). On a machine with a single node
  and correction over the root the node would send to itself, and
  `correction.cpp:280` and `task.hpp:275` assert that nobody does.
- `BroadcastImplemented` (`ImplementsBroadcast`): with the mapping `Reached`, `Wire`, `Live` every
  step is a step of `Broadcast` or a stutter, if the collective starts at the root alone.
  Nodes that are not reached must not send. They do get tasks: an `InitTask` in each phase and
  the timer of an exclusive phase or of gossip. `Senders` says whose tasks are in the
  heap, `OneWait` that a node that is not reached waits for one of those at a time, so that
  an old timer cannot make it take part in a later phase.
- `StatisticsHold` (`StatisticsAgree`): at the end of a run everybody who was reached has finished.
  `Guided` is the reason: whoever is in a phase that lasts, or was reached and is not done, has a
  task in the heap or a request that its phase waits for (`Cued`; which tasks those are is
  `IsCue`). Each phase must therefore ask for its next cue when it is served one (`Keeps`), also
  when it is served by a message that came early. `Counted` ties `done`, `finished`, `failures`
  and the tasks `Finish` and `Failure` to each other. The heap and the requests are empty
  in the end, so nobody is in between.
- `TotalTimeHolds` (`TotalTimeCoversAll`, unless nodes gather): `SpanInv` says that who occupied a
  cpu was reached or is receiving, so that it finishes (`Worked`); that whoever finished is covered
  by the total time (`Spanned`); and that nothing happens to it afterwards (`LateOnly`): when the
  first `FinishTask` is at the top, at `Time::max()`, no other task is due before and no idle
  task is delivered, the tasks of the kind move neither the clock nor the idle tracker, and
  whatever else is left lies beyond the time limit. A node that gathers and waits for a
  failed one never finishes, so the total time need not cover it.
- `GossipLasts` (`GossipWindow`, more than one node) and `BarrierHolds` (`ExclusiveBarrier`): `WindowInv` says that all
  timers of phases up to the one that lasts are set for its end, that who is past it is late
  enough, and, for an exclusive phase, that so is every message of another tag than the
  tree's, as it would end the phase early. The start of the window may only be taken from a
  clock that has not passed it (`InTime`). That nobody stays behind follows with `Guided`
  and `NeverTimewarp`: the cue of such a node lies in the past.
- `CheckedCorrects` (`CheckedReachesAll`, more than one node, operations or messages take time):
  the point of the checked correction, whichever nodes but the root failed and whatever the
  phases before it achieved. `CoverInv` says three things. What a ring has sent is
  `Headed`: its receiver failed, was reached, or the message is on its way (`Rounds`). Who
  stops to the right at a distance has heard of a node there that is itself in the correction, or
  stopped at the root (`Round`), and nobody leaves the correction before it is exhausted
  (`Correctors` only grow). And the root takes part: only a message other than gossip
  could make it skip the correction, so of every message one knows when it arrives
  at the earliest (`Arrival`), that it is not along the tree to the root, and, if it is none of
  the early phases, that the time of those had passed when it was sent (`Letters`, `AfterAll`). This
  is where a message must take time: the root has its `InitTask`s served at the start and is in the
  correction or in a phase that lasts before anything arrives (`RootPatient`). In the end
  nobody is underway, and the argument is `Gapless`: take a node that was not
  reached and the last corrector before it (`GreatestBelow`; the root is one). What that one
  sent to the right fell short of the node, so it either heard of a corrector nearer, which is not
  there, or its two directions met, and then what it sent to the left, around the ring, got to
  the node, for a barrier at the root would have stopped the two before they met.
- `AwaitedHolds` (`AwaitedChildren`) and `ConvergecastImplemented` (`ImplementsConvergecast`), for the
  acknowledged broadcast and the reduction on any tree in which nobody has two parents
  (`Gathers`; that the constructed trees are such is `SpanningTree` and stays with TLC). `Acts` lists
  what a node may do about a task: go on with nothing to count, relay the message, count a
  child, or report. In `GatherInv`, `Expected` is the counter itself, and the rest is what it needs: a
  report is underway at most once (`Lone`, with `TopIsUnique`) and only from a child that has reported
  (`Traffic`); the counter is negative exactly for those who are through (`Complete`); and a report finds
  its receiver in the phase that counts (`Arrives`). In a broadcast the last follows from the
  tree: whoever reports was reached by a parent that had gone on to gather (`Descends`). In a reduction
  it follows from the order of the heap alone: while a live node is in the first phase its
  `InitTask` is due, and it is served before any message leaves (`Early`); a parent that were still in
  the first phase would miss the report and wait forever. The refinement then is one
  step: who reports had a counter of zero, so nobody below it is awaited.
- `TreeReaches` (`TreeReachesBelow`, the phase not exclusive) and `NobodyElseReached` (exclusive or
  not): a tree reaches exactly the live nodes all of whose ancestors work. `SpreadInv` says that
  whoever is past a plain tree was reached and that all its children are `Headed`, and that nobody
  is done before the last phase; the other inclusion is `OnlyBelow`, that messages are underway to
  children only. `TreeReached` and `Subtree` are computed by recursive functions, wave after wave. What
  the proofs use of them is that they are the least sets closed under (live) children
  (`TreeReachedIs`, `SubtreeIs`): as many waves as there are nodes suffice, since a wave that adds
  nothing is the last and one that adds something adds a node.
- `SubtreesFinish` (`WholeSubtreesFinish`): who gathers finishes exactly if its whole subtree works.
  A failed node keeps all above it waiting (those who have reported are closed under children).
  Nobody else waits forever: `Settled` says that a live node that was reached and has nobody to wait for is
  about to get its `InitTask`, so at the end whoever has not reported awaits a child that has not
  either, and the nodes with a working subtree that have not reported would lead along children without end;
  since in a tree without two parents the others are closed under children, there are none.
  A reduction needs that all nodes are in the tree (`Spans`).
- `FewFailures` (`FewFailuresTolerated`): with a live root, fewer failures than trees keep
  nobody from finishing. `FanInv` says that whoever is through has sent to its children in every
  tree, and the root also to the other roots, after it found that the trees fit. The inner
  nodes of the trees are then disjoint (`InnerApart`), so by the pigeonhole principle one tree
  has none that failed (`TreeSpared`), and the ranks whose copy in that tree is dead or reached are closed
  under children (`SparedSpreads`). The tree of the topology must span the machine, and its
  leaves must have the last ranks (`LeavesLast`): `multitree.cpp:44` counts the inner nodes
  "assuming that all the leaf nodes have higher ranks".
- `ForwardingCovers` (`NeighboursCovered`, no phase exclusive and no gossip): opportunistic correction behind a
  tree that forwards covers the live nodes within the distance of every node the tree reaches.
  `CircleInv` says that what a node has sent to either side is headed for its receiver, unless that lies
  beyond the root, and that nobody is through before both sides are covered. A correction
  that overtakes the tree makes its receiver both forward along the tree and correct, so
  that `SpreadInv` still holds of it.

The hypotheses on trees hold of what TLC runs: `TreesAssumption` of `MCCollective` says of every tree the
gathering styles and the multiple trees are run on that each node but the root has one parent, and one
before it (so `OneParent` and `Spans`), and that the leaves have the last ranks (`LeavesLast`). That all constructed trees up
to a bound are spanning trees is `SpanningTree`.

**The main program**, for every number of repetitions and every choice of failed nodes
(`ExperimentsAssumption`). All of the above is proved of `RepeatedSpec`, in which a collective may
start again at any time, with other failures and with whatever sequence number is next; a
single collective (`CSpec`, the specification of the runs) is the case in which none does (`OneCollective`).
`RepetitionsAreCollectives` (`RSpec => RepeatedSpec`) shows that the main loop does nothing else: what
`Begin` writes, field by field, is what a collective starts with, on a configuration that differs in its failed nodes alone
(`BeginStarts`), and reports, exceptions and assertions leave the collective as it is. So `EngineOfRepetitions`,
`EveryRepetition` and `EveryGathering` say that all invariants proved of a collective hold in every
repetition. The refinements start from the initial states and are about one collective.

**The abstract specifications** (`AbstractProofs`). `ColourHasCause`: in a broadcast a message comes from a
coloured node. `RootIsRight`: in a convergecast whose nodes are all below the root, a
report of the root means that nobody failed; those who have reported are closed
under "below".

The assumptions are the named ones: configurations are well-formed
(`ConfigurationsAssumption`), their phases come in an order that registered styles have, and no
tree has an edge to its root or from a node to itself (`CollectivesAssumption`), the bounds are numbers
(`BoundsAssumption`), no time limit
lies beyond the largest time (`LimitAssumption`, used by `IdleIsFree`: a `FinishTask`
at `Time::max()` must not share a timestamp with an idle task, and by `WindowInv`), timelines have at least
one thread (`ShapesAssumption`), and a configuration with other failed nodes, drawn as the fault injector
draws them, is a configuration (`ExperimentsAssumption`). TLC evaluates all of them.

Only model-checked:

- `TreeIsOver`: that the deadline is not too early bounds from above how long a machine
  takes, by an induction over the tree.
- `TreeReachesBelow` and `NeighboursCovered` for exclusive trees, which rest on it: a node that a message of the
  tree reached after the deadline would not forward it.
- `SpanningTree`, `ScatteredSubtrees` and `LameIsPunctual`, about trees that are computed with powers, levels and
  a recurrence (the provers know no law of `^`), and the optimal construction, a recursive operator:
  each would need induction over data.
- `RepetitionsAgree` and `SeedReproduces`, which compare two repetitions: that they start alike is
  proved (`BeginStarts`), but not that the same start has the same end.
- `MatchesTests`, a table of numbers, and liveness, which is beyond TLAPS.

## Not modelled, and plan

Left out on purpose: verbose output, log files, parsing of the command line and of lists of
failures, the table format, columns and layout, the counters of issued tasks but
for messages, the names in the registry and its listing,
and the exception for an inner phase of `Exclusive` that
forwards (no registered collective does that). Not called by any collective:
`Lame::latency_at_node`, `compute_l_max`, `calc_runtime` of the k-ary tree. Gossip
on a single node draws from an empty range, which the model leaves out. The sequence
of random numbers is a choice of a receiver and of a set of failed nodes.

What is left to prove: `TreeReachesBelow` and `NeighboursCovered` for exclusive trees, from `TreeIsOver` as a hypothesis.
