---------------------------- MODULE MCCollective -----------------------------
(* Registered broadcasts on small machines. *)
EXTENDS Collective, Registered

T == INSTANCE Topology
O == INSTANCE Optimal

LogP(L, o, g) == [L |-> L, o |-> o, g |-> g]

(* Phases on a tree of a shape, on one machine; the optimal tree is the one *)
(* whose shape depends on the machine.                                     *)
TreeOf(shape, P, k, logp) ==
  IF shape = "Optimal" THEN O!OptimalTree([L |-> logp.L, o |-> logp.o, g |-> logp.g, P |-> P])
  ELSE T!Receivers(shape, P, k)

Run(phases, shape, P, k, logp, parallelism, tagFirst, limit, failed, d) ==
  LET receivers == TreeOf(shape, P, k, logp)
  IN [P |-> P, L |-> logp.L, o |-> logp.o, g |-> logp.g,
      parallelism |-> parallelism, tagFirst |-> tagFirst, limit |-> limit, failed |-> failed,
      phases |-> phases, receivers |-> receivers,
      deadline |-> T!Deadline(receivers, logp.L, LaterOf(logp.o, logp.g)),
      gossip |-> GossipTime(P, k), d |-> d]

Broadcast(style, shape, P, logp, failed, d) ==
  Run(Phases(style), shape, P, 2, logp, 1, FALSE, 500, failed, d)

(* Two threads on every node, and --priority. *)
Wide(style, shape, P, logp, failed, d) ==
  Run(Phases(style), shape, P, 2, logp, 2, TRUE, 500, failed, d)

(* Latency below, at and above the overhead; the gap above and below it,   *)
(* and operations that cost only one of the two.                           *)
Machines == {LogP(1, 1, 1), LogP(2, 1, 2), LogP(1, 2, 1), LogP(0, 1, 0), LogP(1, 0, 1), LogP(3, 2, 1)}
Free == LogP(1, 0, 0)

(* Whoever but the root failed. *)
Faults(P) == SUBSET (1 .. P - 1)

(* Every checked style on four and five nodes, also with a failed root. *)
CheckedRuns ==
  UNION {{Broadcast(style, shape, 4, m, f, 0), Wide(style, shape, 4, m, f, 0)} :
           style \in CheckedStyles, shape \in {"BinomialInterleaved", "Lame"},
           m \in Machines, f \in Faults(4)}
  \cup {Broadcast(style, "BinomialInterleaved", 5, m, f, 0) :
          style \in CheckedStyles, m \in {LogP(1, 1, 1), LogP(3, 2, 1)}, f \in Faults(5)}
  \cup {Broadcast("phased_checked", "Optimal", 5, m, f, 0) :
          m \in {LogP(2, 1, 2), LogP(3, 2, 1)}, f \in Faults(5)}
  \cup {Broadcast(style, "BinomialInorder", 4, LogP(1, 1, 1), {0, 2}, 0) : style \in CheckedStyles}

(* The other styles, at every distance the constructor accepts; operations *)
(* that cost nothing, and the single node that has nobody to send to.      *)
OtherRuns ==
  {Broadcast(style, "BinomialInterleaved", 5, m, f, d) :
     style \in OpportunisticStyles, m \in {LogP(1, 1, 1), LogP(0, 1, 0), LogP(1, 2, 1)},
     f \in Faults(5), d \in 0 .. 4}
  \cup {Broadcast("bcast", shape, 8, m, f, 0) :
          shape \in {"BinomialInterleaved", "BinomialInorder", "KAryInterleaved"},
          m \in Machines, f \in {{}, {1}, {2, 3}, {1, 4, 6}}}
  \cup {Broadcast("phased_opportunistic", "Optimal", 7, LogP(1, 1, 2), f, 2) : f \in Faults(7)}
  \cup {Broadcast("opportunistic", "Lame", 3, Free, f, 1) : f \in Faults(3)}
  \cup {Broadcast("bcast", "Lame", 1, LogP(1, 1, 1), {}, 0)}

(* Every style, without and with a failed inner node. *)
FairRuns ==
  {Broadcast(style, "BinomialInterleaved", 4, m, f, 3) :
     style \in Styles \cup GatherStyles, m \in Machines, f \in {{}, {1}}}
  \cup {Run(Phases(style), "BinomialInterleaved", 3, 0, m, 1, FALSE, 500, f, 1) :
          style \in GossipStyles, m \in {LogP(0, 2, 1), LogP(1, 1, 2)}, f \in {{}, {1}}}
  \cup {Broadcast("multitree", "KAryInterleaved", 6, m, {1}, 2) : m \in Machines}

(* Gossip among three and four nodes: the receivers are free to choose.  A *)
(* gossip time that is cut by the end of an operation, and one that is not. *)
GossipRuns ==
  {Run(Phases(style), "BinomialInterleaved", 3, k, m, 1, FALSE, 500, f, 2) :
     style \in GossipStyles, k \in {0, 1}, m \in {LogP(1, 2, 1), LogP(1, 1, 2), LogP(0, 1, 0)}, f \in Faults(3)}
  \cup {Run(Phases(style), "BinomialInterleaved", 4, 0, LogP(0, 2, 1), 1, FALSE, 500, f, 2) :
          style \in GossipStyles, f \in Faults(4)}

(* Acknowledged broadcasts and reductions, also with a failed root. *)
GatherRuns ==
  {Broadcast(style, shape, 7, m, f, 0) :
     style \in GatherStyles, shape \in {"BinomialInterleaved", "KAryInterleaved", "Lame"},
     m \in {LogP(1, 1, 1), LogP(0, 1, 0), LogP(1, 2, 1), LogP(1, 0, 1)},
     f \in {g \in SUBSET (0 .. 6) : Cardinality(g) <= 2}}

(* One to three trees, numbers of trees that do not fit, and a tree with   *)
(* too many inner nodes.  Three trees need twelve nodes.                   *)
MultiTreeRuns ==
  {Run(Phases("multitree"), shape, 8, 3, m, 1, FALSE, 500, f, d) :
     shape \in {"BinomialInterleaved", "KAryInterleaved"}, m \in {LogP(1, 1, 1), LogP(0, 1, 0), LogP(1, 2, 1)},
     f \in {g \in SUBSET (0 .. 7) : Cardinality(g) <= 2}, d \in 1 .. 3}
  \cup {Run(Phases("multitree"), shape, 12, 3, LogP(1, 1, 1), 1, FALSE, 500, f, 3) :
          shape \in {"BinomialInterleaved", "KAryInterleaved"},
          f \in {g \in SUBSET (1 .. 11) : Cardinality(g) = 2}}
  \cup {Run(Phases("multitree"), "KAryInterleaved", 7, 3, LogP(1, 1, 1), 1, FALSE, 500, {}, 2)}

FailureRuns == OtherRuns \cup GatherRuns \cup MultiTreeRuns

(* What proofs about these styles assume of their trees: everybody but the *)
(* root has one parent, before it, and the leaves have the last ranks.     *)
ASSUME TreesAssumption ==
  \A c \in GatherRuns \cup MultiTreeRuns :
    LET edges == {e \in (0 .. c.P - 1) \X (1 .. c.P) : e[2] \in DOMAIN c.receivers[e[1]]}
        Receiver(e) == c.receivers[e[1]][e[2]]
    IN /\ \A e \in edges : e[1] < Receiver(e)
       /\ \A m \in 1 .. c.P - 1 : Cardinality({e \in edges : Receiver(e) = m}) = 1
       /\ c.phases = Phases("multitree") =>
            \A m \in 0 .. c.P - 1 : m >= InnerCount(c) => c.receivers[m] = <<>>

-----------------------------------------------------------------------------
(* The runs that disagree with what the repository says. *)

(* Three nodes in a tree with a latency over the overhead. *)
TwiceRuns == {Broadcast("phased_checked", "KAryInterleaved", 3, LogP(3, 2, 1), {}, 0)}

FreeRuns == {Broadcast("opportunistic", "BinomialInterleaved", P, Free, {}, 1) : P \in 2 .. 4}

(* An odd distance: more to the right than to the left. *)
OddRuns == {Broadcast("optimized_opportunistic", "BinomialInterleaved", 5, LogP(0, 1, 0), f, 3) : f \in Faults(5)}

(* An even distance, and no way around the root. *)
EvenRuns == {Broadcast("optimised_corrected", "BinomialInterleaved", 7, LogP(1, 2, 1), f, 6) : f \in Faults(7)}

OptimisedRuns == OddRuns \cup EvenRuns
=============================================================================
