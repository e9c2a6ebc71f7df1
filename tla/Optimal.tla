------------------------------- MODULE Optimal -------------------------------
(***************************************************************************)
(* The tree of lib/topology/optimal.cpp: compute_opt_tree predicts when    *)
(* every node can complete its next message, and lets the node running     *)
(* send until the next one is faster.                                      *)
(*                                                                         *)
(* m is a machine with L, o, g and P.  A build is the state of the loop:   *)
(* nodes, the vector of [label, parent, i] whose entry n + 1 is nodes[n],  *)
(* and running, the index running_i.                                       *)
(***************************************************************************)
EXTENDS Integers, Sequences, FiniteSets

(* The time between two sends of a node, and that of a message. *)
Step(m) == IF m.g > m.o THEN m.g ELSE m.o
Hop(m) == m.L + 2 * m.o

(* Mutant of Predict: the last send of the node is not counted. *)
PredictEarly(m, nodes, n) ==
  nodes[n + 1].label + Step(m) * (IF nodes[n + 1].i = 0 THEN 0 ELSE nodes[n + 1].i - 1) + Hop(m)

(* time_predict *)
Predict(m, nodes, n) == nodes[n + 1].label + Step(m) * nodes[n + 1].i + Hop(m)

(* Before the loop: the root, and its first child. *)
FirstBuild(m) ==
  [nodes |-> <<[label |-> 0, parent |-> 0, i |-> 1], [label |-> Hop(m), parent |-> 0, i |-> 0]>>,
   running |-> 0]

Full(m, b) == Len(b.nodes) >= m.P

(* Both loops read nodes[running_i], whether there is one or not. *)
Inside(b) == b.running < Len(b.nodes)

Next(b) == (b.running + 1) % Len(b.nodes)

Faster(m, b) == Predict(m, b.nodes, b.running) < Predict(m, b.nodes, Next(b))

(* nodes.push_back *)
Pushed(m, b) ==
  [b EXCEPT !.nodes = Append([@ EXCEPT ![b.running + 1].i = @ + 1],
                             [label |-> Predict(m, b.nodes, b.running), parent |-> b.running, i |-> 0])]

(* Mutant of Turned: never back to an earlier node. *)
TurnedUp(m, b) == [b EXCEPT !.running = @ + 1]

(* Mutant of Turned: running_i goes round like next_node. *)
TurnedRound(m, b) ==
  [b EXCEPT !.running =
     IF Predict(m, b.nodes, 0) < Predict(m, b.nodes, @) THEN @ - 1 ELSE Next(b)]

Turned(m, b) ==
  [b EXCEPT !.running =
     IF Predict(m, b.nodes, 0) < Predict(m, b.nodes, b.running) THEN @ - 1 ELSE @ + 1]

-----------------------------------------------------------------------------
(* Mutant of Sorted: by the parent alone. *)
SortedByParent(nodes) ==
  LET Rank(n) == Cardinality({j \in DOMAIN nodes : \/ nodes[j].parent < nodes[n].parent
                                                   \/ nodes[j].parent = nodes[n].parent /\ j <= n})
  IN [r \in DOMAIN nodes |-> nodes[CHOOSE n \in DOMAIN nodes : Rank(n) = r]]

(* Node::operator< *)
Less(a, b) == a.label < b.label \/ (a.label = b.label /\ a.parent < b.parent)

(* std::sort, of values that are exchangeable where they are tied; parent  *)
(* goes on to hold the index before the sort.                              *)
Sorted(nodes) ==
  LET Rank(n) == Cardinality({j \in DOMAIN nodes : \/ Less(nodes[j], nodes[n])
                                                   \/ ~ Less(nodes[n], nodes[j]) /\ j <= n})
  IN [r \in DOMAIN nodes |-> nodes[CHOOSE n \in DOMAIN nodes : Rank(n) = r]]

(* Mutant of Edges: the last node is left out. *)
EdgesShort(m, nodes, n) ==
  {r \in 0 .. m.P - 2 : nodes[r + 1].parent = n /\ r # n}

(* The constructor: add_edge(parent, receiver) for one receiver after the  *)
(* other; a node that takes itself for its parent is the root.             *)
Edges(m, nodes, n) ==
  {r \in 0 .. m.P - 1 : nodes[r + 1].parent = n /\ r # n}

OptimalReceivers(m, nodes) ==
  [n \in 0 .. m.P - 1 |->
     LET to == Edges(m, nodes, n)
     IN [i \in 1 .. Cardinality(to) |-> CHOOSE r \in to : Cardinality({s \in to : s < r}) = i - 1]]

-----------------------------------------------------------------------------
(* One round of the loops. *)
Grown(m, b) == IF Full(m, b) THEN b ELSE IF Faster(m, b) THEN Pushed(m, b) ELSE Turned(m, b)

(* The whole construction.  MaxRounds bounds it: enough for up to 50 nodes. *)
MaxRounds(m) == 3 * m.P

OptimalTree(m) ==
  LET built[i \in 0 .. MaxRounds(m)] ==
        IF i = 0 THEN FirstBuild(m) ELSE Grown(m, built[i - 1])
  IN OptimalReceivers(m, Sorted(built[MaxRounds(m)].nodes))
=============================================================================
