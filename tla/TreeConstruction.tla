-------------------------- MODULE TreeConstruction ---------------------------
(***************************************************************************)
(* The constructors of the topologies: sender by sender, each adds the     *)
(* edges to its receivers (lib/topology, Topology::add_edge).              *)
(***************************************************************************)
EXTENDS Topology

CONSTANTS
  MaxP, \* bound: the largest number of nodes
  Ks    \* bound: the values of --k

ASSUME TreeBoundsAssumption == MaxP \in Nat \ {0} /\ Ks \subseteq Nat \ {0}

VARIABLES
  tree,     \* the constructor called: its shape, P and k
  sender,   \* the counter of its loop
  children, \* Topology::nodes[].children, filled in so far
  parents   \* Topology::nodes[].parents

vars == <<tree, sender, children, parents>>

Rank == 0 .. tree.P - 1

Init ==
  /\ tree \in [shape : Shapes, P : 1 .. MaxP, k : Ks]
  /\ sender = 0
  /\ children = [n \in Rank |-> <<>>]
  /\ parents = [n \in Rank |-> <<>>]

(* add_edge(sender, m) for all the receivers m of the sender. *)
AddEdges ==
  LET receivers == Children(tree.shape, tree.P, tree.k, sender)
      Posts(m) == {i \in DOMAIN receivers : receivers[i] = m}
  IN /\ sender < tree.P
     /\ sender' = sender + 1
     /\ children' = [children EXCEPT ![sender] = @ \o receivers]
     /\ parents' = [m \in Rank |-> parents[m] \o [i \in 1 .. Cardinality(Posts(m)) |-> sender]]
     /\ UNCHANGED tree

Built == sender = tree.P /\ UNCHANGED vars

Next == AddEdges \/ Built
Spec == Init /\ [][Next]_vars

-----------------------------------------------------------------------------
(* The dissemination relies on a spanning tree: a node sends on when it is *)
(* reached, so a node with two parents would post its messages twice and   *)
(* one without a parent never gets any.  The constructors compute children *)
(* by formulas over bits, levels and a recurrence, and never look at what  *)
(* other senders added.  A parent always precedes its children.            *)
SpanningTree ==
  /\ \A m \in Rank : Len(parents[m]) <= 1
  /\ \A m \in Rank : \A i \in DOMAIN parents[m] : parents[m][i] < m
  /\ sender = tree.P => \A m \in Rank \ {0} : parents[m] # <<>>

(* The nodes of the subtree of n. *)
Subtree(n) ==
  LET below[m \in Rank] == m = n \/ (m > n /\ parents[m] # <<>> /\ below[parents[m][1]])
  IN {m \in Rank : below[m]}

(* The point of the interleaved orders: one failed node leaves no two      *)
(* neighbours on the ring uncoloured, so correction with both neighbours   *)
(* reaches everybody.  It takes at least two children per node.            *)
ScatteredSubtrees ==
  sender = tree.P /\ tree.shape # "BinomialInorder" /\ tree.k >= 2 =>
    \A n \in Rank \ {0} : \A m \in Subtree(n) : (m + 1) % tree.P \notin Subtree(n) \/ tree.P = 1

(* Lame: with a latency of k - 2 overheads, a node is reached exactly when *)
(* the recurrence lets it send its first message.                          *)
LameIsPunctual ==
  sender = tree.P /\ tree.shape = "Lame" /\ tree.k >= 2 =>
    Completions(children, tree.k - 2, 1) = {<<n, LameStart(tree.P, tree.k, n)>> : n \in Rank}
=============================================================================
