------------------------------ MODULE MultiTree ------------------------------
(***************************************************************************)
(* Multiple trees (lib/phase/multitree.cpp): the root sends to the roots   *)
(* of c.d - 1 further trees, which are the same topology with the ranks    *)
(* rotated, so that no node has children in two of them.                   *)
(***************************************************************************)
EXTENDS Phase, FiniteSets

(* Nodes before the first one without children. *)
InnerCount(c) ==
  CHOOSE i \in 1 .. c.P : /\ i = c.P \/ c.receivers[i] = <<>>
                          /\ \A j \in 1 .. i - 1 : c.receivers[j] # <<>>

(* Mutant of TreeRoots: the trees share an inner node. *)
TreeRootsShared(c) ==
  IF c.d <= 1 THEN <<0>> ELSE [i \in 1 .. c.d |-> IF i = 1 THEN 0 ELSE (i - 1) * InnerCount(c) - 1]

TreeRoots(c) == IF c.d <= 1 THEN <<0>> ELSE [i \in 1 .. c.d |-> (i - 1) * InnerCount(c)]

(* "If leaf nodes are less than half, something is broken." *)
LeavesPrevail(c) == InnerCount(c) <= c.P \div 2

(* Otherwise "Tree fan out is too low". *)
TreesFit(c) == \A i \in 2 .. Len(TreeRoots(c)) : TreeRoots(c)[i] + InnerCount(c) <= c.P

(* to_virtual and to_real *)
ToVirtual(c, n, root) == (n - root + c.P) % c.P
ToReal(c, rank, root) == (rank + root) % c.P

TreeSends(c, n, at, root) ==
  LET receivers == c.receivers[ToVirtual(c, n, root)]
  IN [i \in DOMAIN receivers |-> SendRequest("TREE", at, n, ToReal(c, receivers[i], root))]

(* post_sends: tree after tree. *)
MultiTreeSends(c, n, at) ==
  LET sends[i \in 0 .. Len(TreeRoots(c))] ==
        IF i = 0 THEN <<>> ELSE sends[i - 1] \o TreeSends(c, n, at, TreeRoots(c)[i])
  IN sends[Len(TreeRoots(c))]

(* Only the root is reached when it is initialised. *)
MultiTreeInit(c, s, at) ==
  IF s.reached
  THEN Outcome("DONE_PHASE",
               [i \in 1 .. Len(TreeRoots(c)) - 1 |-> SendRequest("GOSSIP", at, 0, TreeRoots(c)[i + 1])]
                 \o MultiTreeSends(c, 0, at), s)
  ELSE Ongoing(s)

MultiTreeRecvEnd(c, n, s, at) ==
  Outcome("DONE_PHASE", IF s.reached THEN <<>> ELSE MultiTreeSends(c, n, at),
          [s EXCEPT !.reached = TRUE])

MultiTreeDispatch(c, n, s, t, at) ==
  CASE t.type = "Init"    -> MultiTreeInit(c, s, at)
    [] t.type = "RecvEnd" -> MultiTreeRecvEnd(c, n, s, at)
    [] OTHER              -> Ongoing(s)
=============================================================================
