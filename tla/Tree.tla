-------------------------------- MODULE Tree ---------------------------------
(* The dissemination along a tree (lib/phase/tree.cpp).  c.receivers[n] are *)
(* the children of n in the order Topology::receivers returns them.         *)
EXTENDS Phase

(* Mutant of PostSends: the last child is left out. *)
PostSendsShort(c, n, at) ==
  [i \in 1 .. Len(c.receivers[n]) - 1 |-> SendRequest("TREE", at, n, c.receivers[n][i])]

PostSends(c, n, at) ==
  [i \in DOMAIN c.receivers[n] |-> SendRequest("TREE", at, n, c.receivers[n][i])]

(* The assertion of dispatch(InitTask): only the root is reached so early. *)
TreeFails(n, s, t) == t.type = "Init" /\ s.reached /\ n # 0

TreeInit(c, n, s, at) ==
  IF s.reached THEN Outcome("DONE_PHASE", PostSends(c, n, at), s) ELSE Ongoing(s)

(* A message of a later phase also colours the node: it passes the message *)
(* on along the tree, and leaves the collective or forwards it.            *)
TreeRecvEnd(c, ph, n, s, t, at) ==
  Outcome(IF t.tag = "TREE" THEN "DONE_PHASE"
          ELSE IF ph.forward THEN "DONE_FORWARD" ELSE "DONE_COLL",
          PostSends(c, n, at),
          [s EXCEPT !.reached = TRUE])

TreeDispatch(c, ph, n, s, t, at) ==
  CASE t.type = "Init"    -> TreeInit(c, n, s, at)
    [] t.type = "RecvEnd" -> TreeRecvEnd(c, ph, n, s, t, at)
    [] OTHER              -> Ongoing(s)
=============================================================================
