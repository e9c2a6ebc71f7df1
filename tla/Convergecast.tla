---------------------------- MODULE Convergecast -----------------------------
(***************************************************************************)
(* What an acknowledgement or a reduction promises: a node reports once,   *)
(* after all the nodes below it have reported, and a failed node never     *)
(* does.  How the reports travel, and when, is left open.                  *)
(***************************************************************************)

VARIABLES
  live,    \* the nodes that work, never changed
  below,   \* the children of every node, never changed
  reported \* the nodes that have reported

vars == <<live, below, reported>>

Init == reported = {}

Report(n) ==
  /\ n \in live \ reported
  /\ below[n] \subseteq reported
  /\ reported' = reported \cup {n}
  /\ UNCHANGED <<live, below>>

Next == \E n \in DOMAIN below : Report(n)

Spec == Init /\ [][Next]_vars

-----------------------------------------------------------------------------
(* A set with the children of all its members. *)
Closed(nodes) == \A n \in nodes : below[n] \subseteq nodes

(* The report of the root is an acknowledgement by everybody: who has      *)
(* reported works, and so does all that is below it.  With a spanning tree *)
(* the only closed set that holds the root is the set of all nodes.        *)
RootSpeaksForAll ==
  0 \in reported /\ (\A nodes \in SUBSET DOMAIN below : Closed(nodes) /\ 0 \in nodes => nodes = DOMAIN below)
    => DOMAIN below \subseteq live
=============================================================================
