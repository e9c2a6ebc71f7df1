------------------------------ MODULE Broadcast ------------------------------
(***************************************************************************)
(* What every broadcast of flogsim promises, whatever its tree, correction *)
(* and timing: only a coloured node sends, a message colours the node it   *)
(* is delivered to, a failed node swallows it, and nothing else colours or *)
(* loses anything.                                                         *)
(***************************************************************************)

VARIABLES
  live,     \* the nodes that work, never changed
  coloured, \* the nodes that know the value; the root from the start
  wire      \* the messages underway: records with the fields id, from, to

vars == <<live, coloured, wire>>

Init == coloured = {0} /\ wire = {}

New == wire' \ wire

(* n posts messages. *)
Speak(n) ==
  /\ n \in coloured \cap live
  /\ wire \subseteq wire'
  /\ \A m \in New : m.from = n
  /\ UNCHANGED <<live, coloured>>

(* A message is delivered, and the node it reaches may post some at once.  *)
(* A phase may hand the message to the next one, which delivers it again.  *)
Hear(m) ==
  /\ m.to \in live
  /\ coloured' = coloured \cup {m.to}
  /\ wire \ {m} \subseteq wire'
  /\ \A x \in New : x.from = m.to
  /\ UNCHANGED live

Lose(m) ==
  /\ m.to \notin live
  /\ wire' = wire \ {m}
  /\ UNCHANGED <<live, coloured>>

Next ==
  \/ \E n \in coloured : Speak(n)
  \/ \E m \in wire : Hear(m) \/ Lose(m)

Spec == Init /\ [][Next]_vars

-----------------------------------------------------------------------------
(* Every message comes from a coloured node: colour has a cause. *)
Causality == \A m \in wire : m.from \in coloured
=============================================================================
