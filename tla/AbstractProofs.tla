--------------------------- MODULE AbstractProofs ----------------------------
(***************************************************************************)
(* What follows from being a broadcast, or a convergecast, and so holds of *)
(* every collective that implements the one or the other.                  *)
(***************************************************************************)
EXTENDS TLAPS

VARIABLES live, coloured, wire, below, reported

Broadcast == INSTANCE Broadcast
Convergecast == INSTANCE Convergecast

(* No message is underway that does not go back to the root: the phases    *)
(* mark the receiver as reached (ReachedNodes) before they let it send,    *)
(* also when a combiner hands the message to the next phase, or when       *)
(* correction overtakes the tree.                                          *)
THEOREM ColourHasCause == Broadcast!Spec => []Broadcast!Causality
<1>1. Broadcast!Init => Broadcast!Causality
  BY DEF Broadcast!Init, Broadcast!Causality
<1>2. Broadcast!Causality /\ [Broadcast!Next]_(Broadcast!vars) => Broadcast!Causality'
  <2> SUFFICES ASSUME Broadcast!Causality, [Broadcast!Next]_(Broadcast!vars) PROVE Broadcast!Causality'
    OBVIOUS
  <2>1. ASSUME NEW n \in coloured, Broadcast!Speak(n) PROVE Broadcast!Causality'
    BY <2>1 DEF Broadcast!Speak, Broadcast!New, Broadcast!Causality
  <2>2. ASSUME NEW m \in wire, Broadcast!Hear(m) PROVE Broadcast!Causality'
    BY <2>2 DEF Broadcast!Hear, Broadcast!New, Broadcast!Causality
  <2>3. ASSUME NEW m \in wire, Broadcast!Lose(m) PROVE Broadcast!Causality'
    BY <2>3 DEF Broadcast!Lose, Broadcast!Causality
  <2>4. CASE UNCHANGED Broadcast!vars
    BY <2>4 DEF Broadcast!vars, Broadcast!Causality
  <2> QED BY <2>1, <2>2, <2>3, <2>4 DEF Broadcast!Next
<1> QED BY <1>1, <1>2, PTL DEF Broadcast!Spec

-----------------------------------------------------------------------------
(* Those who have reported are a set of live nodes, closed under "below". *)
ReportersInv ==
  /\ reported \subseteq live \cap DOMAIN below
  /\ Convergecast!Closed(reported)

LEMMA ReportersInit == Convergecast!Init => ReportersInv
BY DEF Convergecast!Init, ReportersInv, Convergecast!Closed

LEMMA ReportersStep == ReportersInv /\ [Convergecast!Next]_(Convergecast!vars) => ReportersInv'
<1> SUFFICES ASSUME ReportersInv, [Convergecast!Next]_(Convergecast!vars) PROVE ReportersInv'
  OBVIOUS
<1>1. ASSUME NEW n \in DOMAIN below, Convergecast!Report(n) PROVE ReportersInv'
  <2>1. (reported \subseteq live \cap DOMAIN below)'
    BY <1>1 DEF Convergecast!Report, ReportersInv
  <2>2. Convergecast!Closed(reported)'
    BY <1>1 DEF Convergecast!Report, ReportersInv, Convergecast!Closed
  <2> QED BY <2>1, <2>2 DEF ReportersInv
<1>2. CASE UNCHANGED Convergecast!vars
  BY <1>2 DEF Convergecast!vars, ReportersInv, Convergecast!Closed
<1> QED BY <1>1, <1>2 DEF Convergecast!Next

(* An acknowledgement at the root means that no node has failed, if all    *)
(* nodes are below the root: what GatherPhase and the acknowledged         *)
(* collectives promise their caller.  `Collective` implements this         *)
(* specification (run `failures`), so it holds of the code's reports.      *)
THEOREM RootIsRight == Convergecast!Spec => []Convergecast!RootSpeaksForAll
<1>1. Convergecast!Spec => []ReportersInv
  BY ReportersInit, ReportersStep, PTL DEF Convergecast!Spec
<1>2. ReportersInv => Convergecast!RootSpeaksForAll
  BY DEF ReportersInv, Convergecast!RootSpeaksForAll
<1> QED BY <1>1, <1>2, PTL
=============================================================================
