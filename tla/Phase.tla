-------------------------------- MODULE Phase --------------------------------
(***************************************************************************)
(* What all phases of a collective share (include/phase.hpp): the results  *)
(* of a dispatch, the state a phase keeps for one node, and the tasks a    *)
(* phase asks the queue for.                                               *)
(*                                                                         *)
(* A dispatch is an operator: from the configuration c, the notified node  *)
(* n, the state s of that node, the task t and the time at, it returns an  *)
(* outcome: the result, the requests in the order they are made, and the   *)
(* state of the node afterwards.  A phase touches no other node's state.   *)
(***************************************************************************)
EXTENDS Integers, Sequences

Result == {"ONGOING", "DONE_PHASE", "DONE_FORWARD", "DONE_COLL"}

Outcome(res, reqs, s) == [res |-> res, reqs |-> reqs, s |-> s]

(* The default dispatch of every task but InitTask. *)
Ongoing(s) == Outcome("ONGOING", <<>>, s)

SendRequest(tag, at, n, m) ==
  [type |-> "SendStart", tag |-> tag, time |-> at, sender |-> n, receiver |-> m]
TimerRequest(tag, at, n) ==
  [type |-> "Timer", tag |-> tag, time |-> at, sender |-> n, receiver |-> n]
InitRequest(at, n) ==
  [type |-> "Init", tag |-> "INIT", time |-> at, sender |-> n, receiver |-> n]
(* IdleTask::make_new(node): the time is that of the delivery, not 0. *)
IdleRequest(n) ==
  [type |-> "Idle", tag |-> "INTERNAL", time |-> 0, sender |-> n, receiver |-> n]

-----------------------------------------------------------------------------
(* The state the phases keep for one node. *)

IntMax == 2147483647 \* std::numeric_limits<int>::max()

(* CheckedCorrection::Ring: messages sent this way, nearest sender to us. *)
Ring == [offset |-> 0, minRecv |-> IntMax]

(***************************************************************************)
(* reached: ReachedNodes; cur: Combiner::cur_phase, from 1; left, right    *)
(* and nowLeft: CheckedCorrection; sentLeft and sentRight:                 *)
(* OpportunisticCorrection::sent_dist; toReceive: Gather::to_receive.       *)
(***************************************************************************)
InitialState(reached, children) ==
  [reached |-> reached, cur |-> 1, left |-> Ring, right |-> Ring,
   nowLeft |-> FALSE, sentLeft |-> 0, sentRight |-> 0, toReceive |-> children]
=============================================================================
