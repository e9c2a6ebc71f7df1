----------------------------- MODULE Registered ------------------------------
(***************************************************************************)
(* The broadcasts of lib/phase/registered_collectives.cpp: which phases    *)
(* each of them is made of.  A name such as checked_corrected_kary_bcast   *)
(* is a style (checked_corrected) on a tree (kary); a style is the part    *)
(* that decides how the nodes behave.                                      *)
(***************************************************************************)
EXTENDS Sequences

DepInit == [kind |-> "DepInit", exclusive |-> FALSE]

(* forward: after forward_unexpected_message(). *)
TreePhase(forward, exclusive) == [kind |-> "Tree", forward |-> forward, exclusive |-> exclusive]

Checked(overRoot, throttled) ==
  [kind |-> "Checked", overRoot |-> overRoot, throttled |-> throttled, exclusive |-> FALSE]

Opportunistic(overRoot, optimised) ==
  [kind |-> "Opportunistic", overRoot |-> overRoot, optimised |-> optimised, exclusive |-> FALSE]

GossipPhase == [kind |-> "Gossip", exclusive |-> FALSE]
GatherPhase == [kind |-> "Gather", exclusive |-> FALSE]
MultiTreePhase == [kind |-> "MultiTree", exclusive |-> FALSE]
ReductionDepInit == [kind |-> "ReductionDepInit", exclusive |-> FALSE]

(* The phases of a style; the "always" styles pass an early correction     *)
(* message on to the correction, the others leave the collective.          *)
Phases(style) ==
  LET plain  == <<DepInit, TreePhase(FALSE, FALSE)>>
      phased == <<DepInit, TreePhase(FALSE, TRUE)>>
      always == <<DepInit, TreePhase(TRUE, FALSE)>>
  IN CASE style = "bcast"                    -> plain
       [] style = "corrected"                -> Append(plain, Opportunistic(FALSE, FALSE))
       [] style = "optimised_corrected"      -> Append(plain, Opportunistic(FALSE, TRUE))
       [] style = "phased_opportunistic"     -> Append(phased, Opportunistic(FALSE, FALSE))
       [] style = "phased_optimised"         -> Append(phased, Opportunistic(FALSE, TRUE))
       [] style = "opportunistic"            -> Append(always, Opportunistic(FALSE, FALSE))
       [] style = "optimized_opportunistic"  -> Append(always, Opportunistic(TRUE, TRUE))
       [] style = "checked"                  -> Append(plain, Checked(FALSE, FALSE))
       [] style = "throttled_checked"        -> Append(plain, Checked(FALSE, TRUE))
       [] style = "checked_always"           -> Append(always, Checked(FALSE, FALSE))
       [] style = "checked_wraped_always"    -> Append(always, Checked(TRUE, FALSE))
       [] style = "phased_checked"           -> Append(phased, Checked(TRUE, FALSE))
       [] style = "ack"                      -> Append(plain, GatherPhase)
       [] style = "reduction"                -> <<ReductionDepInit, GatherPhase>>
       [] style = "multitree"                -> <<DepInit, MultiTreePhase>>
       [] style = "gossip"                   -> <<DepInit, GossipPhase>>
       [] style = "opportunistic_gossip"     -> <<DepInit, GossipPhase, Opportunistic(TRUE, FALSE)>>
       [] style = "optimised_gossip"         -> <<DepInit, GossipPhase, Opportunistic(TRUE, TRUE)>>
       [] style = "checked_gossip"           -> <<DepInit, GossipPhase, Checked(TRUE, FALSE)>>
       [] style = "checked_gossip_corrected" -> plain \o <<GossipPhase, Checked(FALSE, FALSE)>>

(* Registered twice, the second time with "always" in the name. *)
AlwaysStyles == {"opportunistic", "optimized_opportunistic"}

OpportunisticStyles ==
  {"corrected", "optimised_corrected", "phased_opportunistic", "phased_optimised"} \cup AlwaysStyles

CheckedStyles ==
  {"checked", "throttled_checked", "checked_always", "checked_wraped_always", "phased_checked"}

GossipStyles ==
  {"gossip", "opportunistic_gossip", "optimised_gossip", "checked_gossip", "checked_gossip_corrected"}

GatherStyles == {"ack", "reduction"}

(* The broadcasts along one tree. *)
Styles == {"bcast"} \cup OpportunisticStyles \cup CheckedStyles
=============================================================================
