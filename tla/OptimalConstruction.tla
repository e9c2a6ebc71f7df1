------------------------- MODULE OptimalConstruction -------------------------
(***************************************************************************)
(* The constructor of the optimal topology, one round of its loop after    *)
(* the other (lib/topology/optimal.cpp).                                   *)
(***************************************************************************)
EXTENDS Optimal, Topology

CONSTANT Machines \* LogP parameters and numbers of nodes

ASSUME MachinesAssumption == Machines \subseteq [L : Nat, o : Nat, g : Nat, P : Nat \ {0}]

VARIABLES
  machine, \* the parameters of the constructor
  build,   \* its vector of nodes and running_i
  phase    \* "grow", "done" when the vector is sorted, "outside" beyond its end

vars == <<machine, build, phase>>

Init ==
  /\ machine \in Machines
  /\ build = FirstBuild(machine)
  /\ phase = "grow"

(* The inner loop adds a child of nodes[running_i]. *)
Push ==
  /\ phase = "grow" /\ ~ Full(machine, build) /\ Inside(build) /\ Faster(machine, build)
  /\ build' = Pushed(machine, build)
  /\ UNCHANGED <<machine, phase>>

(* The outer loop changes running_i; after the last node it does not matter. *)
Turn ==
  /\ phase = "grow" /\ ~ Full(machine, build) /\ Inside(build) /\ ~ Faster(machine, build)
  /\ build' = Turned(machine, build)
  /\ UNCHANGED <<machine, phase>>

(* It reads a node that does not exist: nothing is known of the rest. *)
ReadOutside ==
  /\ phase = "grow" /\ ~ Full(machine, build) /\ ~ Inside(build)
  /\ phase' = "outside"
  /\ UNCHANGED <<machine, build>>

Sort ==
  /\ phase = "grow" /\ Full(machine, build)
  /\ build' = [build EXCEPT !.nodes = Sorted(@)]
  /\ phase' = "done"
  /\ UNCHANGED machine

Finished == phase # "grow" /\ UNCHANGED vars

Construct == Push \/ Turn \/ ReadOutside \/ Sort \/ Finished
Spec == Init /\ [][Construct]_vars

(* A constructor is sequential code: it takes its next step. *)
FairSpec == Spec /\ WF_vars(Construct)

-----------------------------------------------------------------------------
Rank == 0 .. machine.P - 1
Tree == OptimalReceivers(machine, build.nodes)
Labels == {<<n, build.nodes[n + 1].label>> : n \in Rank}

(* running_i is changed without a look at the size of the vector, but it   *)
(* leaves it only where a message takes as long as the next send, so that  *)
(* all predictions are the same.                                           *)
OutsideOnlyIfTied == phase = "outside" => Hop(machine) = Step(machine)

(* The labels are the earliest times any broadcast can reach that many     *)
(* nodes: Karp's recurrence for the nodes reached at a time.               *)
Horizon == machine.P * Step(machine) + Hop(machine)
ReachableBy ==
  LET f[t \in 0 .. Horizon] ==
        IF t < Hop(machine) THEN 1
        ELSE f[t - Hop(machine)] + (IF t < Step(machine) THEN 1 ELSE f[t - Step(machine)])
  IN f
LabelsAreLeast ==
  phase = "done" =>
    \A t \in 0 .. Horizon :
      LET early == Cardinality({n \in Rank : build.nodes[n + 1].label <= t})
      IN early = machine.P \/ early = ReachableBy[t]

(* So they are where a message takes a multiple of the time of a send:     *)
(* there the loop, which moves by one node at a time, stays in step.       *)
Even == Hop(machine) > Step(machine) /\ (Step(machine) = 0 \/ Hop(machine) % Step(machine) = 0)
LeastIfEven == Even => LabelsAreLeast

(* The vector is sorted after the parents were taken as indices into it,   *)
(* and still every node but the root has one parent, which precedes it.    *)
SpansAllNodes ==
  phase = "done" =>
    \A r \in Rank \ {0} :
      \E n \in Rank : /\ n < r
                      /\ {m \in Rank : \E i \in DOMAIN Tree[m] : Tree[m][i] = r} = {n}

(* Where a message takes longer than the next send the sort is harmless. *)
SpansIfSlow == Hop(machine) > Step(machine) => SpansAllNodes

(* The exclusive phase waits for Topology::deadline(), which looks at the  *)
(* edges only: there the times it predicts are the labels, node by node.  The    *)
(* tree is the one the other modules take from OptimalTree.                *)
DeadlineKnowsLabels ==
  phase = "done" /\ Even /\ machine.o >= machine.g =>
    Completions(OptimalTree(machine), machine.L, Step(machine)) = Labels

(* The loop ends, although it goes back and forth in the vector. *)
ConstructionEnds == <>(phase # "grow")
=============================================================================
