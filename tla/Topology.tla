------------------------------ MODULE Topology -------------------------------
(***************************************************************************)
(* The trees of flogsim (lib/topology): who sends to whom, in which order, *)
(* and the time the slowest leaf is reached.  Every tree is an operator    *)
(* that returns the children of a node as a sequence, for P nodes.         *)
(***************************************************************************)
EXTENDS Integers, Sequences, FiniteSets
LOCAL INSTANCE SequencesExt
LOCAL INSTANCE FiniteSetsExt

(* The prefix of a sequence of receivers that exist: a loop that skips the *)
(* others returns the same, as all of them are increasing.                 *)
Existing(P, receivers) == SelectSeq(receivers, LAMBDA m : m < P)

-----------------------------------------------------------------------------
(* Binomial, interleaved: get_lvl is the number of bits of the sender. *)
BitLevel(P) ==
  LET lvl[n \in 0 .. P] == IF n = 0 THEN 0 ELSE 1 + lvl[n \div 2] IN lvl

BinomialInterleaved(P, n) ==
  LET first == BitLevel(P)[n]
  IN Existing(P, [i \in 1 .. BitLevel(P)[P] - first + 1 |-> n + 2 ^ (first + i - 1)])

(* Binomial, in order: set any bit below the lowest bit of the sender that *)
(* is set, the highest first.                                              *)
BinomialInorder(P, n) ==
  LET free == {i \in 0 .. P : 2 ^ i < P /\ \A j \in 0 .. i : (n \div 2 ^ j) % 2 = 0}
  IN Reverse(Existing(P, [i \in 1 .. Cardinality(free) |-> n + 2 ^ (i - 1)]))

-----------------------------------------------------------------------------
(* Mutant of KAryLevel: a level is divided by one too many. *)
KAryLevelWide(n, k) ==
  LET lvl[m \in 0 .. n] == IF m = 0 THEN 0 ELSE 1 + lvl[m \div (k + 1)] IN lvl[n]

(* k-ary: get_lvl, the level of a node counted level by level. *)
KAryLevel(n, k) ==
  LET lvl[m \in 0 .. n] == IF m = 0 THEN 0 ELSE 1 + lvl[(m - 1) \div k] IN lvl[n]

(* Mutant of KAryInterleaved: the children next to each other. *)
KAryInorder(P, k, n) == Existing(P, [i \in 1 .. k |-> k * n + i])

(* In order is asserted out by the constructor. *)
KAryInterleaved(P, k, n) == Existing(P, [i \in 1 .. k |-> n + i * k ^ KAryLevel(n, k)])

-----------------------------------------------------------------------------
(* Lame: ready_to_send(t), the nodes ready to send at time t, is entry    *)
(* t + 1; a node that sends makes another one ready k later.               *)
ReadyToSend(P, k) ==
  FoldLeft(LAMBDA rts, t : Append(rts, IF t < k THEN 1 ELSE rts[t] + rts[t - k + 1]),
           <<>>, [i \in 1 .. P + k |-> i - 1])

LameStart(P, k, n) ==
  IF n = 0 THEN 0
  ELSE LET rts == ReadyToSend(P, k) IN Min({t \in 0 .. P + k - 1 : rts[t + 1] > n})

(* Mutant of LameTree: everybody starts one step late. *)
LameTreeLate(P, k, n) ==
  LET rts == ReadyToSend(P, k)
      lvl == LameStart(P, k, n)
  IN Existing(P, [i \in 1 .. P - lvl - 1 |-> n + rts[lvl + i + k]])

LameTree(P, k, n) ==
  LET rts == ReadyToSend(P, k)
      lvl == LameStart(P, k, n)
  IN Existing(P, [i \in 1 .. P - lvl |-> n + rts[lvl + i + k - 1]])

-----------------------------------------------------------------------------
(* The shapes the constructors build; k is ignored by the binomial ones. *)
Shapes == {"BinomialInterleaved", "BinomialInorder", "KAryInterleaved", "Lame"}

Children(shape, P, k, n) ==
  CASE shape = "BinomialInterleaved" -> BinomialInterleaved(P, n)
    [] shape = "BinomialInorder"     -> BinomialInorder(P, n)
    [] shape = "KAryInterleaved"     -> KAryInterleaved(P, k, n)
    [] shape = "Lame"                -> LameTree(P, k, n)

Receivers(shape, P, k) == [n \in 0 .. P - 1 |-> Children(shape, P, k, n)]

(***************************************************************************)
(* Topology::deadline: the breadth-first wave of completions.  A parent    *)
(* starts one send every max(o, g), and a child is done L + max(o, g)      *)
(* after it; step is max(o, g).                                            *)
(***************************************************************************)
Completions(children, L, step) ==
  LET P == Cardinality(DOMAIN children)
      wave[depth \in 0 .. P] ==
        IF depth = 0 THEN {<<0, 0>>}
        ELSE UNION {{<<children[w[1]][i], w[2] + i * step + L + step>> :
                       i \in DOMAIN children[w[1]]} : w \in wave[depth - 1]}
  IN UNION {wave[depth] : depth \in 0 .. P}

(* Mutant of Deadline: when the last message of the tree is sent. *)
DeadlineOfSends(children, L, step) ==
  Max({w[2] : w \in Completions(children, L, step)}) - step

Deadline(children, L, step) == Max({w[2] : w \in Completions(children, L, step)})
=============================================================================
