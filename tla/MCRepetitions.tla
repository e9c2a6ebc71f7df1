----------------------------- MODULE MCRepetitions ----------------------------
(* Repeated experiments on small machines. *)
EXTENDS Repetitions, MCCollective

With(run, faults, F, robust, repeat, seeded) ==
  [field \in DOMAIN run \cup {"faults", "F", "robust", "repeat", "seeded"} |->
     CASE field = "faults" -> faults [] field = "F" -> F [] field = "robust" -> robust
       [] field = "repeat" -> repeat [] field = "seeded" -> seeded
       [] OTHER -> run[field]]

Experiment(style, P, logp, limit, failed, d) ==
  Run(Phases(style), "BinomialInterleaved", P, 2, logp, 1, FALSE, limit, failed, d)

(* The gossip time is as short as it can be. *)
Rumour(style, logp) ==
  Run(Phases(style), "BinomialInterleaved", 3, 0, logp, 1, FALSE, 500, {}, 1)

(* With uniform faults, one command line for every choice of the first     *)
(* repetition.                                                             *)
Uniform(run, F, robust, repeat, seeded) ==
  LET line == With(run, "uniform", F, robust, repeat, seeded)
  IN IF Refused(line) THEN {line} ELSE {[line EXCEPT !.failed = f] : f \in FailedSets(line)}

(* Every kind of phase, the root failing too, gossip with and without a    *)
(* seed, a time limit that is hit by some repetitions, faults that are     *)
(* listed, a phase that throws, two assertions that fail and a fault       *)
(* injector that refuses.                                                  *)
Experiments ==
  UNION {Uniform(Experiment(style, 4, m, 500, {}, 2), F, {1}, 2, seeded) :
           style \in {"bcast", "ack", "reduction", "multitree", "optimised_corrected", "phased_checked", "checked"},
           m \in {LogP(1, 1, 2), LogP(1, 2, 1)}, F \in {1, 2}, seeded \in BOOLEAN}
  \cup UNION {Uniform(Rumour(style, m), F, {0}, 2, seeded) :
                style \in {"gossip", "checked_gossip"}, m \in {LogP(0, 2, 1), LogP(1, 1, 2)},
                F \in 0 .. 1, seeded \in BOOLEAN}
  \cup Uniform(Experiment("checked", 4, LogP(1, 1, 2), 12, {}, 2), 1, {0}, 3, FALSE)
  \cup {With(Experiment("corrected", 4, LogP(1, 1, 2), 500, {2}, 2), "list", 0, {0}, 3, FALSE),
        With(Experiment("multitree", 4, LogP(1, 1, 2), 500, {}, 3), "none", 0, {0}, 2, FALSE),
        With(Run(Phases("multitree"), "KAryInterleaved", 5, 2, LogP(1, 1, 2), 1, FALSE, 500, {}, 2),
             "none", 0, {0}, 2, FALSE),
        With(Experiment("opportunistic", 2, LogP(1, 0, 0), 500, {}, 1), "none", 0, {0}, 2, FALSE)}
  \cup Uniform(Experiment("bcast", 4, LogP(1, 1, 2), 500, {}, 2), 2, {0, 1}, 2, FALSE)

=============================================================================
