------------------------------- MODULE MCTests -------------------------------
(* The unit tests of test/testfloglib as configurations: what they set up, *)
(* and the runtime and the unreached nodes they expect.                    *)
EXTENDS MCCollective, TLC

Test(phases, P, k, logp, failed, runtime, unreached) ==
  Run(phases, "KAryInterleaved", P, k, logp, 1, FALSE, runtime + 10, failed, 0)
    @@ [runtime |-> runtime, unreached |-> unreached]

(* simple_tree_test.cpp, checked_test.cpp and phased_test.cpp. *)
SimpleTest(P, k, failed, runtime, unreached) ==
  Test(<<TreePhase(FALSE, FALSE)>>, P, k, LogP(1, 1, 1), failed, runtime, unreached)

CheckedTest(P, failed, runtime, unreached) ==
  Test(<<TreePhase(FALSE, FALSE), Checked(FALSE, FALSE)>>, P, 2, LogP(1, 1, 1), failed, runtime, unreached)

PhasedTest(L, o, g, P, k, failed, runtime, unreached) ==
  Test(<<TreePhase(FALSE, TRUE), Checked(TRUE, FALSE)>>, P, k, LogP(L, o, g), failed, runtime, unreached)

(* optimal_test.cpp, on two threads. *)
OptimalTest(L, o, g, P, failed, runtime, unreached) ==
  LET test == Test(<<TreePhase(FALSE, FALSE), Checked(FALSE, FALSE)>>, P, 2, LogP(L, o, g), failed,
                   runtime, unreached)
  IN [test EXCEPT !.receivers = TreeOf("Optimal", P, 2, LogP(L, o, g)), !.parallelism = 2]

MCUnitTests ==
  {SimpleTest(4, 3, {}, 5, 0), SimpleTest(13, 3, {}, 10, 0), SimpleTest(5, 4, {}, 6, 0),
   SimpleTest(4, 3, {0}, 0, 3), SimpleTest(4, 3, {1}, 5, 0)}
  \cup
  {CheckedTest(3, {}, 9, 0), CheckedTest(7, {}, 14, 0), CheckedTest(15, {}, 20, 0),
   CheckedTest(3, {0}, 0, 2), CheckedTest(7, {0}, 0, 6), CheckedTest(15, {0}, 0, 14),
   CheckedTest(3, {1}, 9, 0), CheckedTest(7, {1}, 15, 0), CheckedTest(15, {1}, 20, 0)}
  \cup
  {PhasedTest(1, 1, 1, 3, 2, {}, 8, 0), PhasedTest(1, 1, 1, 4, 2, {}, 10, 0),
   PhasedTest(1, 1, 1, 5, 2, {}, 11, 0), PhasedTest(1, 1, 1, 7, 2, {}, 12, 0),
   PhasedTest(1, 1, 1, 8, 2, {}, 13, 0), PhasedTest(1, 1, 1, 13, 2, {}, 15, 0),
   PhasedTest(1, 1, 1, 15, 2, {}, 16, 0), PhasedTest(1, 1, 1, 16, 2, {}, 16, 0),
   PhasedTest(2, 1, 1, 3, 2, {}, 11, 0), PhasedTest(2, 1, 1, 4, 2, {}, 14, 0),
   PhasedTest(2, 1, 1, 5, 2, {}, 15, 0), PhasedTest(2, 1, 1, 7, 2, {}, 16, 0),
   PhasedTest(2, 1, 1, 8, 2, {}, 18, 0), PhasedTest(2, 1, 1, 16, 2, {}, 22, 0),
   PhasedTest(1, 2, 1, 3, 2, {}, 15, 0), PhasedTest(1, 2, 1, 4, 2, {}, 18, 0),
   PhasedTest(1, 2, 1, 5, 2, {}, 20, 0), PhasedTest(1, 2, 1, 7, 2, {}, 22, 0),
   PhasedTest(1, 2, 1, 8, 2, {}, 23, 0), PhasedTest(1, 2, 1, 13, 2, {}, 27, 0),
   PhasedTest(3, 2, 1, 4, 2, {}, 26, 0), PhasedTest(3, 2, 1, 5, 2, {}, 28, 0),
   PhasedTest(3, 2, 1, 7, 2, {}, 30, 0), PhasedTest(3, 2, 1, 8, 2, {}, 33, 0),
   PhasedTest(1, 1, 1, 21, 2, {}, 18, 0), PhasedTest(2, 1, 1, 13, 2, {}, 20, 0),
   PhasedTest(2, 1, 1, 15, 2, {}, 21, 0), PhasedTest(2, 1, 1, 21, 2, {}, 24, 0),
   PhasedTest(1, 2, 1, 15, 2, {}, 29, 0), PhasedTest(1, 2, 1, 16, 2, {}, 29, 0),
   PhasedTest(1, 2, 1, 21, 2, {}, 32, 0), PhasedTest(3, 2, 1, 13, 2, {}, 37, 0),
   PhasedTest(3, 2, 1, 15, 2, {}, 39, 0), PhasedTest(3, 2, 1, 16, 2, {}, 40, 0),
   PhasedTest(3, 2, 1, 21, 2, {}, 44, 0), PhasedTest(2, 1, 1, 21, 3, {}, 21, 0),
   PhasedTest(2, 1, 1, 3, 3, {}, 11, 0), PhasedTest(2, 1, 1, 4, 3, {}, 12, 0),
   PhasedTest(2, 1, 1, 5, 3, {}, 14, 0), PhasedTest(1, 3, 2, 5, 3, {}, 26, 0),
   PhasedTest(1, 1, 1, 7, 2, {4}, 16, 0), PhasedTest(2, 1, 1, 15, 2, {5, 12}, 26, 0),
   OptimalTest(1, 1, 1, 15, {1, 3}, 16, 0),
   [PhasedTest(2, 1, 1, 15, 2, {0, 1}, 0, 13) EXCEPT !.limit = 99]}

(* The run checked. *)
CheckedAndTests == CheckedRuns \cup GossipRuns \cup MCUnitTests

(* The expectations of PhaseTest::do_test: get_total_time() and the three  *)
(* numbers of node_stat(), whatever phases, tree and queue did on the way. *)
MatchesTests ==
  "runtime" \in DOMAIN conf /\ status # "running" =>
    /\ totalTime = conf.runtime
    /\ failures = conf.failed
    /\ Cardinality(finished) = conf.P - Cardinality(conf.failed) - conf.unreached
    /\ Cardinality(Node \ (failures \cup finished)) = conf.unreached
=============================================================================
