----------------------------- MODULE MCTaskQueue -----------------------------
(* Small command lines for the open engine. *)
EXTENDS TaskQueue

Config(L, o, g, parallelism, tagFirst, limit, failed) ==
  [P |-> 2, L |-> L, o |-> o, g |-> g, parallelism |-> parallelism,
   tagFirst |-> tagFirst, limit |-> limit, failed |-> failed]

(* o below, above and without g, one and two threads, a failed node, a     *)
(* limit that cuts runs short, and operations that cost nothing at all.    *)
MCConfigurations ==
  {Config(1, 1, 2, 1, FALSE, 100, {}), Config(0, 2, 1, 2, TRUE, 5, {}),
   Config(1, 0, 1, 1, FALSE, 100, {1}), Config(1, 0, 0, 1, FALSE, 100, {})}
=============================================================================
