---------------------------- MODULE MCEventQueue ------------------------------
(* Timelines of one to three threads; of events that take no time, too. *)
EXTENDS EventQueue

AllShapes == [width : 1 .. 3, length : 0 .. 3]
=============================================================================
