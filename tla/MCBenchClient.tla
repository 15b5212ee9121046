--------------------------- MODULE MCBenchClient ---------------------------
(* Two objects, a trace of four and two threads: after the warm-up three   *)
(* operations are left for two threads, so that an object can be asked for *)
(* again after both have fetched it.                                       *)
EXTENDS BenchClient
=============================================================================
