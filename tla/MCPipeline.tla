----------------------------- MODULE MCPipeline -----------------------------
(* Threads and runs are interchangeable.                                   *)
EXTENDS Pipeline

ThreadAndRunSymmetry == Permutations(Threads) \cup Permutations(Runs)
=============================================================================
