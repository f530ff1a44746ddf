--------------------------- MODULE MCParallelEngine ---------------------------
(* ParallelEngine for TLC; the configurations give the bounds. *)
EXTENDS ParallelEngine
=============================================================================
