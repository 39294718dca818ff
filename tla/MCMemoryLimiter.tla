--------------------------- MODULE MCMemoryLimiter ---------------------------
(* The instance of MemoryLimiter for TLC; liveness allows no symmetry.      *)
EXTENDS MemoryLimiter
=============================================================================
