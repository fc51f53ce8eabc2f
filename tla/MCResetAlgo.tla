---------------------------- MODULE MCResetAlgo ----------------------------
(* Constants for checking ResetAlgo with TLC. *)
EXTENDS ResetAlgo

\* The stores of genmc_reset_algo.c, then the old value once more and another one.
MCWrites == <<2, 8, 5, 3>>
============================================================================
