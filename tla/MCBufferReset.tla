---------------------------- MODULE MCBufferReset ----------------------------
(* The sizes of genmc_buffer_reset_test.c.                                 *)
EXTENDS BufferReset

MCBursts    == <<2, 1>>
MCReadSizes == <<2, 1>>
==============================================================================
