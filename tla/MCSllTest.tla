------------------------------ MODULE MCSllTest ------------------------------
(* For checking SllTest with TLC: three producers and two consumers, as many as *)
(* genmc_sll_test.c starts (PRODUCER_THREADS, CONSUMER_THREADS).                *)
EXTENDS SllTest
==============================================================================
