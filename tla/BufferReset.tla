----------------------------- MODULE BufferReset -----------------------------
(***************************************************************************)
(* src/src/genmc_buffer_reset_test.c: the test of evio's stream buffer     *)
(* with one memory block.  The producer writes two bursts of bytes; if the *)
(* consumer read the first one in time the buffer is empty and is reset in *)
(* between, so that the second burst overwrites the first.  Bytes are      *)
(* numbered in the order in which they are written.                        *)
(*                                                                         *)
(* In the test the bursts and the calls of my_xsgetn_a are of two bytes    *)
(* and of one.  There are two bursts, as in the test, because the          *)
(* functions below are only known for a single reset.                      *)
(*                                                                         *)
(* update_put_area, update_get_area, sync_egptr, store_last_gptr and       *)
(* get_data_size are extracted from evio, that is not in this repository.  *)
(* They are modelled by what the asserts of the test rely on, where a      *)
(* reset is done as in genmc_reset_algo.c.  A load returns any store at or *)
(* after the last one that the thread knows of.  That update_get_area sees *)
(* the reset exactly if its pptr stems from after it is                    *)
(* ResetSeenIffLoaded, that ResetAlgoProofs proves, so it is one step      *)
(* here.                                                                   *)
(***************************************************************************)
EXTENDS Integers, Sequences

CONSTANTS
  BlockSize,  \* sizeof(buffer)
  Bursts,     \* bytes that the producer writes before each flush
  ReadSizes   \* the n of each call of my_xsgetn_a

ASSUME BufferResetAssumption ==
  /\ BlockSize \in Nat
  /\ Bursts \in Seq(Nat \ {0}) /\ Len(Bursts) = 2 /\ Bursts[1] + Bursts[2] <= BlockSize
  /\ ReadSizes \in Seq(Nat \ {0}) /\ ReadSizes # <<>>

NoByte == 0             \* what the buffer contains initially
Total  == Bursts[1] + Bursts[2]

VARIABLES
  \* The producer.
  ppc,             \* "update_put_area", "set_resetting", "write", "sync" or "done"
  burst,           \* the burst it is at
  put,             \* the bytes of it that are stored in the buffer
  pptr_val,
  m_total_reset,
  viewGptr,        \* index in m_last_gptr of the store it knows
  \* The consumer.
  cpc,             \* "update_get_area", "copy", "store_last_gptr", "total_read" or "done"
  call,            \* the call of my_xsgetn_a it is at
  loop,
  remaining,
  gptr_val, egptr_val,
  viewPptr,        \* index in m_last_pptr of the store it knows
  getReset,        \* update_get_area reset the get area
  read_buffer,
  \* Shared memory.
  m_resetting,
  m_last_pptr,     \* the stores [val, reset]: reset from the one of update_put_area on
  m_last_gptr,     \* the values stored
  m_total_read,
  buffer

producerVars == <<ppc, burst, put, pptr_val, m_total_reset, viewGptr, m_last_pptr, buffer>>
consumerVars == <<cpc, call, loop, remaining, gptr_val, egptr_val, viewPptr, getReset,
                  read_buffer, m_last_gptr, m_total_read>>
vars == <<producerVars, consumerVars, m_resetting>>

rlen == Len(read_buffer)

\* The get area stays inside the block and nobody knows of a store that did not happen.
TypeOK ==
  /\ ppc \in {"update_put_area", "set_resetting", "write", "sync", "done"}
  /\ cpc \in {"update_get_area", "copy", "store_last_gptr", "total_read", "done"}
  /\ burst \in 1 .. Len(Bursts) + 1 /\ call \in 1 .. Len(ReadSizes) + 1 /\ loop \in 0 .. 1
  /\ put \in 0 .. BlockSize /\ remaining \in Nat
  /\ pptr_val \in 0 .. BlockSize
  /\ egptr_val \in 0 .. BlockSize /\ gptr_val \in 0 .. egptr_val
  /\ viewGptr \in 1 .. Len(m_last_gptr) /\ viewPptr \in 1 .. Len(m_last_pptr)
  /\ m_resetting \in BOOLEAN /\ getReset \in BOOLEAN

Init ==
  /\ ppc = "update_put_area" /\ burst = 1 /\ put = 0 /\ pptr_val = 0
  /\ m_total_reset = 0 /\ viewGptr = 1
  /\ cpc = "update_get_area" /\ call = 1 /\ loop = 0 /\ remaining = 0
  /\ gptr_val = 0 /\ egptr_val = 0 /\ viewPptr = 1 /\ getReset = FALSE
  /\ read_buffer = <<>>
  /\ m_resetting = FALSE /\ m_total_read = 0
  /\ m_last_pptr = <<[val |-> 0, reset |-> FALSE]>> /\ m_last_gptr = <<0>>
  /\ buffer = [i \in 0 .. BlockSize - 1 |-> NoByte]

-----------------------------------------------------------------------------
(* The producer.                                                           *)

\* Mutant: the bytes in the block do not have to be read.
Empties_always(last_gptr) == pptr_val # 0

\* update_put_area: is the block empty, and is there something to reset?
Empties(last_gptr) == last_gptr = pptr_val /\ pptr_val # 0

\* update_put_area; if everything was read then the put area starts again at
\* block_start, that is stored in m_last_pptr (relaxed).
Update_put_area ==
  /\ ppc = "update_put_area"
  /\ \E k \in viewGptr .. Len(m_last_gptr) :
        /\ viewGptr' = k
        /\ \/ /\ Empties(m_last_gptr[k])
              /\ m_total_reset' = m_total_reset + pptr_val
              /\ pptr_val' = 0
              /\ m_last_pptr' = Append(m_last_pptr, [val |-> 0, reset |-> TRUE])
              /\ ppc' = "set_resetting"
           \/ /\ ~Empties(m_last_gptr[k])
              /\ ppc' = "write"
              /\ UNCHANGED <<m_total_reset, pptr_val, m_last_pptr>>
  /\ UNCHANGED <<burst, put, buffer, consumerVars, m_resetting>>

\* update_put_area: m_resetting = true (release).  A consumer that already saw the
\* reset stored false without knowing of this store, which of them is last is open.
Set_resetting ==
  /\ ppc = "set_resetting"
  /\ m_resetting' \in (IF getReset THEN BOOLEAN ELSE {TRUE})
  /\ ppc' = "write"
  /\ UNCHANGED <<burst, put, pptr_val, m_total_reset, viewGptr, m_last_pptr, buffer,
                 consumerVars>>

\* Mutant: flushes after the first byte.
BurstComplete_early == put + 1 >= 1

BurstComplete == put + 1 = Bursts[burst]

\* A byte is stored; pbump after the last one of the burst.
Write ==
  /\ ppc = "write"
  /\ buffer' = [buffer EXCEPT ![pptr_val + put] = m_total_reset + pptr_val + put + 1]
  /\ \/ /\ BurstComplete
        /\ pptr_val' = pptr_val + put + 1
        /\ put' = 0
        /\ ppc' = "sync"
     \/ /\ ~BurstComplete
        /\ put' = put + 1
        /\ UNCHANGED <<pptr_val, ppc>>
  /\ UNCHANGED <<burst, m_total_reset, viewGptr, m_last_pptr, consumerVars, m_resetting>>

Sync_egptr ==
  /\ ppc = "sync"
  /\ m_last_pptr' = Append(m_last_pptr, [val |-> pptr_val, reset |-> m_total_reset # 0])
  /\ burst' = burst + 1
  /\ ppc' = IF burst = Len(Bursts) THEN "done" ELSE "update_put_area"
  /\ UNCHANGED <<put, pptr_val, m_total_reset, viewGptr, buffer, consumerVars, m_resetting>>

-----------------------------------------------------------------------------
(* The consumer: my_xsgetn_a.                                              *)

\* Returns from this call of my_xsgetn_a.
NextCall ==
  /\ call' = call + 1
  /\ loop' = 0
  /\ cpc' = IF call = Len(ReadSizes) THEN "done" ELSE "update_get_area"

\* update_get_area found cur_pptr and gptr cur_gptr: read what is available, try a
\* second time if that is nothing, or else return 0.
Proceed(cur_gptr, cur_pptr) ==
  /\ gptr_val' = cur_gptr
  /\ egptr_val' = cur_pptr
  /\ \/ /\ cur_pptr # cur_gptr
        /\ remaining' = ReadSizes[call]
        /\ cpc' = "copy"
        /\ UNCHANGED <<call, loop>>
     \/ /\ cur_pptr = cur_gptr /\ loop = 0
        /\ loop' = 1
        /\ UNCHANGED <<call, cpc, remaining>>
     \/ /\ cur_pptr = cur_gptr /\ loop = 1
        /\ NextCall
        /\ UNCHANGED remaining

\* Index of the store of update_put_area, that is relaxed, in m_last_pptr.
IsResetStore(k) == m_last_pptr[k].reset /\ m_last_pptr[k].val = 0

\* No reset, or none that was not handled before.
Update_get_area ==
  /\ cpc = "update_get_area"
  /\ \E k \in viewPptr .. Len(m_last_pptr) :
        /\ \/ ~m_last_pptr[k].reset
           \/ getReset /\ (m_resetting => IsResetStore(k))
        /\ viewPptr' = k
        /\ Proceed(gptr_val, m_last_pptr[k].val)
  /\ UNCHANGED <<getReset, read_buffer, m_last_gptr, m_total_read, m_resetting, producerVars>>

\* Mutant: gptr stays where it is.
GptrAfterReset_kept == gptr_val

GptrAfterReset == 0

\* update_get_area sees the reset by m_resetting, also if it handled it before, or by
\* pptr at block_start: it resets the get area, stores that in m_last_gptr and stores
\* false in m_resetting (relaxed), maybe before the store of the producer.
Update_get_area_reset ==
  /\ cpc = "update_get_area"
  /\ \E k \in viewPptr .. Len(m_last_pptr) :
        /\ m_last_pptr[k].reset /\ (getReset => m_resetting)
        /\ viewPptr' = k
        /\ m_resetting' \in (IF IsResetStore(k) THEN {FALSE, m_resetting} ELSE {FALSE})
        /\ Proceed(GptrAfterReset, m_last_pptr[k].val)
  /\ getReset' = TRUE
  /\ m_last_gptr' = Append(m_last_gptr, GptrAfterReset)
  /\ UNCHANGED <<read_buffer, m_total_read, producerVars>>

\* Bytes that the call at hand copied.
Copied == ReadSizes[call] - remaining

\* Mutant: every byte is copied from the begin of the get area.
From_begin == gptr_val

From == gptr_val + Copied

\* s[n - remaining] = gptr_val[n - remaining], until n bytes or all that is available;
\* gbump after the last one.
Copy ==
  /\ cpc = "copy"
  /\ read_buffer' = Append(read_buffer, buffer[From])
  /\ \/ /\ remaining = 1 \/ gptr_val + Copied + 1 = egptr_val
        /\ gptr_val' = gptr_val + Copied + 1
        /\ cpc' = "store_last_gptr"
     \/ /\ remaining # 1 /\ gptr_val + Copied + 1 # egptr_val
        /\ UNCHANGED <<gptr_val, cpc>>
  /\ remaining' = remaining - 1
  /\ UNCHANGED <<call, loop, egptr_val, viewPptr, getReset, m_last_gptr, m_total_read,
                 m_resetting, producerVars>>

\* Mutant: gptr is not passed on.
Passed_stale == m_last_gptr

Passed == Append(m_last_gptr, gptr_val)

Store_last_gptr ==
  /\ cpc = "store_last_gptr"
  /\ m_last_gptr' = Passed
  /\ cpc' = "total_read"
  /\ UNCHANGED <<call, loop, remaining, gptr_val, egptr_val, viewPptr, getReset,
                 read_buffer, m_total_read, m_resetting, producerVars>>

\* increment_total_read, and the return.
Increment_total_read ==
  /\ cpc = "total_read"
  /\ m_total_read' = m_total_read + Copied
  /\ NextCall
  /\ UNCHANGED <<remaining, gptr_val, egptr_val, viewPptr, getReset, read_buffer,
                 m_last_gptr, m_resetting, producerVars>>

\* main() joined both threads.
Joined == ppc = "done" /\ cpc = "done"
Main_joined == Joined /\ UNCHANGED vars

-----------------------------------------------------------------------------
Producer == Update_put_area \/ Set_resetting \/ Write \/ Sync_egptr

Consumer ==
  \/ Update_get_area \/ Update_get_area_reset \/ Copy \/ Store_last_gptr
  \/ Increment_total_read

Next == Producer \/ Consumer \/ Main_joined

Spec == Init /\ [][Next]_vars

-----------------------------------------------------------------------------
(* Properties.                                                             *)

\* The asserts of lines 288-290, 298-299 and 307, at any time: the bytes are read in
\* the order in which they were written, none is skipped or read twice, and none is
\* read before it was written or after it was overwritten.
BytesReadInOrder == \A i \in 1 .. rlen : read_buffer[i] = i

\* The asserts of lines 244-245: the first call, that asks for as many bytes as the first
\* burst has, reads all of them or none, and a reset that the producer did in the meantime
\* does not move gptr.
FirstCallAllOrNothing ==
  call = 2 /\ cpc = "update_get_area" /\ loop = 0 => rlen \in {0, Bursts[1]} /\ gptr_val = rlen

\* Lines 147-151: the buffer is only reset if everything in it was read, and a byte
\* that was not read stays in the buffer where gptr, or after the reset block_start,
\* will find it.
NothingUnreadIsOverwritten ==
  /\ m_total_reset <= rlen
  /\ \A i \in rlen + 1 .. m_total_reset + pptr_val :
        buffer[i - (IF i > m_total_reset THEN m_total_reset ELSE 0) - 1] = i

\* get_data_size.
get_data_size == BlockSize - (BlockSize - pptr_val) - (m_total_read - m_total_reset)

\* The asserts of lines 253 and 269-314: after the join what both threads stored last is
\* where they are; what is left in the buffer is what was not read, where gptr only tells
\* so unless a reset is pending; and the producer reset the buffer only after the first burst
\* was read, and without that m_resetting is not set.
FinalStatesAgree ==
  Joined => /\ m_last_pptr[Len(m_last_pptr)].val = pptr_val
            /\ m_last_gptr[Len(m_last_gptr)] = gptr_val
            /\ pptr_val - gptr_val = Total - rlen \/ m_resetting
            /\ get_data_size = Total - rlen
            /\ m_total_reset = 0 \/ (m_total_reset = Bursts[1] /\ rlen >= Bursts[1])
            /\ m_total_reset = 0 => ~m_resetting
            /\ rlen = Total => gptr_val = Total - m_total_reset
==============================================================================
