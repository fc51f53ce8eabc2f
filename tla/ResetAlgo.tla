------------------------------ MODULE ResetAlgo ------------------------------
(***************************************************************************)
(* src/src/genmc_reset_algo.c: the reset of a stream buffer by its         *)
(* producer, seen by a consumer that does not take a lock, under the C11   *)
(* memory model.                                                           *)
(*                                                                         *)
(* Every store leaves a message in its location, at a timestamp that is    *)
(* its place in the modification order.  A load returns any message at or  *)
(* after the thread's view of the location; an acquire load of a release   *)
(* store also takes over the view that the storing thread had.  The        *)
(* producer loads nothing that the consumer stores, so these views are all *)
(* the relaxed behaviour the program has.                                  *)
(*                                                                         *)
(* m_last_pptr: only the producer stores; timestamp 0 is the initial value *)
(* and n the n-th store.  m_resetting: the initial 0 has timestamp 0, the  *)
(* producer's 1 has timestamp 2 and the consumer's 0 gets 1 or 3.          *)
(***************************************************************************)
EXTENDS Integers, Sequences

CONSTANTS
  Old,      \* bytes in the buffer, all of them read, when the reset begins (5)
  Writes    \* what the producer stores in m_last_pptr after the reset (2, 8)

ASSUME ResetAssumption == Old \in Nat \ {0} /\ Writes \in Seq(Nat)

Null      == 0
ResetTs   == 1                   \* timestamp of the store of 0 in m_last_pptr
LastTs    == Len(Writes) + 1     \* timestamp of its last store
SetTs     == 2                   \* timestamp of the store of 1 in m_resetting

VARIABLES
  ppc,                 \* producer: "reset", "set", "write", "total" or "done"
  stored,              \* timestamp of the producer's latest store in m_last_pptr
  cpc,                 \* consumer: the line it executes next, or "done"
  viewPptr,            \* the consumer's view of m_last_pptr
  viewRes,             \* the consumer's view of m_resetting
  is_resetting,
  curTs,               \* timestamp of the message that cur_pptr was loaded from
  storeTs,             \* timestamp of the consumer's store in m_resetting, or Null
  gptr, total_written, total_read

vars == <<ppc, stored, cpc, viewPptr, viewRes, is_resetting, curTs, storeTs,
          gptr, total_written, total_read>>
consumerVars == <<cpc, viewPptr, viewRes, is_resetting, curTs, storeTs, gptr, total_read>>
producerVars == <<ppc, stored, total_written>>

ProducerPC == {"reset", "set", "write", "total", "done"}
ConsumerPC == {"load_resetting", "load_pptr", "recheck", "reload", "decided", "store",
               "finish", "done"}

\* The value of a message of m_last_pptr.
Pptr(ts) == CASE ts = 0 -> Old [] ts = ResetTs -> 0 [] OTHER -> Writes[ts - 1]

cur_pptr == Pptr(curTs)

\* Every thread is at one of its statements, a view never runs ahead of the stores,
\* and the producer stores no more than it has to write.
TypeOK ==
  /\ ppc \in ProducerPC /\ cpc \in ConsumerPC
  /\ stored \in 0 .. LastTs
  /\ viewPptr \in 0 .. stored /\ viewRes \in {0, SetTs}
  /\ curTs \in 0 .. stored
  /\ is_resetting \in BOOLEAN
  /\ storeTs \in {Null, 1, 3}
  /\ gptr \in Nat /\ total_written \in Nat /\ total_read \in Nat

Init ==
  /\ ppc = "reset" /\ stored = 0
  /\ cpc = "load_resetting" /\ viewPptr = 0 /\ viewRes = 0
  /\ is_resetting = FALSE /\ curTs = 0 /\ storeTs = Null
  /\ gptr = Old /\ total_written = 0 /\ total_read = 0

-----------------------------------------------------------------------------
(* The producer.                                                           *)

Producer_reset_pptr ==
  /\ ppc = "reset"
  /\ stored' = ResetTs
  /\ ppc' = "set"
  /\ UNCHANGED <<total_written, consumerVars>>

Producer_set_resetting ==
  /\ ppc = "set"
  /\ ppc' = "write"
  /\ UNCHANGED <<stored, total_written, consumerVars>>

\* Mutant: one store too many.
MoreToWriteOffByOne == stored <= LastTs

MoreToWrite == stored < LastTs

Producer_write ==
  /\ ppc = "write" /\ MoreToWrite
  /\ stored' = stored + 1
  /\ UNCHANGED <<ppc, total_written, consumerVars>>

Producer_last_write ==
  /\ ppc = "write" /\ stored = LastTs
  /\ ppc' = "total"
  /\ UNCHANGED <<stored, total_written, consumerVars>>

Producer_total_written ==
  /\ ppc = "total"
  /\ total_written' = Pptr(stored)
  /\ ppc' = "done"
  /\ UNCHANGED <<stored, consumerVars>>

-----------------------------------------------------------------------------
(* The consumer.                                                           *)

\* The messages of m_resetting that the consumer can load before its own store.
ResettingMessages ==
  {ts \in {0, SetTs} : ts >= viewRes /\ (ts = SetTs => ppc \notin {"reset", "set"})}

\* Mutant: the loads of m_resetting are relaxed.
AcquiredByResettingRelaxed(ts) == viewPptr

\* The store of 1 is a release: its message carries the store of 0 in m_last_pptr.
AcquiredByResetting(ts) ==
  IF ts = SetTs /\ viewPptr < ResetTs THEN ResetTs ELSE viewPptr

\* Mutant: the stores in m_last_pptr are relaxed.
AcquiredByPptrRelaxed(ts) == viewRes

\* The stores after the reset are a release: they carry the store in m_resetting.
\* The store of 0 itself is relaxed.
AcquiredByPptr(ts) == IF ts > ResetTs THEN SetTs ELSE viewRes

\* m_resetting is loaded for the first time.
Consumer_load_resetting ==
  /\ cpc = "load_resetting"
  /\ \E ts \in ResettingMessages :
        /\ is_resetting' = (ts = SetTs)
        /\ viewRes' = ts
        /\ viewPptr' = AcquiredByResetting(ts)
  /\ cpc' = "load_pptr"
  /\ UNCHANGED <<curTs, storeTs, gptr, total_read, producerVars>>

\* cur_pptr is loaded; 0 tells of a reset, as gptr is not 0.
Consumer_load_pptr ==
  /\ cpc = "load_pptr"
  /\ \E ts \in viewPptr .. stored :
        /\ curTs' = ts /\ viewPptr' = ts
        /\ viewRes' = AcquiredByPptr(ts)
        /\ is_resetting' = (is_resetting \/ (Pptr(ts) = 0 /\ gptr # 0))
  /\ cpc' = "recheck"
  /\ UNCHANGED <<storeTs, gptr, total_read, producerVars>>

\* m_resetting is loaded again, unless the reset is known already.
Consumer_recheck ==
  /\ cpc = "recheck"
  /\ \/ /\ is_resetting
        /\ cpc' = "decided"
        /\ UNCHANGED <<is_resetting, viewRes, viewPptr>>
     \/ /\ ~is_resetting
        /\ \E ts \in ResettingMessages :
              /\ is_resetting' = (ts = SetTs)
              /\ viewRes' = ts
              /\ viewPptr' = AcquiredByResetting(ts)
              /\ cpc' = IF ts = SetTs THEN "reload" ELSE "decided"
  /\ UNCHANGED <<curTs, storeTs, gptr, total_read, producerVars>>

Consumer_reload_pptr ==
  /\ cpc = "reload"
  /\ \E ts \in viewPptr .. stored : curTs' = ts /\ viewPptr' = ts
  /\ cpc' = "decided"
  /\ UNCHANGED <<viewRes, is_resetting, storeTs, gptr, total_read, producerVars>>

\* Nothing to read, or everything up till cur_pptr.
Consumer_decided ==
  /\ cpc = "decided"
  /\ cpc' = IF is_resetting THEN "store" ELSE "finish"
  /\ total_read' = total_read + (IF is_resetting THEN cur_pptr ELSE 0)
  /\ UNCHANGED <<viewPptr, viewRes, is_resetting, curTs, storeTs, gptr, producerVars>>

\* Mutant: m_resetting is not reset.
StorePlacesNone == {Null}

\* The consumer's store can precede a store of the producer that it did not see.
StorePlaces == {ts \in {1, 3} : ts > viewRes}

\* m_resetting = 0 (relaxed); gptr = 0 is overwritten by the next statement.
Consumer_store_resetting ==
  /\ cpc = "store"
  /\ storeTs' \in StorePlaces
  /\ gptr' = 0
  /\ cpc' = "finish"
  /\ UNCHANGED <<viewPptr, viewRes, is_resetting, curTs, total_read, producerVars>>

Consumer_finish ==
  /\ cpc = "finish"
  /\ gptr' = cur_pptr
  /\ cpc' = "done"
  /\ UNCHANGED <<viewPptr, viewRes, is_resetting, curTs, storeTs, total_read, producerVars>>

\* main() joined both threads.
Joined == ppc = "done" /\ cpc = "done"
Main_joined == Joined /\ UNCHANGED vars

-----------------------------------------------------------------------------
Producer ==
  \/ Producer_reset_pptr \/ Producer_set_resetting \/ Producer_write
  \/ Producer_last_write \/ Producer_total_written

Consumer ==
  \/ Consumer_load_resetting \/ Consumer_load_pptr \/ Consumer_recheck
  \/ Consumer_reload_pptr \/ Consumer_decided \/ Consumer_store_resetting
  \/ Consumer_finish

Next == Producer \/ Consumer \/ Main_joined

Spec == Init /\ [][Next]_vars

-----------------------------------------------------------------------------
(* Properties.                                                             *)

Decided == cpc \in {"decided", "store", "finish", "done"}

\* The comment on lines 50-51: either the reset was seen, or cur_pptr is the old
\* value.  More than the asserts of lines 54 and 60, that only compare values: the
\* consumer thinks that there was a reset exactly if cur_pptr was loaded from a
\* store that followed the reset.
ResetSeenIffLoaded == Decided => (is_resetting <=> curTs >= ResetTs)

\* The value of m_resetting that is last in its modification order.
FinalResetting == ppc \notin {"reset", "set"} /\ storeTs # 3

\* The assert of lines 84-86: afterwards the data in the buffer is what was written
\* minus what was read, also if the consumer's store in m_resetting comes before the
\* producer's.
DataSizeIsRight ==
  Joined => Pptr(stored) - (IF FinalResetting THEN 0 ELSE gptr) = total_written - total_read
==============================================================================
