-------------------------- MODULE BufferResetProofs --------------------------
(***************************************************************************)
(* Proofs about BufferReset: the asserts of genmc_buffer_reset_test.c hold *)
(* for every size of the block and of the two bursts, and for any number   *)
(* of calls of my_xsgetn_a that ask for any number of bytes.               *)
(*                                                                         *)
(* The invariant says which stores to m_last_pptr there are at each        *)
(* statement of the producer, and that the consumer is either in the same  *)
(* generation of the buffer as the producer or has read all of the one     *)
(* before it.                                                              *)
(***************************************************************************)
EXTENDS BufferReset, SequenceTheorems, TLAPS

-----------------------------------------------------------------------------
(* The invariant.                                                          *)

First  == Bursts[1]
Second == Bursts[2]

\* Where the producer is determines pptr: a reset moves it back by the first burst.
ProducerInv ==
  /\ ppc = "done" <=> burst = 3
  /\ m_total_reset \in {0, First}
  /\ put # 0 => ppc = "write"
  /\ burst = 1 => /\ m_total_reset = 0 /\ ppc # "set_resetting" /\ put < First
                  /\ pptr_val = IF ppc = "sync" THEN First ELSE 0
  /\ burst = 2 => /\ ppc = "update_put_area" => m_total_reset = 0
                  /\ ppc = "set_resetting" => m_total_reset = First
                  /\ put < Second
                  /\ pptr_val = (IF ppc = "sync" THEN Total ELSE First) - m_total_reset
  /\ burst = 3 => pptr_val = Total - m_total_reset

\* Store k in m_last_pptr, of a producer that reset the buffer r bytes.
Store(r, k) ==
  CASE k = 1 -> [val |-> 0, reset |-> FALSE]
    [] k = 2 -> [val |-> First, reset |-> FALSE]
    [] k = 3 -> IF r = 0 THEN [val |-> Total, reset |-> FALSE] ELSE [val |-> 0, reset |-> TRUE]
    [] OTHER -> [val |-> Second, reset |-> TRUE]

PptrInv ==
  /\ m_last_pptr \in Seq([val: Nat, reset: BOOLEAN])
  /\ Len(m_last_pptr) = IF m_total_reset = 0 THEN burst ELSE burst + 1
  /\ \A k \in 1 .. Len(m_last_pptr) : m_last_pptr[k] = Store(m_total_reset, k)

\* What was written since the reset is in the buffer.
BufferInv ==
  /\ buffer \in [0 .. BlockSize - 1 -> Nat]
  /\ \A j \in 0 .. pptr_val + put - 1 : buffer[j] = m_total_reset + j + 1

\* A reset that the consumer did not see is announced by m_resetting; one of which it
\* knows everything is not announced any more.
ResettingInv ==
  /\ m_total_reset = 0 => ~m_resetting
  /\ m_total_reset # 0 /\ ~getReset => ppc = "set_resetting" \/ m_resetting
  /\ viewPptr = 4 => ~m_resetting

\* The bytes of the call at hand that are not in gptr, or not in m_total_read, yet.
InCopy == IF cpc = "copy" THEN Copied ELSE 0
InCall == IF cpc \in {"copy", "store_last_gptr", "total_read"} THEN Copied ELSE 0

\* The consumer is in the generation of the pptr that it knows, and gptr and m_total_read
\* follow from the number of bytes that it read.
ConsumerInv ==
  /\ getReset <=> m_total_reset # 0 /\ viewPptr >= 3
  /\ egptr_val = Store(m_total_reset, viewPptr).val
  /\ cpc = "done" <=> call = Len(ReadSizes) + 1
  /\ cpc = "copy" => remaining \in 1 .. ReadSizes[call] /\ gptr_val + Copied < egptr_val
  /\ cpc \in {"store_last_gptr", "total_read"} => remaining \in 0 .. ReadSizes[call] - 1
  /\ rlen = (IF getReset THEN First ELSE 0) + gptr_val + InCopy
  /\ m_total_read = rlen - InCall

\* A consumer that did not see the reset read the first burst, and no byte after it.
PendingInv == m_total_reset # 0 /\ ~getReset => rlen = First /\ cpc # "copy"

\* The producer never learns of a gptr that is ahead of what was read.
GptrInv ==
  /\ m_last_gptr \in Seq(Nat) /\ m_last_gptr # <<>>
  /\ cpc # "store_last_gptr" => m_last_gptr[Len(m_last_gptr)] = gptr_val
  /\ m_total_reset = 0 => \A k \in 1 .. Len(m_last_gptr) : m_last_gptr[k] <= rlen

\* The inductive invariant.
IndInv ==
  /\ TypeOK /\ ProducerInv /\ PptrInv /\ BufferInv /\ ResettingInv
  /\ ConsumerInv /\ PendingInv /\ GptrInv
  /\ read_buffer \in Seq(Nat) /\ BytesReadInOrder

\* The first call, of a consumer that asks for the first burst.
FirstInv ==
  /\ call = 1 => /\ ~getReset
                 /\ cpc = "update_get_area" => rlen = 0
                 /\ cpc = "copy" => gptr_val = 0 /\ egptr_val >= First
                 /\ cpc \in {"store_last_gptr", "total_read"} => rlen = First
  /\ FirstCallAllOrNothing

-----------------------------------------------------------------------------
(* Facts about the constants, and what the parts of the invariant say      *)
(* together.                                                               *)

LEMMA ConstantFacts ==
  /\ First \in Nat \ {0} /\ Second \in Nat \ {0} /\ BlockSize \in Nat
  /\ Total = First + Second /\ First + Second <= BlockSize
  /\ Bursts[1] = First /\ Bursts[2] = Second /\ Len(Bursts) = 2
  /\ Len(ReadSizes) \in Nat \ {0}
  /\ \A c \in 1 .. Len(ReadSizes) : ReadSizes[c] \in Nat \ {0}
<1>1. Bursts[1] \in Nat \ {0} /\ Bursts[2] \in Nat \ {0}
  <2>1. Bursts \in Seq(Nat \ {0}) /\ Len(Bursts) = 2
    BY BufferResetAssumption
  <2>2. 1 \in 1 .. Len(Bursts) /\ 2 \in 1 .. Len(Bursts)
    BY <2>1
  <2> QED
    BY <2>1, <2>2, ElementOfSeq
<1>2. /\ Len(ReadSizes) \in Nat \ {0}
      /\ \A c \in 1 .. Len(ReadSizes) : ReadSizes[c] \in Nat \ {0}
  <2>1. ReadSizes \in Seq(Nat \ {0}) /\ ReadSizes # <<>>
    BY BufferResetAssumption
  <2>2. Len(ReadSizes) \in Nat \ {0}
    BY <2>1, EmptySeq, LenProperties
  <2> QED
    BY <2>1, <2>2, ElementOfSeq
<1>3. Bursts[1] = First /\ Bursts[2] = Second /\ Total = First + Second
  BY DEF First, Second, Total
<1> QED
  BY <1>1, <1>2, <1>3, BufferResetAssumption

LEMMA StoreFacts ==
  ASSUME NEW r \in {0, First}
  PROVE  /\ Store(r, 1) = [val |-> 0, reset |-> FALSE]
         /\ Store(r, 2) = [val |-> First, reset |-> FALSE]
         /\ r = 0 => Store(r, 3) = [val |-> Total, reset |-> FALSE]
         /\ r = First => Store(r, 3) = [val |-> 0, reset |-> TRUE]
         /\ Store(r, 4) = [val |-> Second, reset |-> TRUE]
BY ConstantFacts DEF Store

\* The types of what IndInv is about.
Types ==
  /\ burst \in 1 .. 3 /\ put \in Nat /\ pptr_val \in Nat /\ m_total_reset \in {0, First}
  /\ m_total_reset \in Nat /\ viewGptr \in 1 .. Len(m_last_gptr)
  /\ viewPptr \in 1 .. Len(m_last_pptr) /\ viewPptr \in 1 .. 4 /\ Len(m_last_pptr) \in 1 .. 4
  /\ call \in 1 .. Len(ReadSizes) + 1 /\ loop \in 0 .. 1 /\ remaining \in Nat
  /\ gptr_val \in Nat /\ egptr_val \in Nat /\ gptr_val <= egptr_val
  /\ rlen \in Nat /\ Len(m_last_gptr) \in Nat \ {0}

LEMMA TypesHold ==
  ASSUME IndInv
  PROVE  Types
<1>1. /\ burst \in 1 .. 3 /\ put \in Nat /\ pptr_val \in Nat
      /\ egptr_val \in Nat /\ gptr_val \in Nat /\ gptr_val <= egptr_val
  BY ConstantFacts DEF IndInv, TypeOK
<1>2. m_total_reset \in {0, First} /\ m_total_reset \in Nat
  BY ConstantFacts DEF IndInv, ProducerInv
<1>3. Len(m_last_pptr) \in 1 .. 4
  <2>1. m_total_reset # 0 => burst # 1
    BY DEF IndInv, ProducerInv
  <2> QED
    BY <1>1, <1>2, <2>1 DEF IndInv, PptrInv
<1>4. rlen \in Nat /\ Len(m_last_gptr) \in Nat \ {0}
  BY DEF IndInv, rlen, GptrInv
<1>5. /\ viewGptr \in 1 .. Len(m_last_gptr) /\ viewPptr \in 1 .. Len(m_last_pptr)
      /\ call \in 1 .. Len(ReadSizes) + 1 /\ loop \in 0 .. 1 /\ remaining \in Nat
  BY Zenon DEF IndInv, TypeOK
<1>6. viewPptr \in 1 .. 4
  <2>1. PICK n \in 1 .. 4 : n = Len(m_last_pptr)
    BY <1>3
  <2>2. viewPptr \in 1 .. n
    BY <1>5, <2>1, Zenon
  <2> QED
    BY <2>2
<1> QED
  BY <1>1, <1>2, <1>3, <1>4, <1>5, <1>6, Zenon DEF Types

\* A store that the consumer may load.
LEMMA KnownStore ==
  ASSUME IndInv, NEW k \in viewPptr .. Len(m_last_pptr)
  PROVE  k \in 1 .. Len(m_last_pptr) /\ viewPptr <= k
<1>1. PICK n \in 1 .. 4 : n = Len(m_last_pptr)
  BY TypesHold DEF Types
<1>2. viewPptr \in 1 .. 4
  BY TypesHold DEF Types
<1>3. k \in viewPptr .. n
  BY <1>1, Zenon
<1>4. k \in 1 .. n /\ viewPptr <= k
  BY <1>2, <1>3
<1> QED
  BY <1>1, <1>4, Zenon

\* Store k to m_last_pptr: where it points to, and to which generation it belongs.
LEMMA PptrFacts ==
  ASSUME IndInv, NEW k \in 1 .. Len(m_last_pptr)
  PROVE  /\ k \in 1 .. 4 /\ m_last_pptr[k] = Store(m_total_reset, k)
         /\ k = 1 => m_last_pptr[k].val = 0 /\ ~m_last_pptr[k].reset
         /\ k = 2 => m_last_pptr[k].val = First /\ ~m_last_pptr[k].reset
         /\ k = 3 /\ m_total_reset = 0 => m_last_pptr[k].val = Total /\ ~m_last_pptr[k].reset
         /\ k = 3 /\ m_total_reset # 0 => m_last_pptr[k].val = 0 /\ m_last_pptr[k].reset
         /\ k = 4 => /\ m_last_pptr[k].val = Second /\ m_last_pptr[k].reset
                     /\ m_total_reset = First /\ burst = 3
         /\ m_last_pptr[k].val \in 0 .. BlockSize
<1>1. Types
  BY TypesHold
<1>2. k \in 1 .. 4 /\ m_last_pptr[k] = Store(m_total_reset, k)
  BY <1>1 DEF Types, IndInv, PptrInv
<1>3. k = 4 => m_total_reset = First /\ burst = 3
  BY <1>1 DEF Types, IndInv, PptrInv
<1>4. m_total_reset \in {0, First}
  BY <1>1 DEF Types
<1>5. CASE k = 1
  BY <1>2, <1>4, <1>5, StoreFacts, ConstantFacts
<1>6. CASE k = 2
  BY <1>2, <1>4, <1>6, StoreFacts, ConstantFacts
<1>7. CASE k = 3 /\ m_total_reset = 0
  BY <1>2, <1>4, <1>7, StoreFacts, ConstantFacts
<1>8. CASE k = 3 /\ m_total_reset = First
  BY <1>2, <1>4, <1>8, StoreFacts, ConstantFacts
<1>9. CASE k = 4
  BY <1>2, <1>3, <1>4, <1>9, StoreFacts, ConstantFacts
<1> QED
  BY <1>2, <1>4, <1>5, <1>6, <1>7, <1>8, <1>9

-----------------------------------------------------------------------------
(* What one thread does leaves alone what is said of the other.            *)

LEMMA ProducerFrame ==
  ASSUME IndInv, UNCHANGED producerVars
  PROVE  ProducerInv' /\ PptrInv' /\ BufferInv'
<1>1. ProducerInv'
  BY Zenon DEF IndInv, ProducerInv, producerVars
<1>2. PptrInv'
  BY Zenon DEF IndInv, PptrInv, producerVars
<1>3. BufferInv'
  BY Zenon DEF IndInv, BufferInv, producerVars
<1> QED
  BY <1>1, <1>2, <1>3

LEMMA ConsumerFrame ==
  ASSUME IndInv, UNCHANGED consumerVars
  PROVE  /\ read_buffer' \in Seq(Nat) /\ BytesReadInOrder' /\ rlen' = rlen
         /\ m_total_reset' = m_total_reset => ConsumerInv' /\ PendingInv' /\ GptrInv'
<1>1. read_buffer' \in Seq(Nat) /\ BytesReadInOrder' /\ rlen' = rlen
  BY Zenon DEF IndInv, BytesReadInOrder, rlen, consumerVars
<1>2. m_total_reset' = m_total_reset => ConsumerInv'
  <2>1. InCopy' = InCopy /\ InCall' = InCall /\ Copied' = Copied
    BY Zenon DEF InCopy, InCall, Copied, consumerVars
  <2> QED
    BY <1>1, <2>1, Zenon DEF IndInv, ConsumerInv, consumerVars
<1>3. m_total_reset' = m_total_reset => PendingInv' /\ GptrInv'
  BY <1>1, Zenon DEF IndInv, PendingInv, GptrInv, consumerVars
<1> QED
  BY <1>1, <1>2, <1>3

LEMMA TypesOfParts ==
  ASSUME IndInv
  PROVE  /\ m_resetting \in BOOLEAN /\ getReset \in BOOLEAN
         /\ ppc \in {"update_put_area", "set_resetting", "write", "sync", "done"}
         /\ cpc \in {"update_get_area", "copy", "store_last_gptr", "total_read", "done"}
         /\ put \in 0 .. BlockSize /\ pptr_val \in 0 .. BlockSize
         /\ egptr_val \in 0 .. BlockSize /\ gptr_val \in 0 .. egptr_val
BY Zenon DEF IndInv, TypeOK

-----------------------------------------------------------------------------
(* The producer.                                                           *)

LEMMA SetResettingStep ==
  ASSUME IndInv, Set_resetting
  PROVE  IndInv'
<1>1. /\ ppc = "set_resetting" /\ ppc' = "write" /\ UNCHANGED consumerVars
      /\ burst' = burst /\ put' = put /\ pptr_val' = pptr_val /\ buffer' = buffer
      /\ m_total_reset' = m_total_reset /\ viewGptr' = viewGptr /\ m_last_pptr' = m_last_pptr
  BY DEF Set_resetting
<1>2. burst = 2 /\ m_total_reset = First
  BY <1>1, TypesHold DEF IndInv, ProducerInv, Types
<1>3. ProducerInv'
  BY <1>1, <1>2 DEF IndInv, ProducerInv
<1>4. PptrInv' /\ BufferInv'
  BY <1>1, Zenon DEF IndInv, PptrInv, BufferInv
<1>5. ResettingInv'
  <2>1. viewPptr # 4
    BY <1>2, PptrFacts, TypesHold DEF Types
  <2>2. ~getReset => m_resetting'
    BY Zenon DEF Set_resetting
  <2> QED
    BY <1>1, <1>2, <2>1, <2>2, ConstantFacts DEF ResettingInv, consumerVars
<1>6. TypeOK'
  <2>1. m_resetting' \in BOOLEAN
    BY Zenon DEF Set_resetting
  <2> QED
    BY <1>1, <2>1, Zenon DEF IndInv, TypeOK, consumerVars
<1> QED
  BY <1>1, <1>3, <1>4, <1>5, <1>6, ConsumerFrame, Zenon DEF IndInv

\* A store to m_last_pptr.
LEMMA AppendPptr ==
  ASSUME IndInv, NEW s \in [val: Nat, reset: BOOLEAN], NEW n \in Nat, n = Len(m_last_pptr),
         m_last_pptr' = Append(m_last_pptr, s),
         n + 1 = IF m_total_reset' = 0 THEN burst' ELSE burst' + 1,
         s = Store(m_total_reset', n + 1),
         \A k \in 1 .. n : Store(m_total_reset', k) = Store(m_total_reset, k)
  PROVE  PptrInv' /\ Len(m_last_pptr') = n + 1
<1>1. m_last_pptr \in Seq([val: Nat, reset: BOOLEAN])
  BY DEF IndInv, PptrInv
<1>2. PICK q : q = m_last_pptr'
  OBVIOUS
<1>3. /\ q \in Seq([val: Nat, reset: BOOLEAN]) /\ Len(q) = n + 1 /\ q[n + 1] = s
      /\ \A k \in 1 .. n : q[k] = m_last_pptr[k]
  BY <1>1, <1>2, AppendProperties
<1>4. ASSUME NEW k \in 1 .. n + 1
      PROVE  q[k] = Store(m_total_reset', k)
  <2>1. CASE k = n + 1
    BY <1>3, <2>1
  <2>2. CASE k \in 1 .. n
    BY <1>3, <2>2, Zenon DEF IndInv, PptrInv
  <2> QED
    BY <2>1, <2>2
<1> QED
  BY <1>2, <1>3, <1>4, Zenon DEF PptrInv

LEMMA SyncStep ==
  ASSUME IndInv, Sync_egptr
  PROVE  IndInv'
<1>1. /\ ppc = "sync" /\ UNCHANGED consumerVars /\ m_resetting' = m_resetting
      /\ put' = put /\ pptr_val' = pptr_val /\ buffer' = buffer /\ burst' = burst + 1
      /\ m_total_reset' = m_total_reset /\ viewGptr' = viewGptr
      /\ m_last_pptr' = Append(m_last_pptr, [val |-> pptr_val, reset |-> m_total_reset # 0])
      /\ ppc' = IF burst = Len(Bursts) THEN "done" ELSE "update_put_area"
  BY DEF Sync_egptr
<1> PICK r \in {0, First} : r = m_total_reset
  BY TypesHold DEF Types
<1> PICK n \in Nat : n = Len(m_last_pptr)
  BY TypesHold DEF Types
<1>2. /\ burst \in 1 .. 2 /\ put = 0 /\ pptr_val \in Nat
      /\ n = IF r = 0 THEN burst ELSE burst + 1
      /\ burst = 1 => r = 0 /\ pptr_val = First
      /\ burst = 2 => pptr_val = Total - r
  <2>1. n = IF r = 0 THEN burst ELSE burst + 1
    BY Zenon DEF IndInv, PptrInv
  <2>2. /\ burst \in 1 .. 2 /\ put = 0 /\ pptr_val \in Nat
        /\ burst = 1 => r = 0 /\ pptr_val = First
        /\ burst = 2 => pptr_val = Total - r
    BY <1>1, TypesHold DEF IndInv, ProducerInv, Types
  <2> QED
    BY <2>1, <2>2
<1>3. ProducerInv'
  <2>1. CASE burst = 1
    <3>1. burst' = 2 /\ ppc' = "update_put_area"
      BY <1>1, <2>1, ConstantFacts
    <3> QED
      BY <1>1, <1>2, <2>1, <3>1, ConstantFacts DEF ProducerInv
  <2>2. CASE burst = 2
    <3>1. burst' = 3 /\ ppc' = "done"
      BY <1>1, <2>2, ConstantFacts
    <3> QED
      BY <1>1, <1>2, <2>2, <3>1, ConstantFacts DEF ProducerInv
  <2> QED
    BY <1>2, <2>1, <2>2
<1>4. PptrInv' /\ Len(m_last_pptr') = n + 1
  <2>1. PICK s : s = [val |-> pptr_val, reset |-> r # 0]
    OBVIOUS
  <2>2. s \in [val: Nat, reset: BOOLEAN] /\ m_last_pptr' = Append(m_last_pptr, s)
    BY <1>1, <1>2, <2>1
  <2>3. s = Store(r, n + 1)
    <3>1. CASE burst = 1
      <4>1. n + 1 = 2 /\ r = 0 /\ pptr_val = First
        BY <1>2, <3>1
      <4>2. s = [val |-> First, reset |-> FALSE]
        BY <2>1, <4>1
      <4> QED
        BY <4>1, <4>2, StoreFacts
    <3>2. CASE burst = 2 /\ r = 0
      <4>1. n + 1 = 3 /\ r = 0 /\ pptr_val = Total
        BY <1>2, <3>2, ConstantFacts
      <4>2. s = [val |-> Total, reset |-> FALSE]
        BY <2>1, <4>1
      <4> QED
        BY <4>1, <4>2, StoreFacts
    <3>3. CASE burst = 2 /\ r = First
      <4>1. n + 1 = 4 /\ r # 0 /\ pptr_val = Second
        BY <1>2, <3>3, ConstantFacts
      <4>2. s = [val |-> Second, reset |-> TRUE]
        BY <2>1, <4>1
      <4> QED
        BY <4>1, <4>2, StoreFacts
    <3> QED
      BY <1>2, <3>1, <3>2, <3>3
  <2>4. n + 1 = IF m_total_reset' = 0 THEN burst' ELSE burst' + 1
    BY <1>1, <1>2
  <2> QED
    BY <1>1, <2>2, <2>3, <2>4, AppendPptr
<1>5. BufferInv'
  BY <1>1, Zenon DEF IndInv, BufferInv
<1>6. ResettingInv'
  BY <1>1 DEF IndInv, ResettingInv, consumerVars
<1>7. TypeOK'
  <2>1. /\ ppc' \in {"update_put_area", "set_resetting", "write", "sync", "done"}
        /\ burst' \in 1 .. Len(Bursts) + 1
    BY <1>1, <1>2, ConstantFacts
  <2>2. viewPptr' \in 1 .. Len(m_last_pptr')
    BY <1>1, <1>4, TypesHold DEF Types, consumerVars
  <2> QED
    BY <1>1, <2>1, <2>2, Zenon DEF IndInv, TypeOK, consumerVars
<1> QED
  BY <1>1, <1>3, <1>4, <1>5, <1>6, <1>7, ConsumerFrame, Zenon DEF IndInv

LEMMA WriteStep ==
  ASSUME IndInv, Write
  PROVE  IndInv'
<1>1. /\ ppc = "write" /\ UNCHANGED consumerVars /\ m_resetting' = m_resetting
      /\ burst' = burst /\ m_total_reset' = m_total_reset /\ viewGptr' = viewGptr
      /\ m_last_pptr' = m_last_pptr
      /\ buffer' = [buffer EXCEPT ![pptr_val + put] = m_total_reset + pptr_val + put + 1]
      /\ \/ /\ put + 1 = Bursts[burst] /\ pptr_val' = pptr_val + put + 1
            /\ put' = 0 /\ ppc' = "sync"
         \/ /\ put + 1 # Bursts[burst] /\ put' = put + 1
            /\ pptr_val' = pptr_val /\ ppc' = ppc
  BY DEF Write, BurstComplete
<1>a. \/ put + 1 = Bursts[burst] /\ pptr_val' = pptr_val + put + 1 /\ put' = 0 /\ ppc' = "sync"
      \/ put + 1 # Bursts[burst] /\ put' = put + 1 /\ pptr_val' = pptr_val /\ ppc' = "write"
  BY <1>1, Zenon
<1> PICK r \in {0, First} : r = m_total_reset
  BY TypesHold DEF Types
<1>2. /\ burst \in 1 .. 2 /\ put \in Nat /\ pptr_val \in Nat
      /\ burst = 1 => r = 0 /\ pptr_val = 0 /\ put < First
      /\ burst = 2 => pptr_val = First - r /\ put < Second
  BY <1>1, TypesHold DEF IndInv, ProducerInv, Types
<1>3. Bursts[burst] = IF burst = 1 THEN First ELSE Second
  BY <1>2 DEF First, Second
<1>4. ProducerInv'
  <2>1. CASE burst = 1
    BY <1>1, <1>2, <1>3, <2>1, ConstantFacts DEF ProducerInv
  <2>2. CASE burst = 2 /\ put + 1 = Second
    <3>1. ppc' = "sync" /\ put' = 0 /\ pptr_val' = First - r + Second
      BY <1>a, <1>2, <1>3, <2>2, ConstantFacts
    <3> QED
      BY <1>1, <1>2, <2>2, <3>1, ConstantFacts DEF ProducerInv
  <2>3. CASE burst = 2 /\ put + 1 # Second
    <3>1. ppc' = "write" /\ put' = put + 1 /\ pptr_val' = First - r
      BY <1>a, <1>2, <1>3, <2>3, ConstantFacts
    <3> QED
      BY <1>1, <1>2, <2>3, <3>1, ConstantFacts DEF ProducerInv
  <2> QED
    BY <1>2, <2>1, <2>2, <2>3
<1>5. /\ put' \in Nat /\ pptr_val' \in Nat /\ pptr_val + put \in 0 .. BlockSize - 1
      /\ pptr_val' + put' = pptr_val + put + 1
  <2>1. Bursts[burst] \in Nat \ {0}
    BY <1>2, <1>3, ConstantFacts
  <2>2. put' \in Nat /\ pptr_val' \in Nat /\ pptr_val' + put' = pptr_val + put + 1
    BY <1>a, <1>2, <2>1
  <2>3. pptr_val + put < First + Second
    BY <1>2, ConstantFacts
  <2>4. pptr_val + put \in 0 .. BlockSize - 1
    BY <1>2, <2>3, ConstantFacts
  <2> QED
    BY <2>2, <2>4
<1>6. BufferInv'
  <2>1. PICK e \in 0 .. BlockSize - 1 : e = pptr_val + put
    BY <1>5
  <2>2. PICK v \in Nat : v = r + e + 1
    BY <2>1, ConstantFacts
  <2>3. buffer' = [buffer EXCEPT ![e] = v]
    <3>1. m_total_reset + pptr_val + put + 1 = v
      BY <1>2, <2>1, <2>2, ConstantFacts
    <3> QED
      BY <1>1, <2>1, <3>1, Zenon
  <2>4. /\ buffer \in [0 .. BlockSize - 1 -> Nat]
        /\ \A j \in 0 .. e - 1 : buffer[j] = r + j + 1
    <3>1. \A j \in 0 .. pptr_val + put - 1 : buffer[j] = m_total_reset + j + 1
      BY DEF IndInv, BufferInv
    <3>2. pptr_val + put - 1 = e - 1
      BY <1>2, <2>1, ConstantFacts
    <3>3. buffer \in [0 .. BlockSize - 1 -> Nat]
      BY DEF IndInv, BufferInv
    <3>4. ASSUME NEW j \in 0 .. e - 1
          PROVE  buffer[j] = r + j + 1
      <4>1. j \in 0 .. pptr_val + put - 1
        BY <3>2
      <4> QED
        BY <3>1, <4>1
    <3> QED
      BY <3>3, <3>4
  <2>5. buffer' \in [0 .. BlockSize - 1 -> Nat]
    BY <2>3, <2>4
  <2>6. \A j \in 0 .. e : buffer'[j] = r + j + 1
    BY <2>2, <2>3, <2>4, ConstantFacts
  <2>7. pptr_val' + put' - 1 = e
    BY <1>5, <2>1
  <2> QED
    BY <1>1, <2>5, <2>6, <2>7 DEF BufferInv
<1>7. PptrInv'
  BY <1>1, Zenon DEF IndInv, PptrInv
<1>8. ResettingInv'
  BY <1>1 DEF IndInv, ResettingInv, consumerVars
<1>9. TypeOK'
  <2>1. put' \in 0 .. BlockSize /\ pptr_val' \in 0 .. BlockSize
    BY <1>5, ConstantFacts
  <2>2. ppc' \in {"update_put_area", "set_resetting", "write", "sync", "done"}
    BY <1>1
  <2> QED
    BY <1>1, <2>1, <2>2, Zenon DEF IndInv, TypeOK, consumerVars
<1> QED
  BY <1>1, <1>4, <1>6, <1>7, <1>8, <1>9, ConsumerFrame, Zenon DEF IndInv

\* The buffer is reset when the producer knows of a gptr at the end of the first burst:
\* then the consumer read all of it, and has no pptr after that.
LEMMA ResetOnlyWhenRead ==
  ASSUME IndInv, ppc = "update_put_area", NEW k \in 1 .. Len(m_last_gptr),
         m_last_gptr[k] = pptr_val, pptr_val # 0
  PROVE  /\ burst = 2 /\ m_total_reset = 0 /\ pptr_val = First /\ put = 0
         /\ Len(m_last_pptr) = 2 /\ viewPptr \in 1 .. 2 /\ ~getReset
         /\ rlen = First /\ gptr_val = First /\ cpc # "copy"
<1> USE ConstantFacts
<1>1. Types
  BY TypesHold
<1>2. burst = 2 /\ m_total_reset = 0 /\ pptr_val = First /\ put = 0
  <2>1. burst # 3 /\ burst # 1
    BY DEF IndInv, ProducerInv
  <2>2. burst = 2
    BY <1>1, <2>1 DEF Types
  <2> QED
    BY <2>2 DEF IndInv, ProducerInv
<1>3. Len(m_last_pptr) = 2
  BY <1>2 DEF IndInv, PptrInv
<1>4. viewPptr \in 1 .. 2
  BY <1>1, <1>3 DEF Types
<1>5. ~getReset
  BY <1>2 DEF IndInv, ConsumerInv
<1>6. egptr_val <= First
  <2>1. egptr_val = Store(0, viewPptr).val
    BY <1>2 DEF IndInv, ConsumerInv
  <2>2. CASE viewPptr = 1
    BY <2>1, <2>2, StoreFacts
  <2>3. CASE viewPptr = 2
    BY <2>1, <2>3, StoreFacts
  <2> QED
    BY <1>4, <2>2, <2>3
<1>7. rlen >= First
  BY <1>1, <1>2 DEF IndInv, GptrInv, Types
<1>8. rlen = gptr_val + InCopy
  BY <1>1, <1>5 DEF IndInv, ConsumerInv, Types, InCopy, Copied
<1>9. cpc # "copy"
  <2> SUFFICES ASSUME cpc = "copy" PROVE FALSE
    OBVIOUS
  <2>1. gptr_val + Copied < egptr_val
    BY DEF IndInv, ConsumerInv
  <2>2. InCopy = Copied
    BY DEF InCopy
  <2> QED
    BY <1>1, <1>6, <1>7, <1>8, <2>1, <2>2 DEF Types
<1>10. rlen = First /\ gptr_val = First
  BY <1>1, <1>6, <1>7, <1>8, <1>9 DEF InCopy, Types
<1> QED
  BY <1>2, <1>3, <1>4, <1>5, <1>9, <1>10

LEMMA UpdatePutAreaStep ==
  ASSUME IndInv, Update_put_area
  PROVE  IndInv'
<1>1. PICK k \in viewGptr .. Len(m_last_gptr) :
        /\ viewGptr' = k
        /\ \/ /\ m_last_gptr[k] = pptr_val /\ pptr_val # 0
              /\ m_total_reset' = m_total_reset + pptr_val
              /\ pptr_val' = 0
              /\ m_last_pptr' = Append(m_last_pptr, [val |-> 0, reset |-> TRUE])
              /\ ppc' = "set_resetting"
           \/ /\ ppc' = "write"
              /\ UNCHANGED <<m_total_reset, pptr_val, m_last_pptr>>
  BY Zenon DEF Update_put_area, Empties
<1>2. /\ ppc = "update_put_area" /\ UNCHANGED consumerVars /\ m_resetting' = m_resetting
      /\ burst' = burst /\ put' = put /\ buffer' = buffer
  BY DEF Update_put_area
<1>3. k \in 1 .. Len(m_last_gptr)
  BY TypesHold DEF Types
<1>4. CASE ppc' = "write" /\ UNCHANGED <<m_total_reset, pptr_val, m_last_pptr>>
  <2>1. ProducerInv'
    BY <1>2, <1>4, TypesHold, ConstantFacts DEF IndInv, ProducerInv, Types
  <2>2. PptrInv' /\ BufferInv'
    BY <1>2, <1>4, Zenon DEF IndInv, PptrInv, BufferInv
  <2>3. ResettingInv'
    BY <1>2, <1>4 DEF IndInv, ResettingInv, consumerVars
  <2>4. TypeOK'
    BY <1>1, <1>2, <1>3, <1>4, Zenon DEF IndInv, TypeOK, consumerVars
  <2> QED
    BY <1>2, <1>4, <2>1, <2>2, <2>3, <2>4, ConsumerFrame, Zenon DEF IndInv
<1>5. CASE /\ m_last_gptr[k] = pptr_val /\ pptr_val # 0
           /\ m_total_reset' = m_total_reset + pptr_val
           /\ pptr_val' = 0
           /\ m_last_pptr' = Append(m_last_pptr, [val |-> 0, reset |-> TRUE])
           /\ ppc' = "set_resetting"
  <2>1. /\ burst = 2 /\ m_total_reset = 0 /\ pptr_val = First /\ put = 0
        /\ Len(m_last_pptr) = 2 /\ viewPptr \in 1 .. 2 /\ ~getReset
        /\ rlen = First /\ gptr_val = First /\ cpc # "copy"
    BY <1>2, <1>3, <1>5, ResetOnlyWhenRead
  <2>2. m_total_reset' = First /\ First # 0
    BY <1>5, <2>1, ConstantFacts
  <2>3. ProducerInv'
    BY <1>2, <1>5, <2>1, <2>2, ConstantFacts DEF ProducerInv
  <2>4. \A j \in 1 .. 2 : Store(First, j) = Store(0, j)
    <3>1. Store(First, 1) = Store(0, 1) /\ Store(First, 2) = Store(0, 2)
      BY StoreFacts
    <3>2. ASSUME NEW j \in 1 .. 2 PROVE j = 1 \/ j = 2
      OBVIOUS
    <3> QED
      BY <3>1, <3>2, Zenon
  <2>5. PptrInv' /\ Len(m_last_pptr') = 3
    <3>1. PICK s : s = [val |-> 0, reset |-> TRUE]
      OBVIOUS
    <3>2. s \in [val: Nat, reset: BOOLEAN] /\ m_last_pptr' = Append(m_last_pptr, s)
      BY <1>5, <3>1
    <3>3. s = Store(m_total_reset', 2 + 1)
      BY <2>2, <3>1, StoreFacts
    <3>4. 2 + 1 = IF m_total_reset' = 0 THEN burst' ELSE burst' + 1
      BY <1>2, <2>1, <2>2
    <3>5. \A j \in 1 .. 2 : Store(m_total_reset', j) = Store(m_total_reset, j)
      BY <2>1, <2>2, <2>4, Zenon
    <3>6. PICK n \in Nat : n = 2
      OBVIOUS
    <3> QED
      BY <2>1, <3>2, <3>3, <3>4, <3>5, <3>6, AppendPptr
  <2>6. BufferInv'
    <3>1. pptr_val' + put' - 1 = 0 - 1
      BY <1>2, <1>5, <2>1
    <3>2. buffer' \in [0 .. BlockSize - 1 -> Nat]
      BY <1>2 DEF IndInv, BufferInv
    <3> QED
      BY <3>1, <3>2 DEF BufferInv
  <2>7. viewPptr' = viewPptr /\ getReset' = getReset /\ egptr_val' = egptr_val
    BY <1>2 DEF consumerVars
  <2>8. ResettingInv'
    BY <1>5, <2>1, <2>2, <2>7 DEF ResettingInv
  <2>9. ConsumerInv'
    <3>1. InCopy' = InCopy /\ InCall' = InCall /\ Copied' = Copied /\ rlen' = rlen
      BY <1>2, Zenon DEF InCopy, InCall, Copied, rlen, consumerVars
    <3>2. egptr_val' = Store(m_total_reset', viewPptr').val
      BY <2>1, <2>2, <2>4, <2>7, Zenon DEF IndInv, ConsumerInv
    <3>3. getReset' <=> m_total_reset' # 0 /\ viewPptr' >= 3
      BY <2>1, <2>2, <2>7
    <3>4. /\ cpc' = "done" <=> call' = Len(ReadSizes) + 1
          /\ cpc' = "copy" => /\ remaining' \in 1 .. ReadSizes[call']
                              /\ gptr_val' + Copied' < egptr_val'
          /\ cpc' \in {"store_last_gptr", "total_read"} =>
                remaining' \in 0 .. ReadSizes[call'] - 1
      BY <1>2, <3>1, Zenon DEF IndInv, ConsumerInv, consumerVars
    <3>5. /\ rlen' = (IF getReset' THEN First ELSE 0) + gptr_val' + InCopy'
          /\ m_total_read' = rlen' - InCall'
      BY <1>2, <3>1, Zenon DEF IndInv, ConsumerInv, consumerVars
    <3> QED
      BY <3>2, <3>3, <3>4, <3>5, Zenon DEF ConsumerInv
  <2>10. PendingInv'
    BY <1>2, <2>1 DEF PendingInv, rlen, consumerVars
  <2>11. GptrInv'
    BY <1>2, <2>2, Zenon DEF IndInv, GptrInv, consumerVars
  <2>12. TypeOK'
    <3>1. viewPptr' \in 1 .. Len(m_last_pptr') /\ pptr_val' \in 0 .. BlockSize
      BY <1>5, <2>1, <2>5, <2>7, ConstantFacts
    <3> QED
      BY <1>1, <1>2, <1>3, <1>5, <3>1, Zenon DEF IndInv, TypeOK, consumerVars
  <2> QED
    BY <1>2, <2>3, <2>5, <2>6, <2>8, <2>9, <2>10, <2>11, <2>12, ConsumerFrame, Zenon
       DEF IndInv
<1> QED
  BY <1>1, <1>4, <1>5

-----------------------------------------------------------------------------
(* The consumer.                                                           *)

\* The call at hand is one of ReadSizes.
LEMMA CallFacts ==
  ASSUME IndInv, cpc # "done"
  PROVE  call \in 1 .. Len(ReadSizes) /\ ReadSizes[call] \in Nat \ {0} /\ Copied \in Int
<1>1. call # Len(ReadSizes) + 1
  BY DEF IndInv, ConsumerInv
<1>2. call \in 1 .. Len(ReadSizes)
  <2>1. PICK n \in Nat : n = Len(ReadSizes)
    BY ConstantFacts
  <2>2. call \in 1 .. n + 1
    BY <2>1, TypesHold, Zenon DEF Types
  <2>3. call \in 1 .. n
    BY <1>1, <2>1, <2>2
  <2> QED
    BY <2>1, <2>3, Zenon
<1>3. ReadSizes[call] \in Nat \ {0}
  BY <1>2, ConstantFacts
<1> QED
  BY <1>2, <1>3, TypesHold DEF Types, Copied

\* What update_get_area is about to find: nothing of this call was read.
LEMMA AtUpdate ==
  ASSUME IndInv, cpc = "update_get_area"
  PROVE  /\ m_total_read = rlen
         /\ rlen = (IF getReset THEN First ELSE 0) + gptr_val
<1>1. InCopy = 0 /\ InCall = 0
  BY DEF InCopy, InCall
<1>2. /\ rlen = (IF getReset THEN First ELSE 0) + gptr_val + InCopy
      /\ m_total_read = rlen - InCall
  BY DEF IndInv, ConsumerInv
<1>3. rlen \in Nat /\ gptr_val \in Nat
  BY TypesHold DEF Types
<1> QED
  BY <1>1, <1>2, <1>3, ConstantFacts

LEMMA NextCallFacts ==
  ASSUME IndInv, cpc # "done", NextCall
  PROVE  /\ cpc' \in {"update_get_area", "done"}
         /\ call' \in 1 .. Len(ReadSizes) + 1 /\ loop' \in 0 .. 1
         /\ cpc' = "done" <=> call' = Len(ReadSizes) + 1
<1>1. call \in 1 .. Len(ReadSizes)
  BY CallFacts
<1> QED
  BY <1>1, ConstantFacts DEF NextCall

\* Proceed leaves the consumer at a state that fits the get area that it found.
LEMMA ProceedFacts ==
  ASSUME IndInv, cpc = "update_get_area", NEW g \in Nat, NEW p \in Nat, g <= p, Proceed(g, p)
  PROVE  /\ gptr_val' = g /\ egptr_val' = p
         /\ cpc' \in {"update_get_area", "copy", "done"}
         /\ call' \in 1 .. Len(ReadSizes) + 1 /\ loop' \in 0 .. 1 /\ remaining' \in Nat
         /\ cpc' = "done" <=> call' = Len(ReadSizes) + 1
         /\ cpc' = "copy" => /\ remaining' \in 1 .. ReadSizes[call']
                             /\ gptr_val' + Copied' < egptr_val' /\ g # p
         /\ InCopy' = 0 /\ InCall' = 0
<1>1. /\ call \in 1 .. Len(ReadSizes) /\ ReadSizes[call] \in Nat \ {0}
      /\ remaining \in Nat /\ loop \in 0 .. 1 /\ Len(ReadSizes) \in Nat
  BY CallFacts, TypesHold, ConstantFacts DEF Types
<1>2. gptr_val' = g /\ egptr_val' = p
  BY DEF Proceed
<1>3. CASE p # g /\ remaining' = ReadSizes[call] /\ cpc' = "copy" /\ UNCHANGED <<call, loop>>
  <2>1. Copied' = 0
    BY <1>1, <1>3 DEF Copied
  <2>2. InCopy' = 0 /\ InCall' = 0
    BY <1>3, <2>1 DEF InCopy, InCall
  <2> QED
    BY <1>1, <1>2, <1>3, <2>1, <2>2
<1>4. CASE loop' = 1 /\ UNCHANGED <<call, cpc, remaining>>
  <2>1. InCopy' = 0 /\ InCall' = 0
    BY <1>4 DEF InCopy, InCall
  <2> QED
    BY <1>1, <1>2, <1>4, <2>1
<1>5. CASE NextCall /\ UNCHANGED remaining
  <2>1. /\ cpc' \in {"update_get_area", "done"}
        /\ call' \in 1 .. Len(ReadSizes) + 1 /\ loop' \in 0 .. 1
        /\ cpc' = "done" <=> call' = Len(ReadSizes) + 1
    BY <1>5, NextCallFacts
  <2>2. InCopy' = 0 /\ InCall' = 0
    BY <2>1 DEF InCopy, InCall
  <2> QED
    BY <1>1, <1>2, <1>5, <2>1, <2>2
<1> QED
  BY <1>3, <1>4, <1>5 DEF Proceed

LEMMA UpdateGetAreaStep ==
  ASSUME IndInv, Update_get_area
  PROVE  IndInv'
<1> USE ConstantFacts
<1>1. PICK k \in viewPptr .. Len(m_last_pptr) :
        /\ ~m_last_pptr[k].reset \/ (getReset /\ (m_resetting => IsResetStore(k)))
        /\ viewPptr' = k /\ Proceed(gptr_val, m_last_pptr[k].val)
  BY Zenon DEF Update_get_area
<1>2. /\ cpc = "update_get_area" /\ UNCHANGED producerVars
      /\ UNCHANGED <<getReset, read_buffer, m_last_gptr, m_total_read, m_resetting>>
  BY DEF Update_get_area
<1>3. Types
  BY TypesHold
<1>4. m_total_read = rlen /\ rlen = (IF getReset THEN First ELSE 0) + gptr_val
  BY <1>2, AtUpdate
<1>5. k \in 1 .. Len(m_last_pptr) /\ viewPptr <= k /\ m_total_reset' = m_total_reset
  BY <1>2, KnownStore, Zenon DEF producerVars
<1> PICK p : p = m_last_pptr[k].val
  OBVIOUS
<1>6. /\ k \in 1 .. 4 /\ p = Store(m_total_reset, k).val /\ p \in 0 .. BlockSize
      /\ k = 1 => p = 0 /\ ~m_last_pptr[k].reset
      /\ k = 2 => p = First /\ ~m_last_pptr[k].reset
      /\ k = 3 /\ m_total_reset = 0 => p = Total /\ ~m_last_pptr[k].reset
      /\ k = 3 /\ m_total_reset # 0 => p = 0 /\ m_last_pptr[k].reset
      /\ k = 4 => p = Second /\ m_last_pptr[k].reset /\ m_total_reset # 0
  BY <1>5, PptrFacts
<1>7. /\ getReset <=> m_total_reset # 0 /\ viewPptr >= 3
      /\ egptr_val = Store(m_total_reset, viewPptr).val
  BY DEF IndInv, ConsumerInv
<1>8. /\ getReset <=> m_total_reset # 0 /\ k >= 3
      /\ k = 4 => ~m_resetting
  <2>1. CASE ~m_last_pptr[k].reset
    <3>1. m_total_reset = 0 \/ k < 3
      BY <1>6, <2>1
    <3>2. ~(m_total_reset # 0 /\ k >= 3) /\ k # 4
      BY <1>6, <2>1, <3>1
    <3>3. viewPptr \in 1 .. 4 /\ k \in 1 .. 4 /\ viewPptr <= k
      BY <1>3, <1>5, <1>6 DEF Types
    <3>4. ~(m_total_reset # 0 /\ viewPptr >= 3)
      BY <3>2, <3>3
    <3> QED
      BY <1>7, <3>2, <3>4
  <2>2. CASE getReset /\ (m_resetting => IsResetStore(k))
    <3>1. k = 4 => ~IsResetStore(k)
      BY <1>6 DEF IsResetStore
    <3> QED
      BY <1>3, <1>5, <1>6, <1>7, <2>2, <3>1 DEF Types
  <2> QED
    BY <1>1, <2>1, <2>2
<1>9. gptr_val <= p
  <2>1. viewPptr \in 1 .. 4 /\ viewPptr <= k /\ gptr_val \in Nat /\ gptr_val <= egptr_val
    BY <1>3, <1>5 DEF Types
  <2>2. m_total_reset \in {0, First}
    BY <1>3 DEF Types
  <2>3. /\ viewPptr = 1 => egptr_val = 0
        /\ viewPptr = 2 => egptr_val = First
        /\ viewPptr = 3 /\ m_total_reset = 0 => egptr_val = Total
        /\ viewPptr = 3 /\ m_total_reset = First => egptr_val = 0
        /\ viewPptr = 4 => egptr_val = Second
    BY <1>7, <2>2, StoreFacts
  <2>4. m_total_reset # 0 => (viewPptr >= 3 <=> k >= 3)
    BY <1>7, <1>8
  <2> QED
    BY <1>6, <2>1, <2>2, <2>3, <2>4
<1>10. /\ gptr_val' = gptr_val /\ egptr_val' = p
       /\ cpc' \in {"update_get_area", "copy", "done"}
       /\ call' \in 1 .. Len(ReadSizes) + 1 /\ loop' \in 0 .. 1 /\ remaining' \in Nat
       /\ cpc' = "done" <=> call' = Len(ReadSizes) + 1
       /\ cpc' = "copy" => /\ remaining' \in 1 .. ReadSizes[call']
                           /\ gptr_val' + Copied' < egptr_val' /\ gptr_val # p
       /\ InCopy' = 0 /\ InCall' = 0
  <2>1. Proceed(gptr_val, p) /\ p \in Nat /\ gptr_val \in Nat
    BY <1>1, <1>3, <1>6 DEF Types
  <2> QED
    BY <1>2, <1>9, <2>1, ProceedFacts
<1>11. rlen' = rlen
  BY <1>2 DEF rlen
<1>12. ConsumerInv'
  <2>1. getReset' <=> m_total_reset' # 0 /\ viewPptr' >= 3
    BY <1>1, <1>2, <1>5, <1>8
  <2>2. egptr_val' = Store(m_total_reset', viewPptr').val
    BY <1>1, <1>5, <1>6, <1>10
  <2>3. /\ rlen' = (IF getReset' THEN First ELSE 0) + gptr_val' + InCopy'
        /\ m_total_read' = rlen' - InCall'
    BY <1>2, <1>3, <1>4, <1>10, <1>11 DEF Types
  <2>4. ~(cpc' \in {"store_last_gptr", "total_read"})
    BY <1>10
  <2> QED
    BY <1>10, <2>1, <2>2, <2>3, <2>4, Zenon DEF ConsumerInv
<1>13. PendingInv'
  <2> SUFFICES ASSUME m_total_reset # 0, ~getReset
               PROVE  rlen = First /\ cpc' # "copy"
    BY <1>2, <1>5, <1>11 DEF PendingInv
  <2>1. rlen = First
    BY DEF IndInv, PendingInv
  <2>2. gptr_val = First
    BY <1>3, <1>4, <2>1 DEF Types
  <2>3. p <= First
    BY <1>6, <1>8
  <2> QED
    BY <1>6, <1>9, <1>10, <2>1, <2>2, <2>3
<1>14. ResettingInv'
  <2>1. ppc' = ppc
    BY <1>2 DEF producerVars
  <2> QED
    BY <1>1, <1>2, <1>5, <1>8, <2>1 DEF IndInv, ResettingInv
<1>15. GptrInv'
  BY <1>2, <1>5, <1>10, <1>11, Zenon DEF IndInv, GptrInv
<1>16. TypeOK'
  <2>1. /\ viewPptr' \in 1 .. Len(m_last_pptr') /\ egptr_val' \in 0 .. BlockSize
        /\ gptr_val' \in 0 .. egptr_val'
    <3>1. viewPptr' = k /\ m_last_pptr' = m_last_pptr
      BY <1>1, <1>2, Zenon DEF producerVars
    <3>2. gptr_val \in Nat
      BY <1>3 DEF Types
    <3>3. egptr_val' \in 0 .. BlockSize /\ gptr_val' \in 0 .. egptr_val'
      BY <1>6, <1>9, <1>10, <3>2
    <3> QED
      BY <1>5, <3>1, <3>3, Zenon
  <2>2. cpc' \in {"update_get_area", "copy", "store_last_gptr", "total_read", "done"}
    BY <1>10
  <2> QED
    BY <1>2, <1>10, <2>1, <2>2, Zenon DEF IndInv, TypeOK, producerVars
<1>17. read_buffer' \in Seq(Nat) /\ BytesReadInOrder'
  BY <1>2, <1>11, Zenon DEF IndInv, BytesReadInOrder
<1> QED
  BY <1>2, <1>12, <1>13, <1>14, <1>15, <1>16, <1>17, ProducerFrame, Zenon DEF IndInv

\* A consumer that handles the reset, maybe for the second time, did read the first burst
\* and nothing after it.
LEMMA ResetHandledFacts ==
  ASSUME IndInv, cpc = "update_get_area", m_total_reset # 0, getReset => m_resetting
  PROVE  rlen = First
<1>1. CASE ~getReset
  BY <1>1 DEF IndInv, PendingInv
<1>2. CASE getReset
  <2>1. viewPptr >= 3 /\ viewPptr # 4
    BY <1>2 DEF IndInv, ConsumerInv, ResettingInv
  <2>2. viewPptr = 3 /\ m_total_reset = First
    BY <2>1, TypesHold DEF Types
  <2>3. egptr_val = Store(First, 3).val
    BY <2>2 DEF IndInv, ConsumerInv
  <2>4. egptr_val = 0
    BY <2>3, StoreFacts
  <2>5. gptr_val = 0
    BY <2>4, TypesHold DEF Types
  <2> QED
    BY <1>2, <2>5, AtUpdate, ConstantFacts
<1> QED
  BY <1>1, <1>2

LEMMA UpdateGetAreaResetStep ==
  ASSUME IndInv, Update_get_area_reset
  PROVE  IndInv'
<1> USE ConstantFacts
<1>1. PICK k \in viewPptr .. Len(m_last_pptr) :
        /\ m_last_pptr[k].reset /\ (getReset => m_resetting)
        /\ viewPptr' = k
        /\ m_resetting' \in (IF IsResetStore(k) THEN {FALSE, m_resetting} ELSE {FALSE})
        /\ Proceed(0, m_last_pptr[k].val)
  BY Zenon DEF Update_get_area_reset, GptrAfterReset
<1>2. /\ cpc = "update_get_area" /\ UNCHANGED producerVars /\ getReset' = TRUE
      /\ UNCHANGED <<read_buffer, m_total_read>> /\ m_last_gptr' = Append(m_last_gptr, 0)
  BY DEF Update_get_area_reset, GptrAfterReset
<1>3. Types
  BY TypesHold
<1>4. k \in 1 .. Len(m_last_pptr) /\ m_total_reset' = m_total_reset
  BY <1>2, KnownStore, Zenon DEF producerVars
<1> PICK p : p = m_last_pptr[k].val
  OBVIOUS
<1>5. /\ k \in 3 .. 4 /\ m_total_reset # 0 /\ p = Store(m_total_reset, k).val
      /\ p \in 0 .. BlockSize
      /\ k = 4 => ~IsResetStore(k)
  <2>1. /\ k \in 1 .. 4 /\ p = Store(m_total_reset, k).val /\ p \in 0 .. BlockSize
        /\ k = 1 => ~m_last_pptr[k].reset
        /\ k = 2 => ~m_last_pptr[k].reset
        /\ k = 3 /\ m_total_reset = 0 => ~m_last_pptr[k].reset
        /\ k = 4 => p = Second /\ m_total_reset = First
    BY <1>4, PptrFacts
  <2>2. k \in 3 .. 4 /\ m_total_reset # 0
    BY <1>1, <2>1
  <2>3. k = 4 => ~IsResetStore(k)
    BY <2>1 DEF IsResetStore
  <2> QED
    BY <2>1, <2>2, <2>3
<1>6. rlen = First /\ m_total_read = rlen
  BY <1>1, <1>2, <1>5, ResetHandledFacts, AtUpdate
<1>7. /\ gptr_val' = 0 /\ egptr_val' = p
      /\ cpc' \in {"update_get_area", "copy", "done"}
      /\ call' \in 1 .. Len(ReadSizes) + 1 /\ loop' \in 0 .. 1 /\ remaining' \in Nat
      /\ cpc' = "done" <=> call' = Len(ReadSizes) + 1
      /\ cpc' = "copy" => /\ remaining' \in 1 .. ReadSizes[call']
                          /\ gptr_val' + Copied' < egptr_val'
      /\ InCopy' = 0 /\ InCall' = 0
  <2>1. Proceed(0, p)
    BY <1>1, Zenon
  <2>2. p \in Nat /\ 0 \in Nat /\ 0 <= p
    BY <1>5
  <2> QED
    BY <1>2, <2>1, <2>2, ProceedFacts
<1>8. rlen' = rlen
  BY <1>2 DEF rlen
<1>9. ConsumerInv'
  <2>1. getReset' <=> m_total_reset' # 0 /\ viewPptr' >= 3
    BY <1>1, <1>2, <1>4, <1>5
  <2>2. egptr_val' = Store(m_total_reset', viewPptr').val
    BY <1>1, <1>4, <1>5, <1>7
  <2>3. /\ rlen' = (IF getReset' THEN First ELSE 0) + gptr_val' + InCopy'
        /\ m_total_read' = rlen' - InCall'
    <3>1. (IF getReset' THEN First ELSE 0) = First
      BY <1>2, Zenon
    <3>2. rlen' = First /\ m_total_read' = First /\ gptr_val' = 0 /\ InCopy' = 0 /\ InCall' = 0
      BY <1>2, <1>6, <1>7, <1>8, Zenon
    <3> QED
      BY <3>1, <3>2
  <2>4. ~(cpc' \in {"store_last_gptr", "total_read"})
    BY <1>7
  <2> QED
    BY <1>7, <2>1, <2>2, <2>3, <2>4, Zenon DEF ConsumerInv
<1>10. PendingInv'
  BY <1>2 DEF PendingInv
<1>11. ResettingInv' /\ m_resetting' \in BOOLEAN
  <2>1. m_resetting' \in {FALSE, m_resetting}
    BY <1>1, Zenon
  <2>2. k = 4 => ~m_resetting'
    <3>1. ~IsResetStore(k) => m_resetting' \in {FALSE}
      BY <1>1, Zenon
    <3>2. k = 4 => ~IsResetStore(k)
      BY <1>5, Zenon
    <3> QED
      BY <3>1, <3>2, Zenon
  <2>3. m_resetting' \in BOOLEAN
    BY <2>1, TypesOfParts, Zenon
  <2>4. ResettingInv'
    BY <1>1, <1>2, <1>4, <1>5, <2>2, Zenon DEF ResettingInv
  <2> QED
    BY <2>3, <2>4
<1>12. GptrInv' /\ viewGptr' \in 1 .. Len(m_last_gptr')
  <2>1. m_last_gptr \in Seq(Nat)
    BY DEF IndInv, GptrInv
  <2>2. PICK n \in Nat \ {0} : n = Len(m_last_gptr)
    BY <1>3 DEF Types
  <2>3. PICK q : q = m_last_gptr'
    OBVIOUS
  <2>4. q \in Seq(Nat) /\ Len(q) = n + 1 /\ q[n + 1] = 0
    BY <1>2, <2>1, <2>2, <2>3, AppendProperties
  <2>5. q # <<>>
    BY <2>2, <2>4, EmptySeq
  <2>6. viewGptr' \in 1 .. n + 1
    <3>1. viewGptr \in 1 .. n
      BY <1>3, <2>2, Zenon DEF Types
    <3>2. viewGptr' = viewGptr
      BY <1>2 DEF producerVars
    <3> QED
      BY <3>1, <3>2
  <2> QED
    BY <1>4, <1>5, <1>7, <2>3, <2>4, <2>5, <2>6 DEF GptrInv
<1>13. TypeOK'
  <2>1. /\ viewPptr' \in 1 .. Len(m_last_pptr') /\ egptr_val' \in 0 .. BlockSize
        /\ gptr_val' \in 0 .. egptr_val'
    <3>1. viewPptr' = k /\ m_last_pptr' = m_last_pptr
      BY <1>1, <1>2, Zenon DEF producerVars
    <3>2. egptr_val' \in 0 .. BlockSize /\ gptr_val' \in 0 .. egptr_val'
      BY <1>5, <1>7
    <3> QED
      BY <1>4, <3>1, <3>2, Zenon
  <2>2. cpc' \in {"update_get_area", "copy", "store_last_gptr", "total_read", "done"}
    BY <1>7
  <2>3. getReset' \in BOOLEAN
    BY <1>2
  <2> QED
    BY <1>2, <1>7, <1>11, <1>12, <2>1, <2>2, <2>3, Zenon DEF IndInv, TypeOK, producerVars
<1>14. read_buffer' \in Seq(Nat) /\ BytesReadInOrder'
  BY <1>2, <1>8, Zenon DEF IndInv, BytesReadInOrder
<1> QED
  BY <1>2, <1>9, <1>10, <1>11, <1>12, <1>13, <1>14, ProducerFrame, Zenon DEF IndInv

\* What the consumer knows of the put area of its generation was written.
LEMMA EgptrWritten ==
  ASSUME IndInv, m_total_reset = 0 \/ getReset
  PROVE  egptr_val <= pptr_val /\ m_total_reset = (IF getReset THEN First ELSE 0)
<1> USE ConstantFacts
<1> PICK r \in {0, First} : r = m_total_reset
  BY TypesHold DEF Types
<1>1. /\ viewPptr \in 1 .. 4 /\ viewPptr \in 1 .. Len(m_last_pptr) /\ burst \in 1 .. 3
      /\ pptr_val \in Nat
  BY TypesHold DEF Types
<1>2. Len(m_last_pptr) = IF r = 0 THEN burst ELSE burst + 1
  BY DEF IndInv, PptrInv
<1>3. /\ getReset <=> r # 0 /\ viewPptr >= 3
      /\ egptr_val = Store(r, viewPptr).val
  BY DEF IndInv, ConsumerInv
<1>4. viewPptr <= IF r = 0 THEN burst ELSE burst + 1
  BY <1>1, <1>2
<1>5. /\ burst = 2 /\ r = 0 => pptr_val >= First
      /\ burst = 3 => pptr_val = Total - r
  BY DEF IndInv, ProducerInv
<1>6. CASE r = 0
  <2>1. /\ viewPptr = 1 => egptr_val = 0
        /\ viewPptr = 2 => egptr_val = First
        /\ viewPptr = 3 => egptr_val = Total
    BY <1>3, <1>6, StoreFacts
  <2> QED
    BY <1>1, <1>3, <1>4, <1>5, <1>6, <2>1
<1>7. CASE r = First
  <2>1. /\ viewPptr = 3 => egptr_val = 0
        /\ viewPptr = 4 => egptr_val = Second
    BY <1>3, <1>7, StoreFacts
  <2>2. getReset /\ viewPptr >= 3
    BY <1>3, <1>7
  <2> QED
    BY <1>1, <1>3, <1>4, <1>5, <1>7, <2>1, <2>2
<1> QED
  BY <1>6, <1>7

\* The consumer copies the next byte.
LEMMA CopiedByte ==
  ASSUME IndInv, cpc = "copy"
  PROVE  /\ m_total_reset = 0 \/ getReset
         /\ buffer[From] = rlen + 1
         /\ rlen = (IF getReset THEN First ELSE 0) + gptr_val + Copied
         /\ m_total_read = rlen - Copied
         /\ remaining \in 1 .. ReadSizes[call] /\ gptr_val + Copied < egptr_val
<1> USE ConstantFacts
<1>1. m_total_reset = 0 \/ getReset
  BY DEF IndInv, PendingInv
<1>2. egptr_val <= pptr_val /\ m_total_reset = (IF getReset THEN First ELSE 0)
  BY <1>1, EgptrWritten
<1>3. InCopy = Copied /\ InCall = Copied
  BY DEF InCopy, InCall
<1>4. /\ rlen = (IF getReset THEN First ELSE 0) + gptr_val + Copied
      /\ m_total_read = rlen - Copied
      /\ remaining \in 1 .. ReadSizes[call] /\ gptr_val + Copied < egptr_val
  BY <1>3 DEF IndInv, ConsumerInv
<1>5. /\ ReadSizes[call] \in Nat /\ gptr_val \in Nat /\ egptr_val \in Nat
      /\ pptr_val \in Nat /\ put \in Nat /\ m_total_reset \in Nat
  BY CallFacts, TypesHold DEF Types
<1>6. Copied \in Nat
  <2>1. PICK s \in Nat : s = ReadSizes[call]
    BY <1>5
  <2>2. remaining \in 1 .. s
    BY <1>4, <2>1, Zenon
  <2>3. Copied = s - remaining
    BY <2>1 DEF Copied
  <2> QED
    BY <2>2, <2>3
<1>7. PICK f \in Nat : f = From
  BY <1>5, <1>6 DEF From
<1>8. f = gptr_val + Copied
  BY <1>7 DEF From
<1>9. f \in 0 .. pptr_val + put - 1 /\ m_total_reset + f + 1 = rlen + 1
  BY <1>2, <1>4, <1>5, <1>6, <1>8
<1>10. buffer[f] = m_total_reset + f + 1
  BY <1>9 DEF IndInv, BufferInv
<1> QED
  BY <1>1, <1>4, <1>7, <1>9, <1>10

LEMMA CopyStep ==
  ASSUME IndInv, Copy
  PROVE  IndInv'
<1> USE ConstantFacts
<1>1. /\ cpc = "copy" /\ UNCHANGED producerVars
      /\ UNCHANGED <<call, loop, egptr_val, viewPptr, getReset, m_last_gptr, m_total_read,
                     m_resetting>>
      /\ read_buffer' = Append(read_buffer, buffer[From]) /\ remaining' = remaining - 1
      /\ \/ /\ remaining = 1 \/ gptr_val + Copied + 1 = egptr_val
            /\ gptr_val' = gptr_val + Copied + 1 /\ cpc' = "store_last_gptr"
         \/ /\ remaining # 1 /\ gptr_val + Copied + 1 # egptr_val
            /\ gptr_val' = gptr_val /\ cpc' = cpc
  BY DEF Copy
<1>2. /\ m_total_reset = 0 \/ getReset
      /\ buffer[From] = rlen + 1
      /\ rlen = (IF getReset THEN First ELSE 0) + gptr_val + Copied
      /\ m_total_read = rlen - Copied
      /\ remaining \in 1 .. ReadSizes[call] /\ gptr_val + Copied < egptr_val
  BY <1>1, CopiedByte
<1>3. /\ ReadSizes[call] \in Nat /\ gptr_val \in Nat /\ egptr_val \in Nat /\ rlen \in Nat
      /\ call \in 1 .. Len(ReadSizes) /\ m_total_reset' = m_total_reset
  BY <1>1, CallFacts, TypesHold DEF Types, producerVars
<1>4. /\ Copied \in Nat /\ Copied' = Copied + 1 /\ remaining' \in 0 .. ReadSizes[call] - 1
      /\ remaining # 1 => remaining' >= 1
  <2>1. PICK s \in Nat : s = ReadSizes[call]
    BY <1>3
  <2>2. remaining \in 1 .. s
    BY <1>2, <2>1, Zenon
  <2>3. Copied = s - remaining /\ Copied' = s - remaining'
    BY <1>1, <2>1, Zenon DEF Copied
  <2>4. remaining' = remaining - 1
    BY <1>1
  <2>5. /\ Copied \in Nat /\ Copied' = Copied + 1 /\ remaining' \in 0 .. s - 1
        /\ remaining # 1 => remaining' >= 1
    BY <2>2, <2>3, <2>4
  <2> QED
    BY <2>1, <2>5, Zenon
<1>5. read_buffer' \in Seq(Nat) /\ rlen' = rlen + 1 /\ BytesReadInOrder'
  <2>1. read_buffer \in Seq(Nat) /\ \A i \in 1 .. rlen : read_buffer[i] = i
    BY DEF IndInv, BytesReadInOrder
  <2>2. PICK n \in Nat : n = Len(read_buffer)
    BY <2>1, LenProperties
  <2>3. PICK v \in Nat : v = n + 1
    OBVIOUS
  <2>4. PICK q : q = read_buffer'
    OBVIOUS
  <2>5. q = Append(read_buffer, v)
    BY <1>1, <1>2, <2>2, <2>3, <2>4 DEF rlen
  <2>6. /\ q \in Seq(Nat) /\ Len(q) = n + 1 /\ q[n + 1] = v
        /\ \A i \in 1 .. n : q[i] = read_buffer[i]
    BY <2>1, <2>2, <2>5, AppendProperties
  <2>7. \A i \in 1 .. n : q[i] = i
    BY <2>1, <2>2, <2>6 DEF rlen
  <2>8. \A i \in 1 .. n + 1 : q[i] = i
    BY <2>3, <2>6, <2>7
  <2> QED
    BY <2>2, <2>4, <2>6, <2>8 DEF rlen, BytesReadInOrder
<1>6. egptr_val' = Store(m_total_reset', viewPptr').val
  BY <1>1, <1>3, Zenon DEF IndInv, ConsumerInv
<1>7. getReset' <=> m_total_reset' # 0 /\ viewPptr' >= 3
  BY <1>1, <1>3, Zenon DEF IndInv, ConsumerInv
<1>8. ConsumerInv' /\ gptr_val' \in 0 .. egptr_val'
  <2>1. CASE gptr_val' = gptr_val + Copied + 1 /\ cpc' = "store_last_gptr"
    <3>1. InCopy' = 0 /\ InCall' = Copied'
      BY <2>1 DEF InCopy, InCall
    <3>2. /\ rlen' = (IF getReset' THEN First ELSE 0) + gptr_val' + InCopy'
          /\ m_total_read' = rlen' - InCall'
      BY <1>1, <1>2, <1>3, <1>4, <1>5, <2>1, <3>1
    <3>3. call' # Len(ReadSizes) + 1 /\ remaining' \in 0 .. ReadSizes[call'] - 1
      BY <1>1, <1>3, <1>4
    <3>4. gptr_val' \in 0 .. egptr_val'
      BY <1>1, <1>2, <1>3, <1>4, <2>1
    <3> QED
      BY <1>6, <1>7, <2>1, <3>2, <3>3, <3>4 DEF ConsumerInv
  <2>2. CASE /\ remaining # 1 /\ gptr_val + Copied + 1 # egptr_val
             /\ gptr_val' = gptr_val /\ cpc' = cpc
    <3>1. InCopy' = Copied' /\ InCall' = Copied'
      BY <1>1, <2>2 DEF InCopy, InCall
    <3>2. /\ rlen' = (IF getReset' THEN First ELSE 0) + gptr_val' + InCopy'
          /\ m_total_read' = rlen' - InCall'
      BY <1>1, <1>2, <1>3, <1>4, <1>5, <2>2, <3>1
    <3>3. call' # Len(ReadSizes) + 1 /\ remaining' \in 1 .. ReadSizes[call']
      BY <1>1, <1>3, <1>4, <2>2
    <3>4. gptr_val' + Copied' < egptr_val' /\ gptr_val' \in 0 .. egptr_val'
      BY <1>1, <1>2, <1>3, <1>4, <2>2
    <3> QED
      BY <1>1, <1>6, <1>7, <2>2, <3>2, <3>3, <3>4 DEF ConsumerInv
  <2> QED
    BY <1>1, <2>1, <2>2
<1>9. PendingInv'
  BY <1>1, <1>2, <1>3 DEF PendingInv
<1>10. ResettingInv'
  BY <1>1, Zenon DEF IndInv, ResettingInv, producerVars
<1>11. GptrInv'
  <2>1. m_last_gptr' \in Seq(Nat) /\ m_last_gptr' # <<>>
    BY <1>1, Zenon DEF IndInv, GptrInv
  <2>2. cpc' # "store_last_gptr" => m_last_gptr'[Len(m_last_gptr')] = gptr_val'
    BY <1>1, Zenon DEF IndInv, GptrInv
  <2>3. m_total_reset = 0 => \A k \in 1 .. Len(m_last_gptr) : m_last_gptr[k] <= rlen
    BY DEF IndInv, GptrInv
  <2>4. \A k \in 1 .. Len(m_last_gptr) : m_last_gptr[k] \in Nat
    BY ElementOfSeq DEF IndInv, GptrInv
  <2>5. m_total_reset = 0 => \A k \in 1 .. Len(m_last_gptr) : m_last_gptr[k] <= rlen + 1
    BY <1>3, <2>3, <2>4
  <2> QED
    BY <1>1, <1>3, <1>5, <2>1, <2>2, <2>5, Zenon DEF GptrInv
<1>12. TypeOK'
  <2>1. /\ remaining' \in Nat
        /\ cpc' \in {"update_get_area", "copy", "store_last_gptr", "total_read", "done"}
    BY <1>1, <1>3, <1>4
  <2> QED
    BY <1>1, <1>8, <2>1, Zenon DEF IndInv, TypeOK, producerVars
<1> QED
  BY <1>1, <1>5, <1>8, <1>9, <1>10, <1>11, <1>12, ProducerFrame, Zenon DEF IndInv

LEMMA StoreLastGptrStep ==
  ASSUME IndInv, Store_last_gptr
  PROVE  IndInv'
<1> USE ConstantFacts
<1>1. /\ cpc = "store_last_gptr" /\ cpc' = "total_read" /\ UNCHANGED producerVars
      /\ m_last_gptr' = Append(m_last_gptr, gptr_val)
      /\ UNCHANGED <<call, loop, remaining, gptr_val, egptr_val, viewPptr, getReset,
                     read_buffer, m_total_read, m_resetting>>
  BY DEF Store_last_gptr, Passed
<1>2. m_total_reset' = m_total_reset /\ rlen' = rlen
  BY <1>1 DEF producerVars, rlen
<1>3. /\ InCopy = 0 /\ InCopy' = 0 /\ InCall = Copied /\ InCall' = Copied'
      /\ Copied' = Copied
  BY <1>1 DEF InCopy, InCall, Copied
<1>4. ConsumerInv'
  <2>1. /\ rlen' = (IF getReset' THEN First ELSE 0) + gptr_val' + InCopy'
        /\ m_total_read' = rlen' - InCall'
    BY <1>1, <1>2, <1>3, Zenon DEF IndInv, ConsumerInv
  <2>2. /\ getReset' <=> m_total_reset' # 0 /\ viewPptr' >= 3
        /\ egptr_val' = Store(m_total_reset', viewPptr').val
    BY <1>1, <1>2, Zenon DEF IndInv, ConsumerInv
  <2>3. call' # Len(ReadSizes) + 1 /\ remaining' \in 0 .. ReadSizes[call'] - 1
    BY <1>1, Zenon DEF IndInv, ConsumerInv
  <2> QED
    BY <1>1, <2>1, <2>2, <2>3 DEF ConsumerInv
<1>5. PendingInv'
  BY <1>1, <1>2 DEF IndInv, PendingInv
<1>6. ResettingInv'
  BY <1>1, Zenon DEF IndInv, ResettingInv, producerVars
<1>7. GptrInv' /\ viewGptr' \in 1 .. Len(m_last_gptr')
  <2>1. /\ m_last_gptr \in Seq(Nat)
        /\ m_total_reset = 0 => \A k \in 1 .. Len(m_last_gptr) : m_last_gptr[k] <= rlen
    BY DEF IndInv, GptrInv
  <2>2. PICK n \in Nat \ {0} : n = Len(m_last_gptr)
    BY TypesHold DEF Types
  <2>3. PICK q : q = m_last_gptr'
    OBVIOUS
  <2>4. PICK g \in Nat : g = gptr_val
    BY TypesHold DEF Types
  <2>5. /\ q \in Seq(Nat) /\ Len(q) = n + 1 /\ q[n + 1] = g
        /\ \A k \in 1 .. n : q[k] = m_last_gptr[k]
    BY <1>1, <2>1, <2>2, <2>3, <2>4, AppendProperties
  <2>6. q # <<>>
    BY <2>2, <2>5, EmptySeq
  <2>7. viewGptr' \in 1 .. n + 1
    <3>1. viewGptr \in 1 .. n
      BY <2>2, TypesHold, Zenon DEF Types
    <3>2. viewGptr' = viewGptr
      BY <1>1 DEF producerVars
    <3> QED
      BY <3>1, <3>2
  <2>8. m_total_reset = 0 => g <= rlen
    <3>1. rlen = (IF getReset THEN First ELSE 0) + gptr_val + InCopy
      BY DEF IndInv, ConsumerInv
    <3>2. rlen \in Nat
      BY TypesHold DEF Types
    <3> QED
      BY <1>3, <2>4, <3>1, <3>2
  <2>9. m_total_reset = 0 => \A k \in 1 .. n + 1 : q[k] <= rlen
    <3>1. ASSUME m_total_reset = 0, NEW k \in 1 .. n + 1
          PROVE  q[k] <= rlen
      <4>1. CASE k = n + 1
        BY <2>5, <2>8, <3>1, <4>1
      <4>2. CASE k \in 1 .. n
        BY <2>1, <2>2, <2>5, <3>1, <4>2, Zenon
      <4> QED
        BY <4>1, <4>2
    <3> QED
      BY <3>1
  <2> QED
    BY <1>1, <1>2, <2>3, <2>4, <2>5, <2>6, <2>7, <2>9 DEF GptrInv
<1>8. TypeOK'
  BY <1>1, <1>7, Zenon DEF IndInv, TypeOK, producerVars
<1>9. read_buffer' \in Seq(Nat) /\ BytesReadInOrder'
  BY <1>1, <1>2, Zenon DEF IndInv, BytesReadInOrder
<1> QED
  BY <1>1, <1>4, <1>5, <1>6, <1>7, <1>8, <1>9, ProducerFrame, Zenon DEF IndInv

LEMMA IncrementTotalReadStep ==
  ASSUME IndInv, Increment_total_read
  PROVE  IndInv'
<1> USE ConstantFacts
<1>1. /\ cpc = "total_read" /\ UNCHANGED producerVars /\ NextCall
      /\ m_total_read' = m_total_read + Copied
      /\ UNCHANGED <<remaining, gptr_val, egptr_val, viewPptr, getReset, read_buffer,
                     m_last_gptr, m_resetting>>
  BY DEF Increment_total_read
<1>2. m_total_reset' = m_total_reset /\ rlen' = rlen
  BY <1>1 DEF producerVars, rlen
<1>3. /\ cpc' \in {"update_get_area", "done"}
      /\ call' \in 1 .. Len(ReadSizes) + 1 /\ loop' \in 0 .. 1
      /\ cpc' = "done" <=> call' = Len(ReadSizes) + 1
  BY <1>1, NextCallFacts
<1>4. InCopy = 0 /\ InCopy' = 0 /\ InCall = Copied /\ InCall' = 0
  BY <1>1, <1>3 DEF InCopy, InCall
<1>5. ConsumerInv'
  <2>1. rlen' = (IF getReset' THEN First ELSE 0) + gptr_val' + InCopy'
    BY <1>1, <1>2, <1>4, Zenon DEF IndInv, ConsumerInv
  <2>2. m_total_read' = rlen' - InCall'
    <3>1. m_total_read = rlen - Copied
      BY <1>4 DEF IndInv, ConsumerInv
    <3>2. rlen \in Nat /\ Copied \in Int
      BY <1>1, TypesHold, CallFacts DEF Types
    <3> QED
      BY <1>1, <1>2, <1>4, <3>1, <3>2
  <2>3. /\ getReset' <=> m_total_reset' # 0 /\ viewPptr' >= 3
        /\ egptr_val' = Store(m_total_reset', viewPptr').val
    BY <1>1, <1>2, Zenon DEF IndInv, ConsumerInv
  <2>4. cpc' # "copy" /\ ~(cpc' \in {"store_last_gptr", "total_read"})
    BY <1>3
  <2> QED
    BY <1>3, <2>1, <2>2, <2>3, <2>4, Zenon DEF ConsumerInv
<1>6. PendingInv'
  BY <1>1, <1>2, <1>3 DEF IndInv, PendingInv
<1>7. ResettingInv'
  BY <1>1, Zenon DEF IndInv, ResettingInv, producerVars
<1>8. GptrInv'
  BY <1>1, <1>2, Zenon DEF IndInv, GptrInv
<1>9. TypeOK'
  <2>1. cpc' \in {"update_get_area", "copy", "store_last_gptr", "total_read", "done"}
    BY <1>3
  <2> QED
    BY <1>1, <1>3, <2>1, Zenon DEF IndInv, TypeOK, producerVars
<1>10. read_buffer' \in Seq(Nat) /\ BytesReadInOrder'
  BY <1>1, <1>2, Zenon DEF IndInv, BytesReadInOrder
<1> QED
  BY <1>1, <1>5, <1>6, <1>7, <1>8, <1>9, <1>10, ProducerFrame, Zenon DEF IndInv

-----------------------------------------------------------------------------
(* The invariant holds initially and every step preserves it.              *)

LEMMA InitIndInv ==
  ASSUME Init
  PROVE  IndInv
<1> USE ConstantFacts
<1>1. /\ ppc = "update_put_area" /\ burst = 1 /\ put = 0 /\ pptr_val = 0
      /\ m_total_reset = 0 /\ viewGptr = 1
      /\ cpc = "update_get_area" /\ call = 1 /\ loop = 0 /\ remaining = 0
      /\ gptr_val = 0 /\ egptr_val = 0 /\ viewPptr = 1 /\ read_buffer = <<>>
      /\ m_total_read = 0 /\ m_last_gptr = <<0>>
  BY DEF Init
<1>2. ~getReset /\ ~m_resetting /\ getReset \in BOOLEAN /\ m_resetting \in BOOLEAN
  BY Zenon DEF Init
<1>3. read_buffer \in Seq(Nat) /\ rlen = 0
  BY <1>1 DEF rlen
<1>4. ProducerInv
  BY <1>1 DEF ProducerInv
<1>5. PptrInv /\ Len(m_last_pptr) = 1
  <2>1. PICK s : s = [val |-> 0, reset |-> FALSE]
    OBVIOUS
  <2>2. s \in [val: Nat, reset: BOOLEAN] /\ s = Store(0, 1)
    BY <2>1, StoreFacts
  <2>3. m_last_pptr = <<s>>
    BY <2>1 DEF Init
  <2>4. /\ m_last_pptr \in Seq([val: Nat, reset: BOOLEAN])
        /\ Len(m_last_pptr) = 1 /\ m_last_pptr[1] = s
    BY <2>2, <2>3
  <2>5. \A k \in 1 .. 1 : k = 1
    OBVIOUS
  <2>6. \A k \in 1 .. Len(m_last_pptr) : m_last_pptr[k] = Store(m_total_reset, k)
    BY <1>1, <2>2, <2>4, <2>5, Zenon
  <2> QED
    BY <1>1, <2>4, <2>6 DEF PptrInv
<1>6. BufferInv
  <2>1. buffer \in [0 .. BlockSize - 1 -> Nat]
    BY DEF Init, NoByte
  <2> QED
    BY <1>1, <2>1 DEF BufferInv
<1>7. ResettingInv
  BY <1>1, <1>2 DEF ResettingInv
<1>8. InCopy = 0 /\ InCall = 0
  BY <1>1 DEF InCopy, InCall
<1>9. ConsumerInv
  BY <1>1, <1>2, <1>3, <1>8, StoreFacts DEF ConsumerInv
<1>10. PendingInv
  BY <1>1 DEF PendingInv
<1>11. GptrInv /\ Len(m_last_gptr) = 1
  BY <1>1, <1>3 DEF GptrInv
<1>12. TypeOK
  <2>1. /\ burst \in 1 .. Len(Bursts) + 1 /\ call \in 1 .. Len(ReadSizes) + 1 /\ loop \in 0 .. 1
        /\ put \in 0 .. BlockSize /\ remaining \in Nat
        /\ pptr_val \in 0 .. BlockSize
        /\ egptr_val \in 0 .. BlockSize /\ gptr_val \in 0 .. egptr_val
        /\ viewGptr \in 1 .. Len(m_last_gptr) /\ viewPptr \in 1 .. Len(m_last_pptr)
    BY <1>1, <1>5, <1>11
  <2> QED
    BY <1>1, <1>2, <2>1, Zenon DEF TypeOK
<1>13. BytesReadInOrder
  BY <1>3 DEF BytesReadInOrder
<1> QED
  BY <1>3, <1>4, <1>5, <1>6, <1>7, <1>9, <1>10, <1>11, <1>12, <1>13, Zenon DEF IndInv

LEMMA StutterIndInv ==
  ASSUME IndInv, UNCHANGED vars
  PROVE  IndInv'
<1>1. UNCHANGED producerVars /\ UNCHANGED consumerVars /\ m_resetting' = m_resetting
  BY Zenon DEF vars
<1>2. m_total_reset' = m_total_reset
  BY <1>1 DEF producerVars
<1>3. TypeOK'
  BY <1>1, Zenon DEF IndInv, TypeOK, producerVars, consumerVars
<1>4. ResettingInv'
  BY <1>1, Zenon DEF IndInv, ResettingInv, producerVars, consumerVars
<1> QED
  BY <1>1, <1>2, <1>3, <1>4, ProducerFrame, ConsumerFrame, Zenon DEF IndInv

LEMMA NextIndInv ==
  ASSUME IndInv, [Next]_vars
  PROVE  IndInv'
<1>1. CASE Producer
  BY <1>1, UpdatePutAreaStep, SetResettingStep, WriteStep, SyncStep, Zenon DEF Producer
<1>2. CASE Consumer
  BY <1>2, UpdateGetAreaStep, UpdateGetAreaResetStep, CopyStep, StoreLastGptrStep,
     IncrementTotalReadStep, Zenon DEF Consumer
<1>3. CASE Main_joined \/ UNCHANGED vars
  BY <1>3, StutterIndInv, Zenon DEF Main_joined
<1> QED
  BY <1>1, <1>2, <1>3, Zenon DEF Next

-----------------------------------------------------------------------------
(* The first call.                                                         *)

\* The second call starts when the first one returns and only then.
LEMMA AfterFirstCall ==
  ASSUME IndInv, call # 1, Consumer
  PROVE  call' # 1 /\ ~(call' = 2 /\ cpc' = "update_get_area" /\ loop' = 0)
<1>1. call \in Nat /\ call >= 2 /\ loop \in 0 .. 1
  <2>1. PICK n \in Nat : n = Len(ReadSizes)
    BY ConstantFacts
  <2>2. call \in 1 .. n + 1 /\ loop \in 0 .. 1
    BY <2>1, TypesHold, Zenon DEF Types
  <2> QED
    BY <2>2
<1>2. CASE NextCall
  BY <1>1, <1>2 DEF NextCall
<1>3. CASE call' = call /\ (cpc' # "update_get_area" \/ loop' = 1)
  BY <1>1, <1>3
<1>4. ASSUME NEW g, NEW p, Proceed(g, p)
      PROVE  NextCall \/ (call' = call /\ (cpc' # "update_get_area" \/ loop' = 1))
  BY <1>4 DEF Proceed
<1>5. CASE Update_get_area
  BY <1>2, <1>3, <1>4, <1>5, Zenon DEF Update_get_area
<1>6. CASE Update_get_area_reset
  BY <1>2, <1>3, <1>4, <1>6, Zenon DEF Update_get_area_reset
<1>7. CASE Copy
  BY <1>3, <1>7 DEF Copy
<1>8. CASE Store_last_gptr
  BY <1>3, <1>8 DEF Store_last_gptr
<1>9. CASE Increment_total_read
  BY <1>2, <1>9 DEF Increment_total_read
<1> QED
  BY <1>5, <1>6, <1>7, <1>8, <1>9 DEF Consumer

LEMMA FirstUpdate ==
  ASSUME IndInv, FirstInv, call = 1, Update_get_area
  PROVE  FirstInv'
<1> USE ConstantFacts
<1>1. PICK k \in viewPptr .. Len(m_last_pptr) :
        /\ ~m_last_pptr[k].reset \/ (getReset /\ (m_resetting => IsResetStore(k)))
        /\ viewPptr' = k /\ Proceed(gptr_val, m_last_pptr[k].val)
  BY Zenon DEF Update_get_area
<1>2. cpc = "update_get_area" /\ UNCHANGED <<getReset, read_buffer>> /\ rlen' = rlen
  BY DEF Update_get_area, rlen
<1>3. ~getReset /\ rlen = 0
  BY <1>2 DEF FirstInv
<1>4. gptr_val = 0
  BY <1>2, <1>3, AtUpdate, TypesHold DEF Types
<1> PICK p : p = m_last_pptr[k].val
  OBVIOUS
<1>5. p = 0 \/ p >= First
  <2>1. k \in 1 .. Len(m_last_pptr)
    BY KnownStore
  <2>2. /\ k \in 1 .. 4
        /\ k = 1 => p = 0
        /\ k = 2 => p = First
        /\ k = 3 /\ m_total_reset = 0 => p = Total
        /\ k = 3 /\ m_total_reset # 0 => p = 0
        /\ k = 4 => m_last_pptr[k].reset
    BY <2>1, PptrFacts
  <2> QED
    BY <1>1, <1>3, <2>2
<1>6. Proceed(0, p)
  BY <1>1, <1>4, Zenon
<1>7. gptr_val' = 0 /\ egptr_val' = p
  BY <1>6 DEF Proceed
<1>8. \/ p # 0 /\ cpc' = "copy" /\ call' = 1
      \/ cpc' = "update_get_area" /\ call' = 1
      \/ call' = 2
  BY <1>2, <1>6 DEF Proceed, NextCall
<1> QED
  BY <1>2, <1>3, <1>5, <1>7, <1>8 DEF FirstInv, FirstCallAllOrNothing

LEMMA FirstUpdateReset ==
  ASSUME IndInv, FirstInv, call = 1, Update_get_area_reset
  PROVE  FALSE
<1> USE ConstantFacts
<1>1. PICK k \in viewPptr .. Len(m_last_pptr) :
        m_last_pptr[k].reset /\ (getReset => m_resetting)
  BY Zenon DEF Update_get_area_reset
<1>2. cpc = "update_get_area"
  BY DEF Update_get_area_reset
<1>3. rlen = 0
  BY <1>2 DEF FirstInv
<1>4. k \in 1 .. Len(m_last_pptr)
  BY KnownStore
<1>5. /\ k \in 1 .. 4
      /\ k = 1 => ~m_last_pptr[k].reset
      /\ k = 2 => ~m_last_pptr[k].reset
      /\ k = 3 /\ m_total_reset = 0 => ~m_last_pptr[k].reset
      /\ k = 4 => m_total_reset = First
  BY <1>4, PptrFacts
<1>6. m_total_reset # 0
  BY <1>1, <1>5
<1>7. rlen = First
  BY <1>1, <1>2, <1>6, ResetHandledFacts
<1> QED
  BY <1>3, <1>7

LEMMA FirstCopy ==
  ASSUME IndInv, FirstInv, call = 1, Copy, ReadSizes[1] = Bursts[1]
  PROVE  FirstInv'
<1> USE ConstantFacts
<1>1. /\ cpc = "copy" /\ UNCHANGED <<call, loop, egptr_val, getReset>>
      /\ read_buffer' = Append(read_buffer, buffer[From])
      /\ \/ /\ remaining = 1 \/ gptr_val + Copied + 1 = egptr_val
            /\ gptr_val' = gptr_val + Copied + 1 /\ cpc' = "store_last_gptr"
         \/ gptr_val' = gptr_val /\ cpc' = cpc
  BY DEF Copy
<1>2. ~getReset /\ gptr_val = 0 /\ egptr_val >= First
  BY <1>1 DEF FirstInv
<1>3. /\ rlen = (IF getReset THEN First ELSE 0) + gptr_val + Copied
      /\ remaining \in 1 .. First
  BY <1>1, CopiedByte
<1>4. Copied = First - remaining
  BY DEF Copied
<1>5. rlen' = rlen + 1
  BY DEF IndInv, Copy, rlen
<1>6. CASE cpc' = "store_last_gptr" /\ (remaining = 1 \/ gptr_val + Copied + 1 = egptr_val)
  <2>1. rlen' = First
    BY <1>2, <1>3, <1>4, <1>5, <1>6, TypesHold DEF Types
  <2> QED
    BY <1>1, <1>2, <1>6, <2>1 DEF FirstInv, FirstCallAllOrNothing
<1>7. CASE gptr_val' = gptr_val /\ cpc' = cpc
  BY <1>1, <1>2, <1>7 DEF FirstInv, FirstCallAllOrNothing
<1> QED
  BY <1>1, <1>6, <1>7

LEMMA FirstStoreLastGptr ==
  ASSUME IndInv, FirstInv, call = 1, Store_last_gptr
  PROVE  FirstInv'
<1>1. /\ cpc = "store_last_gptr" /\ cpc' = "total_read"
      /\ UNCHANGED <<call, getReset, read_buffer>> /\ rlen' = rlen
  BY DEF Store_last_gptr, rlen
<1>2. ~getReset /\ rlen = First
  BY <1>1 DEF FirstInv
<1> QED
  BY <1>1, <1>2 DEF FirstInv, FirstCallAllOrNothing

LEMMA FirstTotalRead ==
  ASSUME IndInv, FirstInv, call = 1, Increment_total_read
  PROVE  FirstInv'
<1> USE ConstantFacts
<1>1. /\ cpc = "total_read" /\ call' = 2 /\ UNCHANGED <<gptr_val, read_buffer>> /\ rlen' = rlen
  BY DEF Increment_total_read, NextCall, rlen
<1>2. ~getReset /\ rlen = First
  BY <1>1 DEF FirstInv
<1>3. InCopy = 0
  BY <1>1 DEF InCopy
<1>4. gptr_val = First
  <2>1. rlen = (IF getReset THEN First ELSE 0) + gptr_val + InCopy
    BY DEF IndInv, ConsumerInv
  <2>2. gptr_val \in Nat
    BY TypesHold DEF Types
  <2> QED
    BY <1>2, <1>3, <2>1, <2>2
<1> QED
  BY <1>1, <1>2, <1>4 DEF FirstInv, FirstCallAllOrNothing

LEMMA NextFirstInv ==
  ASSUME IndInv, FirstInv, [Next]_vars, ReadSizes[1] = Bursts[1]
  PROVE  FirstInv'
<1>1. CASE UNCHANGED consumerVars
  <2>1. rlen' = rlen
    BY <1>1 DEF consumerVars, rlen
  <2> QED
    BY <1>1, <2>1, Zenon DEF FirstInv, FirstCallAllOrNothing, consumerVars
<1>2. CASE Consumer /\ call = 1
  <2>1. CASE Update_get_area
    BY <1>2, <2>1, FirstUpdate
  <2>2. CASE Update_get_area_reset
    BY <1>2, <2>2, FirstUpdateReset
  <2>3. CASE Copy
    BY <1>2, <2>3, FirstCopy
  <2>4. CASE Store_last_gptr
    BY <1>2, <2>4, FirstStoreLastGptr
  <2>5. CASE Increment_total_read
    BY <1>2, <2>5, FirstTotalRead
  <2> QED
    BY <1>2, <2>1, <2>2, <2>3, <2>4, <2>5, Zenon DEF Consumer
<1>3. CASE Consumer /\ call # 1
  BY <1>3, AfterFirstCall, Zenon DEF FirstInv, FirstCallAllOrNothing
<1>4. Producer => UNCHANGED consumerVars
  BY Zenon DEF Producer, Update_put_area, Set_resetting, Write, Sync_egptr
<1>5. Main_joined \/ UNCHANGED vars => UNCHANGED consumerVars
  BY Zenon DEF Main_joined, vars
<1> QED
  BY <1>1, <1>2, <1>3, <1>4, <1>5, Zenon DEF Next

-----------------------------------------------------------------------------
(* What the invariant says about the buffer.                               *)

\* The producer reset the buffer after the first burst was read.
LEMMA ResetWasRead ==
  ASSUME IndInv
  PROVE  m_total_reset <= rlen
<1> USE ConstantFacts
<1>1. m_total_reset \in {0, First} /\ rlen \in Nat /\ gptr_val \in Nat
  BY TypesHold DEF Types
<1>2. CASE m_total_reset = 0
  BY <1>1, <1>2
<1>3. CASE m_total_reset # 0 /\ ~getReset
  BY <1>1, <1>3 DEF IndInv, PendingInv
<1>4. CASE m_total_reset # 0 /\ getReset
  <2>1. rlen = First + gptr_val + InCopy
    BY <1>4 DEF IndInv, ConsumerInv
  <2>2. InCopy \in Nat
    <3>1. CASE cpc = "copy"
      <4>1. PICK s \in Nat : s = ReadSizes[call]
        BY <3>1, CallFacts
      <4>2. remaining \in 1 .. s
        BY <3>1, <4>1, Zenon DEF IndInv, ConsumerInv
      <4>3. InCopy = s - remaining
        BY <3>1, <4>1 DEF InCopy, Copied
      <4> QED
        BY <4>2, <4>3
    <3>2. CASE cpc # "copy"
      BY <3>2 DEF InCopy
    <3> QED
      BY <3>1, <3>2
  <2> QED
    BY <1>1, <1>4, <2>1, <2>2
<1> QED
  BY <1>2, <1>3, <1>4

LEMMA UnreadIsInBuffer ==
  ASSUME IndInv
  PROVE  NothingUnreadIsOverwritten
<1> USE ConstantFacts
<1>1. m_total_reset <= rlen
  BY ResetWasRead
<1>2. m_total_reset \in Nat /\ rlen \in Nat /\ pptr_val \in Nat /\ put \in Nat
  BY TypesHold DEF Types
<1>3. ASSUME NEW i \in rlen + 1 .. m_total_reset + pptr_val
      PROVE  buffer[i - (IF i > m_total_reset THEN m_total_reset ELSE 0) - 1] = i
  <2>1. i \in Nat /\ i > m_total_reset
    BY <1>1, <1>2
  <2>2. PICK j \in Int : j = i - m_total_reset - 1
    BY <1>2, <2>1
  <2>3. j \in 0 .. pptr_val + put - 1 /\ m_total_reset + j + 1 = i
    BY <1>1, <1>2, <2>1, <2>2
  <2>4. buffer[j] = m_total_reset + j + 1
    BY <2>3 DEF IndInv, BufferInv
  <2>5. i - (IF i > m_total_reset THEN m_total_reset ELSE 0) - 1 = j
    BY <2>1, <2>2
  <2> QED
    BY <2>3, <2>4, <2>5
<1> QED
  BY <1>1, <1>3 DEF NothingUnreadIsOverwritten

LEMMA JoinedStatesAgree ==
  ASSUME IndInv
  PROVE  FinalStatesAgree
<1> USE ConstantFacts
<1> SUFFICES ASSUME Joined
             PROVE  /\ m_last_pptr[Len(m_last_pptr)].val = pptr_val
                    /\ m_last_gptr[Len(m_last_gptr)] = gptr_val
                    /\ pptr_val - gptr_val = Total - rlen \/ m_resetting
                    /\ get_data_size = Total - rlen
                    /\ m_total_reset = 0 \/ (m_total_reset = Bursts[1] /\ rlen >= Bursts[1])
                    /\ m_total_reset = 0 => ~m_resetting
                    /\ rlen = Total => gptr_val = Total - m_total_reset
  BY DEF FinalStatesAgree
<1>1. ppc = "done" /\ cpc = "done"
  BY DEF Joined
<1>2. /\ m_total_reset \in {0, First} /\ rlen \in Nat /\ gptr_val \in Nat
      /\ pptr_val \in Nat
  BY TypesHold DEF Types
<1>3. burst = 3 /\ pptr_val = Total - m_total_reset
  BY <1>1 DEF IndInv, ProducerInv
<1>4. m_last_pptr[Len(m_last_pptr)].val = pptr_val
  <2>1. Len(m_last_pptr) = IF m_total_reset = 0 THEN 3 ELSE 4
    BY <1>3 DEF IndInv, PptrInv
  <2>2. PICK n \in 3 .. 4 : n = Len(m_last_pptr)
    BY <2>1
  <2>3. n \in 1 .. Len(m_last_pptr)
    BY <2>2
  <2>4. /\ n = 3 /\ m_total_reset = 0 => m_last_pptr[n].val = Total
        /\ n = 4 => m_last_pptr[n].val = Second
    BY <2>3, PptrFacts
  <2>5. m_last_pptr[n].val = pptr_val
    BY <1>2, <1>3, <2>1, <2>2, <2>4
  <2> QED
    BY <2>2, <2>5
<1>5. m_last_gptr[Len(m_last_gptr)] = gptr_val
  BY <1>1 DEF IndInv, GptrInv
<1>6. InCopy = 0 /\ InCall = 0
  BY <1>1 DEF InCopy, InCall
<1>7. rlen = (IF getReset THEN First ELSE 0) + gptr_val /\ m_total_read = rlen
  <2>1. /\ rlen = (IF getReset THEN First ELSE 0) + gptr_val + InCopy
        /\ m_total_read = rlen - InCall
    BY DEF IndInv, ConsumerInv
  <2> QED
    BY <1>2, <1>6, <2>1
<1>8. /\ m_total_reset = 0 => ~getReset /\ ~m_resetting
      /\ m_total_reset # 0 /\ ~getReset => m_resetting /\ rlen = First
  BY <1>1 DEF IndInv, ConsumerInv, ResettingInv, PendingInv
<1>9. pptr_val - gptr_val = Total - rlen \/ m_resetting
  BY <1>2, <1>3, <1>7, <1>8
<1>10. get_data_size = Total - rlen
  BY <1>2, <1>3, <1>7 DEF get_data_size
<1>11. m_total_reset = 0 \/ (m_total_reset = Bursts[1] /\ rlen >= Bursts[1])
  BY <1>2, ResetWasRead
<1>12. rlen = Total => gptr_val = Total - m_total_reset
  BY <1>2, <1>7, <1>8
<1> QED
  BY <1>4, <1>5, <1>8, <1>9, <1>10, <1>11, <1>12

-----------------------------------------------------------------------------
(* The theorems.                                                           *)

\* The inductive invariant: at each statement of the two threads, the stores to m_last_pptr
\* that there are, where pptr and gptr point to, and that a consumer that did not see the
\* reset read everything that was written before it.
THEOREM Invariance == Spec => []IndInv
<1>1. Init => IndInv
  BY InitIndInv
<1>2. IndInv /\ [Next]_vars => IndInv'
  BY NextIndInv
<1> QED
  BY <1>1, <1>2, PTL DEF Spec

\* The put area and the get area stay inside the block, gptr never passes egptr, and a
\* thread never knows of a store to m_last_pptr or m_last_gptr that did not happen.
THEOREM TypeCorrect == Spec => []TypeOK
<1>1. IndInv => TypeOK
  BY DEF IndInv
<1> QED
  BY <1>1, Invariance, PTL

\* The asserts of lines 288-290, 298-299 and 307: my_xsgetn_a returns the bytes in the order
\* in which they were written, each exactly once, whether or not the buffer was reset in
\* between and whatever sizes it is called with.
THEOREM BytesInOrder == Spec => []BytesReadInOrder
<1>1. IndInv => BytesReadInOrder
  BY DEF IndInv
<1> QED
  BY <1>1, Invariance, PTL

\* Lines 147-151: update_put_area resets the buffer only when all bytes in it were read, so
\* a byte that was not read is never overwritten and is where the consumer will look for it.
THEOREM NothingOverwritten == Spec => []NothingUnreadIsOverwritten
<1>1. IndInv => NothingUnreadIsOverwritten
  BY UnreadIsInBuffer
<1> QED
  BY <1>1, Invariance, PTL

\* The asserts of lines 253 and 269-314: when both threads are joined the pointers that they
\* stored last, get_data_size, m_total_reset, m_resetting and gptr agree with what was read.
THEOREM FinalAgreement == Spec => []FinalStatesAgree
<1>1. IndInv => FinalStatesAgree
  BY JoinedStatesAgree
<1> QED
  BY <1>1, Invariance, PTL

\* The asserts of lines 244-245: if the first call of my_xsgetn_a asks for the first burst, as
\* in the test, then it reads all of it or nothing, and leaves gptr where it stopped reading.
THEOREM FirstCall ==
  ASSUME ReadSizes[1] = Bursts[1]
  PROVE  Spec => []FirstCallAllOrNothing
<1>1. Init => FirstInv
  <2> SUFFICES ASSUME Init PROVE FirstInv
    OBVIOUS
  <2>1. call = 1 /\ cpc = "update_get_area" /\ read_buffer = <<>>
    BY DEF Init
  <2>2. ~getReset
    BY Zenon DEF Init
  <2>3. rlen = 0
    BY <2>1 DEF rlen
  <2> QED
    BY <2>1, <2>2, <2>3 DEF FirstInv, FirstCallAllOrNothing
<1>2. IndInv /\ FirstInv /\ [Next]_vars => FirstInv'
  BY NextFirstInv
<1>3. FirstInv => FirstCallAllOrNothing
  BY DEF FirstInv
<1> QED
  BY <1>1, <1>2, <1>3, Invariance, PTL DEF Spec
==============================================================================
