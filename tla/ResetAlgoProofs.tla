---------------------------- MODULE ResetAlgoProofs ----------------------------
(***************************************************************************)
(* The reset protocol of genmc_reset_algo.c is right for every number and  *)
(* size of the writes that follow the reset.                               *)
(***************************************************************************)
EXTENDS ResetAlgo, TLAPS

\* What the producer published so far.
ProducerInv ==
  /\ ppc = "reset" => stored = 0
  /\ ppc = "set" => stored = ResetTs
  /\ ppc \notin {"reset", "set"} => stored >= ResetTs
  /\ ppc \in {"total", "done"} => stored = LastTs
  /\ ppc = "done" => total_written = Pptr(stored)

\* A view of the reset in m_resetting includes its store in m_last_pptr, and a view
\* of a later store of m_last_pptr includes the one in m_resetting.
ViewInv ==
  /\ viewRes = SetTs => ppc \notin {"reset", "set"} /\ viewPptr >= ResetTs
  /\ viewPptr > ResetTs => viewRes = SetTs
  /\ curTs <= viewPptr

\* What the consumer knows at each of its statements.
ConsumerInv ==
  /\ cpc = "load_resetting" => viewPptr = 0 /\ viewRes = 0 /\ ~is_resetting
  /\ cpc = "load_pptr" => (is_resetting <=> viewRes = SetTs)
  /\ cpc \in {"load_resetting", "load_pptr"} => curTs = 0
  /\ cpc = "recheck" =>
       /\ is_resetting => curTs >= ResetTs
       /\ ~is_resetting => curTs # ResetTs /\ curTs = viewPptr
       /\ is_resetting /\ viewRes # SetTs => curTs = ResetTs
  /\ cpc = "store" => is_resetting
  /\ cpc = "reload" => is_resetting /\ viewRes = SetTs
  /\ Decided => (is_resetting <=> curTs >= ResetTs)
  /\ Decided /\ is_resetting /\ viewRes # SetTs => curTs = ResetTs
  /\ cpc \in {"load_resetting", "load_pptr", "recheck", "reload", "decided"} =>
       storeTs = Null /\ gptr = Old /\ total_read = 0
  /\ cpc \in {"store", "finish", "done"} => total_read = (IF is_resetting THEN cur_pptr ELSE 0)
  /\ cpc \in {"finish", "done"} =>
       IF is_resetting THEN storeTs = 3 \/ (storeTs = 1 /\ viewRes # SetTs)
                       ELSE storeTs = Null
  /\ cpc = "done" => gptr = cur_pptr

RInv == TypeOK /\ ProducerInv /\ ViewInv /\ ConsumerInv

-----------------------------------------------------------------------------
\* The values stored in m_last_pptr are byte counts; only the reset stores before
\* timestamp 2.
LEMMA PptrValues ==
  /\ \A ts \in 0 .. LastTs : Pptr(ts) \in Nat
  /\ Pptr(0) = Old /\ Pptr(ResetTs) = 0
  /\ LastTs \in Nat \ {0} /\ Old \in Nat \ {0}
<1>1. LastTs \in Nat \ {0} /\ Old \in Nat \ {0} BY ResetAssumption DEF LastTs
<1>2. \A ts \in 0 .. LastTs : Pptr(ts) \in Nat
  <2> TAKE ts \in 0 .. LastTs
  <2>1. CASE ts \in {0, 1} BY <2>1, ResetAssumption DEF Pptr, ResetTs
  <2>2. CASE ts > 1
    <3>1. ts - 1 \in 1 .. Len(Writes) BY <2>2, ResetAssumption DEF LastTs
    <3> QED BY <3>1, <2>2, ResetAssumption DEF Pptr, ResetTs
  <2> QED BY <2>1, <2>2
<1>3. Pptr(0) = Old /\ Pptr(ResetTs) = 0 BY DEF Pptr, ResetTs
<1> QED BY <1>1, <1>2, <1>3

LEMMA InitRInv == Init => RInv
<1> SUFFICES ASSUME Init PROVE RInv OBVIOUS
<1>1. is_resetting \in BOOLEAN BY DEF Init
<1>2. ~is_resetting BY DEF Init
<1> QED BY <1>1, <1>2, PptrValues DEF Init, RInv, TypeOK, ProducerInv, ViewInv, ConsumerInv,
  ProducerPC, ConsumerPC, ResetTs, SetTs, Null, Decided

LEMMA ProducerRInv == RInv /\ Producer => RInv'
<1> SUFFICES ASSUME RInv, Producer PROVE RInv' OBVIOUS
<1> USE PptrValues DEF RInv, TypeOK, ProducerPC, ConsumerPC, ResetTs, SetTs, Null, consumerVars
<1>0. cur_pptr' = cur_pptr /\ Decided' = Decided
  BY DEF Producer, Producer_reset_pptr, Producer_set_resetting, Producer_write,
    Producer_last_write, Producer_total_written, cur_pptr, Pptr, Decided
<1>1. CASE Producer_reset_pptr
  BY <1>0, <1>1 DEF Producer_reset_pptr, ProducerInv, ViewInv, ConsumerInv
<1>2. CASE Producer_set_resetting
  BY <1>0, <1>2 DEF Producer_set_resetting, ProducerInv, ViewInv, ConsumerInv
<1>3. CASE Producer_write
  BY <1>0, <1>3 DEF Producer_write, MoreToWrite, ProducerInv, ViewInv, ConsumerInv
<1>4. CASE Producer_last_write
  BY <1>0, <1>4 DEF Producer_last_write, ProducerInv, ViewInv, ConsumerInv
<1>5. CASE Producer_total_written
  <2>1. Pptr(stored) \in Nat OBVIOUS
  <2>2. Pptr(stored)' = Pptr(stored) BY <1>5 DEF Producer_total_written, Pptr
  <2> QED BY <1>0, <1>5, <2>1, <2>2 DEF Producer_total_written, ProducerInv, ViewInv, ConsumerInv
<1> QED BY <1>1, <1>2, <1>3, <1>4, <1>5 DEF Producer

LEMMA ConsumerRInv == RInv /\ Consumer => RInv'
<1> SUFFICES ASSUME RInv, Consumer PROVE RInv' OBVIOUS
<1> USE PptrValues DEF RInv, TypeOK, ProducerPC, ConsumerPC, ResetTs, SetTs, Null, producerVars
<1>0. ProducerInv'
  BY DEF Consumer, Consumer_load_resetting, Consumer_load_pptr, Consumer_recheck,
    Consumer_reload_pptr, Consumer_decided, Consumer_store_resetting, Consumer_finish,
    ProducerInv, Pptr
<1>1. CASE Consumer_load_resetting
  <2>1. PICK ts \in ResettingMessages :
          /\ is_resetting' = (ts = SetTs)
          /\ viewRes' = ts
          /\ viewPptr' = AcquiredByResetting(ts)
    BY <1>1 DEF Consumer_load_resetting
  <2>2. is_resetting' \in BOOLEAN BY <2>1
  <2>3. is_resetting' <=> ts = SetTs BY <2>1
  <2>4. viewRes' = ts /\ viewPptr' = AcquiredByResetting(ts) BY <2>1
  <2> QED BY <1>0, <1>1, <2>2, <2>3, <2>4 DEF Consumer_load_resetting, ResettingMessages, AcquiredByResetting,
    ProducerInv, ViewInv, ConsumerInv, Decided
<1>2. CASE Consumer_load_pptr
  <2>1. PICK ts \in viewPptr .. stored :
          /\ curTs' = ts /\ viewPptr' = ts
          /\ viewRes' = AcquiredByPptr(ts)
          /\ is_resetting' = (is_resetting \/ (Pptr(ts) = 0 /\ gptr # 0))
    BY <1>2 DEF Consumer_load_pptr
  <2>2. gptr # 0 BY <1>2 DEF Consumer_load_pptr, ConsumerInv
  <2>3. Pptr(ts) = 0 => ts >= 1 BY ts \in 0 .. stored
  <2>4. is_resetting' \in BOOLEAN BY <2>1
  <2>5. is_resetting' <=> is_resetting \/ Pptr(ts) = 0 BY <2>1, <2>2
  <2> QED BY <1>0, <1>2, <2>1, <2>3, <2>4, <2>5 DEF Consumer_load_pptr, AcquiredByPptr,
    ProducerInv, ViewInv, ConsumerInv, Decided
<1>3. CASE Consumer_recheck
  <2>1. is_resetting' \in BOOLEAN BY <1>3 DEF Consumer_recheck
  <2> QED BY <1>0, <1>3, <2>1 DEF Consumer_recheck, ResettingMessages, AcquiredByResetting,
    ProducerInv, ViewInv, ConsumerInv, Decided
<1>4. CASE Consumer_reload_pptr
  BY <1>0, <1>4 DEF Consumer_reload_pptr, ProducerInv, ViewInv, ConsumerInv, Decided
<1>5. CASE Consumer_decided
  <2>1. cur_pptr \in Nat /\ cur_pptr' = cur_pptr BY <1>5 DEF Consumer_decided, cur_pptr, Pptr
  <2> QED BY <1>0, <1>5, <2>1 DEF Consumer_decided, ProducerInv, ViewInv, ConsumerInv, Decided
<1>6. CASE Consumer_store_resetting
  <2>1. cur_pptr' = cur_pptr BY <1>6 DEF Consumer_store_resetting, cur_pptr, Pptr
  <2> QED BY <1>0, <1>6, <2>1 DEF Consumer_store_resetting, StorePlaces, ProducerInv, ViewInv,
    ConsumerInv, Decided
<1>7. CASE Consumer_finish
  <2>1. cur_pptr \in Nat /\ cur_pptr' = cur_pptr BY <1>7 DEF Consumer_finish, cur_pptr, Pptr
  <2> QED BY <1>0, <1>7, <2>1 DEF Consumer_finish, ProducerInv, ViewInv, ConsumerInv, Decided
<1> QED BY <1>1, <1>2, <1>3, <1>4, <1>5, <1>6, <1>7 DEF Consumer

LEMMA StutterRInv == RInv /\ UNCHANGED vars => RInv'
BY DEF vars, RInv, TypeOK, ProducerInv, ViewInv, ConsumerInv, Decided, cur_pptr, Pptr

LEMMA Invariance == Spec => []RInv
<1>1. RInv /\ [Next]_vars => RInv'
  BY ProducerRInv, ConsumerRInv, StutterRInv DEF Next, Main_joined
<1> QED BY InitRInv, <1>1, PTL DEF Spec

-----------------------------------------------------------------------------
\* Views never run ahead of the stores in genmc_reset_algo.c, whatever is written.
THEOREM TypeCorrect == Spec => []TypeOK
BY Invariance, PTL DEF RInv

\* The consumer of genmc_reset_algo.c takes the buffer for reset exactly if the
\* pptr it uses was stored by or after the reset (lines 41-61).
THEOREM ResetDetected == Spec => []ResetSeenIffLoaded
<1>1. RInv => ResetSeenIffLoaded BY DEF RInv, ConsumerInv, ResetSeenIffLoaded
<1> QED BY Invariance, <1>1, PTL

\* Once both threads are joined the size of the data left in the buffer is right
\* (lines 84-86), whatever the order of the two stores in m_resetting.
THEOREM DataSizeCorrect == Spec => []DataSizeIsRight
<1>1. RInv => DataSizeIsRight
  <2> SUFFICES ASSUME RInv, Joined PROVE DataSizeIsRight BY DEF DataSizeIsRight
  <2> USE PptrValues DEF RInv, TypeOK, ProducerInv, ViewInv, ConsumerInv, Joined, Decided,
    ResetTs, SetTs, Null
  <2>1. total_written = Pptr(stored) /\ Pptr(stored) \in Nat OBVIOUS
  <2>2. CASE ~is_resetting
    BY <2>1, <2>2 DEF DataSizeIsRight, FinalResetting
  <2>3. CASE is_resetting /\ storeTs = 3
    BY <2>1, <2>3 DEF DataSizeIsRight, FinalResetting
  <2>4. CASE is_resetting /\ storeTs # 3
    BY <2>1, <2>4 DEF DataSizeIsRight, FinalResetting, cur_pptr
  <2> QED BY <2>2, <2>3, <2>4
<1> QED BY Invariance, <1>1, PTL
================================================================================
