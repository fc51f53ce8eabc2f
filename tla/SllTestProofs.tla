----------------------------- MODULE SllTestProofs -----------------------------
(***************************************************************************)
(* Proofs about SllTest for any number of producers and consumers.         *)
(*                                                                         *)
(* The nodes are divided among their producers, the list, the consumers    *)
(* and nobody (deleted).  What the list or a consumer holds is closed      *)
(* under next, no two of its nodes have the same successor, and its first  *)
(* node has no predecessor: that is enough to unlink the first node.       *)
(* For the count at the end every node that is held must also be reachable *)
(* from the first one: each holder has a chain, of some length, that is    *)
(* all that it holds.                                                      *)
(***************************************************************************)
EXTENDS SllTest, FiniteSetTheorems, TLAPS

Held(p) == owner[p] \notin {"producer", "nobody"}

Ownership ==
  \A p \in Producers :
    /\ owner[p] = "producer" <=> ppc[p] # "done"
    /\ owner[p] = "nobody" <=> next[p] = deleted
    /\ owner[p] # "producer" => p \in released
    /\ \A c \in Consumers : owner[p] = c => p \in acquired[c]

Chains ==
  /\ \A p \in Producers : Held(p) /\ next[p] # NULL => owner[next[p]] = owner[p]
  /\ \A p, q \in Producers :
       Held(p) /\ Held(q) /\ next[p] # NULL /\ next[p] = next[q] => p = q

ListHead ==
  /\ list # NULL => owner[list] = "list"
  /\ \A p \in Producers : owner[p] = "list" /\ next[p] # NULL => next[p] # list

ConsumerHeads ==
  \A c \in Consumers :
    /\ cpc[c] = "exchange" => head[c] = NULL /\ \A p \in Producers : owner[p] # c
    /\ head[c] # NULL => owner[head[c]] = c
    /\ \A p \in Producers : owner[p] = c /\ next[p] # NULL => next[p] # head[c]

\* The inductive invariant.
SInv == TypeOK /\ Ownership /\ Chains /\ ListHead /\ ConsumerHeads

\* Who keeps a chain of nodes, and the first one of it.
Holders == Consumers \cup {"list"}
First(o) == IF o = "list" THEN list ELSE head[o]

\* f[1], ..., f[n] are the nodes that o holds, each once and in the order of the list.
IsChain(n, f, o) ==
  /\ First(o) = IF n = 0 THEN NULL ELSE f[1]
  /\ \A k \in 1 .. n : next[f[k]] = IF k = n THEN NULL ELSE f[k + 1]
  /\ \A j, k \in 1 .. n : f[j] = f[k] => j = k
  /\ \A p \in Producers : owner[p] = o <=> \E k \in 1 .. n : f[k] = p

\* What the list or a consumer holds can be reached from its first node.
Reachable == \A o \in Holders : \E n \in Nat : \E f \in [1 .. n -> Producers] : IsChain(n, f, o)

\* main counts after the join, and counted the first nodes of the list.
Counting ==
  /\ mpc # "join" => /\ \A p \in Producers : ppc[p] = "done"
                     /\ \A c \in Consumers : cpc[c] = "done"
  /\ mpc = "count" => \E n \in Nat : \E f \in [1 .. n -> Producers] :
                       /\ IsChain(n, f, "list")
                       /\ count \in 0 .. n
                       /\ l = IF count = n THEN NULL ELSE f[count + 1]

DoneIsEmpty == \A c \in Consumers : cpc[c] = "done" => head[c] = NULL

\* The inductive invariant behind the asserts.
CountInv == Reachable /\ Counting /\ DoneIsEmpty /\ ~failed

-----------------------------------------------------------------------------
USE SllAssumption

LEMMA InitSInv == Init => SInv
<1> SUFFICES ASSUME Init PROVE SInv
  OBVIOUS
<1> USE DEF Init
<1>1. TypeOK
  <2>1. failed \in BOOLEAN
    OBVIOUS
  <2> QED
    BY <2>1 DEF TypeOK, Pointer
<1>2. Ownership /\ Chains /\ ListHead /\ ConsumerHeads
  BY DEF Ownership, Chains, ListHead, ConsumerHeads, Held
<1> QED
  BY <1>1, <1>2 DEF SInv

LEMMA NextSInv == SInv /\ [Next]_vars => SInv'
<1> SUFFICES ASSUME SInv, [Next]_vars PROVE SInv'
  OBVIOUS
<1> USE DEF SInv, TypeOK, Ownership, Chains, ListHead, ConsumerHeads, Held, Pointer,
            vars, threadVars, mainVars
<1>1. ASSUME NEW p \in Producers, Load(p) PROVE SInv'
  BY <1>1 DEF Load, OldValues
<1>2. ASSUME NEW p \in Producers, CasSucceeds(p) PROVE SInv'
  BY <1>2 DEF CasSucceeds
<1>3. ASSUME NEW p \in Producers, CasFails(p) PROVE SInv'
  BY <1>3 DEF CasFails, OldValues
<1>4. ASSUME NEW c \in Consumers, Exchange(c) PROVE SInv'
  BY <1>4 DEF Exchange
<1>5. ASSUME NEW c \in Consumers, Delete(c) PROVE SInv'
  BY <1>5 DEF Delete
<1>6. ASSUME NEW c \in Consumers, ConsumerReturns(c) PROVE SInv'
  BY <1>6 DEF ConsumerReturns
<1>7. CASE Join
  BY <1>7 DEF Join
<1>8. CASE CountNode
  BY <1>8 DEF CountNode
<1>9. CASE CountDone
  BY <1>9 DEF CountDone
<1>10. CASE UNCHANGED vars
  BY <1>10
<1> QED
  BY <1>1, <1>2, <1>3, <1>4, <1>5, <1>6, <1>7, <1>8, <1>9, <1>10 DEF Next, Terminated

LEMMA Invariance == Spec => []SInv
  BY InitSInv, NextSInv, PTL DEF Spec

\* Every pointer keeps pointing to a node, to NULL or holds the mark.
THEOREM TypeCorrect == Spec => []TypeOK
  BY Invariance, PTL DEF SInv

\* A consumer has acquired every node it is about to touch.
THEOREM RaceFree == Spec => []NoDataRace
<1>1. SInv => NoDataRace
  BY DEF SInv, TypeOK, Ownership, ConsumerHeads, NoDataRace, Pointer
<1> QED
  BY <1>1, Invariance, PTL

\* A node is marked as deleted by one consumer, and only once (the assert in
\* consumer_thread, line 49).
THEOREM Exclusive == Spec => []NodesAreExclusive
<1>1. SInv => NodesAreExclusive
  BY DEF SInv, TypeOK, Ownership, ConsumerHeads, NodesAreExclusive, Pointer
<1> QED
  BY <1>1, Invariance, PTL

-----------------------------------------------------------------------------
(* The asserts.  Every step moves a whole chain, puts a node in front of   *)
(* one, or takes its first node off.                                       *)

LEMMA InitCountInv == Init => CountInv
<1> SUFFICES ASSUME Init PROVE CountInv
  OBVIOUS
<1>1. Reachable
  <2> SUFFICES ASSUME NEW o \in Holders
               PROVE  \E n \in Nat : \E f \in [1 .. n -> Producers] : IsChain(n, f, o)
    BY DEF Reachable
  <2> DEFINE f == [k \in 1 .. 0 |-> NULL]
  <2>1. f \in [1 .. 0 -> Producers]
    OBVIOUS
  <2>2. IsChain(0, f, o)
    BY DEF Init, IsChain, First, Holders
  <2> QED
    BY <2>1, <2>2
<1>2. Counting /\ DoneIsEmpty
  BY DEF Init, Counting, DoneIsEmpty
<1>3. ~failed
  BY DEF Init
<1> QED
  BY <1>1, <1>2, <1>3 DEF CountInv

\* A chain whose nodes are left alone stays one.
LEMMA ChainKept ==
  ASSUME NEW n \in Nat, NEW f \in [1 .. n -> Producers], NEW o \in Holders,
         IsChain(n, f, o), First(o)' = First(o),
         \A p \in Producers : /\ owner'[p] = o <=> owner[p] = o
                              /\ owner[p] = o => next'[p] = next[p]
  PROVE  IsChain(n, f, o)'
<1>1. \A k \in 1 .. n : f[k] \in Producers /\ owner[f[k]] = o
  BY DEF IsChain
<1>2. \A k \in 1 .. n : next'[f[k]] = IF k = n THEN NULL ELSE f[k + 1]
  BY <1>1 DEF IsChain
<1>3. \A p \in Producers : owner'[p] = o <=> \E k \in 1 .. n : f[k] = p
  BY DEF IsChain
<1>4. First(o)' = IF n = 0 THEN NULL ELSE f[1]
  BY DEF IsChain
<1>5. \A j, k \in 1 .. n : f[j] = f[k] => j = k
  BY DEF IsChain
<1> QED
  BY <1>2, <1>3, <1>4, <1>5 DEF IsChain

\* A producer puts its node in front of the list.
LEMMA ChainPushed ==
  ASSUME SInv, NEW p \in Producers, CasSucceeds(p),
         NEW n \in Nat, NEW f \in [1 .. n -> Producers], IsChain(n, f, "list")
  PROVE  \E g \in [1 .. n + 1 -> Producers] : IsChain(n + 1, g, "list")'
<1> DEFINE g == [k \in 1 .. n + 1 |-> IF k = 1 THEN p ELSE f[k - 1]]
<1>1. /\ list' = p /\ next' = next /\ owner' = [owner EXCEPT ![p] = "list"]
      /\ owner[p] # "list" /\ owner \in [Producers -> {"producer", "list", "nobody"} \cup Consumers]
      /\ next[p] = list
  BY DEF CasSucceeds, SInv, TypeOK, Ownership
<1>2. /\ g[1] = p /\ \A k \in 1 .. n : k + 1 \in 1 .. n + 1 /\ g[k + 1] = f[k]
      /\ \A k \in 2 .. n + 1 : k - 1 \in 1 .. n /\ g[k] = f[k - 1]
      /\ g \in [1 .. n + 1 -> Producers]
  OBVIOUS
<1>3. list = IF n = 0 THEN NULL ELSE f[1]
  BY DEF IsChain, First
<1>4. \A k \in 1 .. n + 1 : next'[g[k]] = IF k = n + 1 THEN NULL ELSE g[k + 1]
  <2>1. next'[g[1]] = IF 1 = n + 1 THEN NULL ELSE g[1 + 1]
    BY <1>1, <1>2, <1>3
  <2>2. ASSUME NEW k \in 2 .. n + 1
        PROVE  next'[g[k]] = IF k = n + 1 THEN NULL ELSE g[k + 1]
    <3>1. k - 1 \in 1 .. n /\ g[k] = f[k - 1] /\ (k # n + 1 => g[k + 1] = f[k])
      BY <1>2
    <3>2. next[f[k - 1]] = IF k - 1 = n THEN NULL ELSE f[(k - 1) + 1]
      BY <3>1 DEF IsChain
    <3> QED
      BY <1>1, <3>1, <3>2
  <2> HIDE DEF g
  <2> QED
    BY <2>1, <2>2
<1>5. \A k \in 1 .. n : f[k] # p
  BY <1>1 DEF IsChain
<1>6. \A j, k \in 1 .. n + 1 : g[j] = g[k] => j = k
  <2>1. \A j, k \in 1 .. n : f[j] = f[k] => j = k
    BY DEF IsChain
  <2>2. \A k \in 1 .. n + 1 : k = 1 \/ (k \in 2 .. n + 1)
    OBVIOUS
  <2> HIDE DEF g
  <2> QED
    BY <1>2, <1>5, <2>1, <2>2
<1>7. \A q \in Producers : owner'[q] = "list" <=> \E k \in 1 .. n + 1 : g[k] = q
  <2>1. \A q \in Producers : owner[q] = "list" <=> \E k \in 1 .. n : f[k] = q
    BY DEF IsChain
  <2>2. \A k \in 1 .. n + 1 : k = 1 \/ (k \in 2 .. n + 1)
    OBVIOUS
  <2>3. 1 \in 1 .. n + 1
    OBVIOUS
  <2> HIDE DEF g
  <2> QED
    BY <1>1, <1>2, <2>1, <2>2, <2>3
<1>8. First("list")' = IF n + 1 = 0 THEN NULL ELSE g[1]
  BY <1>1, <1>2 DEF First
<1> HIDE DEF g
<1>9. IsChain(n + 1, g, "list")'
  BY <1>4, <1>6, <1>7, <1>8 DEF IsChain
<1> QED
  BY <1>2, <1>9

\* A consumer takes the first node off its own chain.
LEMMA ChainPopped ==
  ASSUME SInv, NEW c \in Consumers, Delete(c),
         NEW n \in Nat, NEW f \in [1 .. n -> Producers], IsChain(n, f, c)
  PROVE  n > 0 /\ \E g \in [1 .. n - 1 -> Producers] : IsChain(n - 1, g, c)'
<1> DEFINE g == [k \in 1 .. n - 1 |-> f[k + 1]]
<1>1. /\ c # "list" /\ c # "nobody"
      /\ First(c) = head[c] /\ First(c)' = head'[c]
  BY DEF First
<1>2. head[c] # NULL /\ n > 0 /\ head[c] = f[1] /\ f[1] \in Producers
  BY <1>1 DEF Delete, IsChain
<1>3. /\ owner \in [Producers -> {"producer", "list", "nobody"} \cup Consumers]
      /\ next \in [Producers -> Pointer \cup {deleted}] /\ head \in [Consumers -> Pointer]
  BY DEF SInv, TypeOK
<1>4. /\ next[f[1]] = IF n = 1 THEN NULL ELSE f[2]
      /\ next[f[1]] # deleted
  <2>1. next[f[1]] = IF n = 1 THEN NULL ELSE f[1 + 1]
    BY <1>2 DEF IsChain
  <2>2. n # 1 => f[2] \in Producers
    BY <1>2
  <2> QED
    BY <2>1, <2>2
<1>5. /\ next' = [next EXCEPT ![f[1]] = deleted] /\ owner' = [owner EXCEPT ![f[1]] = "nobody"]
      /\ head'[c] = next[f[1]]
  BY <1>2, <1>3, <1>4 DEF Delete
<1>6. /\ \A k \in 1 .. n - 1 : g[k] = f[k + 1] /\ k + 1 \in 2 .. n
      /\ \A k \in 2 .. n : f[k] = g[k - 1] /\ k - 1 \in 1 .. n - 1
      /\ g \in [1 .. n - 1 -> Producers]
  BY <1>2
<1>7. \A j, k \in 1 .. n : f[j] = f[k] => j = k
  BY DEF IsChain
<1>8. 1 \in 1 .. n /\ \A k \in 2 .. n : k \in 1 .. n /\ f[k] # f[1] /\ f[k] \in Producers
  BY <1>2, <1>7
<1> HIDE DEF g
<1>9. \A k \in 1 .. n - 1 : next'[g[k]] = IF k = n - 1 THEN NULL ELSE g[k + 1]
  <2> SUFFICES ASSUME NEW k \in 1 .. n - 1
               PROVE  next'[g[k]] = IF k = n - 1 THEN NULL ELSE g[k + 1]
    OBVIOUS
  <2>1. g[k] = f[k + 1] /\ k + 1 \in 2 .. n /\ (k # n - 1 => g[k + 1] = f[(k + 1) + 1])
    BY <1>6
  <2>2. next[f[k + 1]] = IF k + 1 = n THEN NULL ELSE f[(k + 1) + 1]
    BY <1>8, <2>1 DEF IsChain
  <2>3. next'[f[k + 1]] = next[f[k + 1]]
    BY <1>3, <1>5, <1>8, <2>1
  <2> QED
    BY <2>1, <2>2, <2>3
<1>10. \A j, k \in 1 .. n - 1 : g[j] = g[k] => j = k
  <2> SUFFICES ASSUME NEW j \in 1 .. n - 1, NEW k \in 1 .. n - 1, g[j] = g[k] PROVE j = k
    OBVIOUS
  <2>1. j + 1 \in 1 .. n /\ k + 1 \in 1 .. n /\ f[j + 1] = f[k + 1]
    BY <1>6, <1>8
  <2>2. j + 1 = k + 1
    BY <1>7, <2>1
  <2> QED
    BY <2>2
<1>11. \A q \in Producers : owner'[q] = c <=> \E k \in 1 .. n - 1 : g[k] = q
  <2>1. \A q \in Producers : owner[q] = c <=> \E k \in 1 .. n : f[k] = q
    BY DEF IsChain
  <2>2. \A k \in 1 .. n : k = 1 \/ k \in 2 .. n
    OBVIOUS
  <2>3. \A q \in Producers : owner'[q] = c <=> q # f[1] /\ owner[q] = c
    BY <1>1, <1>3, <1>5
  <2>4. \A q \in Producers : (\E k \in 1 .. n - 1 : g[k] = q) <=> \E k \in 2 .. n : f[k] = q
    BY <1>6
  <2> QED
    BY <1>8, <2>1, <2>2, <2>3, <2>4
<1>12. First(c)' = IF n - 1 = 0 THEN NULL ELSE g[1]
  BY <1>1, <1>2, <1>4, <1>5, <1>6
<1>13. IsChain(n - 1, g, c)'
  BY <1>9, <1>10, <1>11, <1>12 DEF IsChain
<1> QED
  BY <1>2, <1>6, <1>13

LEMMA ReachableKept ==
  ASSUME Reachable, NEW o \in Holders, First(o)' = First(o),
         \A p \in Producers : /\ owner'[p] = o <=> owner[p] = o
                              /\ owner[p] = o => next'[p] = next[p]
  PROVE  \E n \in Nat : \E f \in [1 .. n -> Producers] : IsChain(n, f, o)'
<1>1. PICK n \in Nat : \E f \in [1 .. n -> Producers] : IsChain(n, f, o)
  BY DEF Reachable
<1>2. PICK f \in [1 .. n -> Producers] : IsChain(n, f, o)
  BY <1>1
<1>3. IsChain(n, f, o)'
  BY <1>2, ChainKept
<1> QED
  BY <1>3

LEMMA NextReachable == SInv /\ Reachable /\ [Next]_vars => Reachable'
<1> SUFFICES ASSUME SInv, Reachable, [Next]_vars, NEW o \in Holders
             PROVE  \E n \in Nat : \E f \in [1 .. n -> Producers] : IsChain(n, f, o)'
  BY DEF Reachable
<1> USE DEF Holders
<1>1. ASSUME NEW p \in Producers, Load(p) \/ CasFails(p)
      PROVE  \E n \in Nat : \E f \in [1 .. n -> Producers] : IsChain(n, f, o)'
  <2>1. owner' = owner /\ list' = list /\ head' = head /\ owner[p] = "producer"
    BY <1>1 DEF Load, CasFails, SInv, TypeOK, Ownership
  <2>2. \A q \in Producers : q # p => next'[q] = next[q]
    BY <1>1 DEF Load, CasFails, SInv, TypeOK
  <2>3. First(o)' = First(o) /\ o # "producer"
    BY <2>1 DEF First
  <2> QED
    BY <2>1, <2>2, <2>3, ReachableKept
<1>2. ASSUME NEW p \in Producers, CasSucceeds(p)
      PROVE  \E n \in Nat : \E f \in [1 .. n -> Producers] : IsChain(n, f, o)'
  <2>1. CASE o = "list"
    <3>1. PICK n \in Nat : \E f \in [1 .. n -> Producers] : IsChain(n, f, "list")
      BY <2>1 DEF Reachable
    <3>2. PICK f \in [1 .. n -> Producers] : IsChain(n, f, "list")
      BY <3>1
    <3>3. n + 1 \in Nat /\ \E g \in [1 .. n + 1 -> Producers] : IsChain(n + 1, g, "list")'
      BY <1>2, <3>2, ChainPushed
    <3> QED
      BY <2>1, <3>3
  <2>2. CASE o # "list"
    <3>1. /\ head' = head /\ next' = next /\ owner' = [owner EXCEPT ![p] = "list"]
          /\ owner[p] = "producer" /\ owner \in [Producers -> {"producer", "list", "nobody"} \cup Consumers]
      BY <1>2 DEF CasSucceeds, SInv, TypeOK, Ownership
    <3>2. First(o)' = First(o)
      BY <2>2, <3>1 DEF First
    <3>3. \A q \in Producers : owner'[q] = o <=> owner[q] = o
      BY <2>2, <3>1
    <3> QED
      BY <3>1, <3>2, <3>3, ReachableKept
  <2> QED
    BY <2>1, <2>2
<1>3. ASSUME NEW c \in Consumers, Exchange(c)
      PROVE  \E n \in Nat : \E f \in [1 .. n -> Producers] : IsChain(n, f, o)'
  <2>1. /\ list' = NULL /\ next' = next /\ head' = [head EXCEPT ![c] = list]
        /\ \A p \in Producers : owner'[p] = IF owner[p] = "list" THEN c ELSE owner[p]
        /\ head \in [Consumers -> Pointer] /\ \A p \in Producers : owner[p] # c
        /\ c # "list"
    BY <1>3 DEF Exchange, SInv, TypeOK, ConsumerHeads
  <2>2. CASE o = "list"
    <3> DEFINE f == [k \in 1 .. 0 |-> NULL]
    <3>1. f \in [1 .. 0 -> Producers]
      OBVIOUS
    <3>2. IsChain(0, f, o)'
      BY <2>1, <2>2 DEF IsChain, First
    <3> QED
      BY <3>1, <3>2
  <2>3. CASE o = c
    <3>1. PICK n \in Nat : \E f \in [1 .. n -> Producers] : IsChain(n, f, "list")
      BY DEF Reachable
    <3>2. PICK f \in [1 .. n -> Producers] : IsChain(n, f, "list")
      BY <3>1
    <3>3. First(c)' = First("list") /\ \A p \in Producers : owner'[p] = c <=> owner[p] = "list"
      BY <2>1 DEF First
    <3>4. IsChain(n, f, c)'
      BY <2>1, <3>2, <3>3 DEF IsChain
    <3> QED
      BY <2>3, <3>4
  <2>4. CASE o \notin {c, "list"}
    <3>1. First(o)' = First(o)
      BY <2>1, <2>4 DEF First
    <3>2. \A p \in Producers : owner'[p] = o <=> owner[p] = o
      BY <2>1, <2>4
    <3> QED
      BY <2>1, <3>1, <3>2, ReachableKept
  <2> QED
    BY <2>2, <2>3, <2>4
<1>4. ASSUME NEW c \in Consumers, Delete(c)
      PROVE  \E n \in Nat : \E f \in [1 .. n -> Producers] : IsChain(n, f, o)'
  <2>1. CASE o = c
    <3>1. PICK n \in Nat : \E f \in [1 .. n -> Producers] : IsChain(n, f, c)
      BY <2>1 DEF Reachable
    <3>2. PICK f \in [1 .. n -> Producers] : IsChain(n, f, c)
      BY <3>1
    <3>3. n - 1 \in Nat /\ \E g \in [1 .. n - 1 -> Producers] : IsChain(n - 1, g, c)'
      BY <1>4, <3>2, ChainPopped
    <3> QED
      BY <2>1, <3>3
  <2>2. CASE o # c
    <3> DEFINE orphan == head[c]
    <3>1. /\ orphan \in Producers /\ owner[orphan] = c /\ list' = list
          /\ \A q \in Producers : q # orphan => next'[q] = next[q] /\ owner'[q] = owner[q]
          /\ owner'[orphan] = "nobody" /\ \A d \in Consumers : d # c => head'[d] = head[d]
      BY <1>4 DEF Delete, SInv, TypeOK, ConsumerHeads, Pointer
    <3>2. First(o)' = First(o) /\ o # "nobody"
      BY <2>2, <3>1 DEF First
    <3> HIDE DEF orphan
    <3>3. \A q \in Producers : /\ owner'[q] = o <=> owner[q] = o
                               /\ owner[q] = o => next'[q] = next[q]
      BY <2>2, <3>1, <3>2
    <3> QED
      BY <3>2, <3>3, ReachableKept
  <2> QED
    BY <2>1, <2>2
<1>5. ASSUME UNCHANGED <<list, head, next, owner>>
      PROVE  \E n \in Nat : \E f \in [1 .. n -> Producers] : IsChain(n, f, o)'
  <2>1. First(o)' = First(o)
    BY <1>5 DEF First
  <2> QED
    BY <1>5, <2>1, ReachableKept
<1>6. ASSUME NEW c \in Consumers, ConsumerReturns(c) PROVE UNCHANGED <<list, head, next, owner>>
  BY <1>6 DEF ConsumerReturns
<1>7. Join \/ CountNode \/ CountDone \/ UNCHANGED vars => UNCHANGED <<list, head, next, owner>>
  BY DEF Join, CountNode, CountDone, vars, threadVars
<1> QED
  BY <1>1, <1>2, <1>3, <1>4, <1>5, <1>6, <1>7 DEF Next, Terminated

\* What main counted and what it finds deleted add up to all nodes.
LEMMA CountsAddUp ==
  ASSUME SInv, CountInv, mpc = "count", l \notin Producers
  PROVE  /\ l # deleted
         /\ count + Cardinality({p \in Producers : next[p] = deleted}) = Cardinality(Producers)
<1> DEFINE S == {p \in Producers : owner[p] = "list"}
           D == {p \in Producers : next[p] = deleted}
<1>1. PICK n \in Nat : \E f \in [1 .. n -> Producers] :
               /\ IsChain(n, f, "list")
               /\ count \in 0 .. n
               /\ l = IF count = n THEN NULL ELSE f[count + 1]
  BY DEF CountInv, Counting
<1>2. PICK f \in [1 .. n -> Producers] :
               /\ IsChain(n, f, "list")
               /\ count \in 0 .. n
               /\ l = IF count = n THEN NULL ELSE f[count + 1]
  BY <1>1
<1>3. count = n /\ l = NULL
  <2>1. count # n => count + 1 \in 1 .. n
    BY <1>2
  <2> QED
    BY <1>2, <2>1
<1>4. IsFiniteSet(S) /\ Cardinality(S) = n
  <2>1. \A k \in 1 .. n : f[k] \in S
    BY <1>2 DEF IsChain
  <2>2. f \in Injection(1 .. n, S)
    BY <1>2, <2>1 DEF IsChain, Injection, IsInjective
  <2>3. f \in Surjection(1 .. n, S)
    BY <1>2, <2>1 DEF IsChain, Surjection
  <2>4. ExistsBijection(1 .. n, S)
    BY <2>2, <2>3 DEF ExistsBijection, Bijection
  <2>5. IsFiniteSet(1 .. n) /\ Cardinality(1 .. n) = n
    BY FS_Interval
  <2> QED
    BY <2>4, <2>5, FS_Bijection
<1>5. S \cup D = Producers /\ S \cap D = {}
  <2>1. \A p \in Producers : owner[p] # "producer" /\ \A c \in Consumers : owner[p] # c
    <3>1. \A p \in Producers : owner[p] # "producer"
      BY DEF SInv, Ownership, CountInv, Counting
    <3>2. ASSUME NEW p \in Producers, NEW c \in Consumers PROVE owner[p] # c
      <4>1. head[c] = NULL /\ c # "list" /\ First(c) = head[c]
        BY DEF CountInv, Counting, DoneIsEmpty, First
      <4>2. PICK m \in Nat : \E h \in [1 .. m -> Producers] : IsChain(m, h, c)
        BY DEF CountInv, Reachable, Holders
      <4>3. PICK h \in [1 .. m -> Producers] : IsChain(m, h, c)
        BY <4>2
      <4>4. m = 0
        <5>1. m # 0 => h[1] \in Producers
          OBVIOUS
        <5> QED
          BY <4>1, <4>3, <5>1 DEF IsChain
      <4> QED
        BY <4>3, <4>4 DEF IsChain
    <3> QED
      BY <3>1, <3>2
  <2>2. \A p \in Producers : owner[p] = "list" <=> next[p] # deleted
    BY <2>1 DEF SInv, TypeOK, Ownership
  <2> QED
    BY <2>2
<1>6. IsFiniteSet(D)
  BY FS_Subset
<1>7. Cardinality(S \cup D) = Cardinality(S) + Cardinality(D) - 0
  BY <1>4, <1>5, <1>6, FS_Union, FS_EmptySet
<1>8. Cardinality(D) \in Nat
  BY <1>6, FS_CardinalityType
<1>9. l # deleted
  BY <1>3
<1>10. Cardinality(Producers) = count + Cardinality(D)
  <2> DEFINE d == Cardinality(D)
             a == Cardinality(Producers)
  <2> HIDE DEF S, D
  <2>1. a = Cardinality(S) + d - 0
    BY <1>5, <1>7, Zenon
  <2>2. d \in Nat
    BY <1>8
  <2> HIDE DEF d, a
  <2>3. a = count + d
    BY <1>3, <1>4, <2>1, <2>2
  <2> QED
    BY <2>3 DEF d, a
<1> QED
  BY <1>9, <1>10

LEMMA NextCountInv == SInv /\ CountInv /\ [Next]_vars => CountInv'
<1> SUFFICES ASSUME SInv, CountInv, [Next]_vars PROVE CountInv'
  OBVIOUS
<1>1. Reachable'
  BY NextReachable DEF CountInv
<1>2. DoneIsEmpty'
  <2> USE DEF DoneIsEmpty, CountInv, SInv, TypeOK
  <2>1. ASSUME NEW p \in Producers, Load(p) \/ CasSucceeds(p) \/ CasFails(p)
        PROVE  DoneIsEmpty'
    BY <2>1 DEF Load, CasSucceeds, CasFails
  <2>2. ASSUME NEW c \in Consumers, Exchange(c) \/ Delete(c) \/ ConsumerReturns(c)
        PROVE  DoneIsEmpty'
    BY <2>2 DEF Exchange, Delete, ConsumerReturns
  <2>3. CASE Join \/ CountNode \/ CountDone \/ UNCHANGED vars
    BY <2>3 DEF Join, CountNode, CountDone, vars, threadVars
  <2> QED
    BY <2>1, <2>2, <2>3 DEF Next, Terminated
<1>3. ~failed'
  <2>1. ASSUME NEW p \in Producers, Load(p) \/ CasSucceeds(p) \/ CasFails(p)
        PROVE  ~failed'
    BY <2>1 DEF Load, CasSucceeds, CasFails, CountInv
  <2>2. ASSUME NEW c \in Consumers, Delete(c) PROVE ~failed'
    <3>1. head[c] \in Producers /\ next[head[c]] # deleted
      BY <2>2 DEF Delete, SInv, TypeOK, Pointer, Ownership, ConsumerHeads
    <3> QED
      BY <2>2, <3>1 DEF Delete, CountInv
  <2>3. ASSUME NEW c \in Consumers, Exchange(c) \/ ConsumerReturns(c) PROVE ~failed'
    BY <2>3 DEF Exchange, ConsumerReturns, CountInv
  <2>4. CASE CountDone
    <3>1. /\ l # deleted
          /\ count + Cardinality({p \in Producers : next[p] = deleted}) = Cardinality(Producers)
      BY <2>4, CountsAddUp DEF CountDone
    <3> QED
      BY <2>4, <3>1 DEF CountDone, CountInv
  <2>5. CASE Join \/ CountNode \/ UNCHANGED vars
    BY <2>5 DEF Join, CountNode, vars, CountInv
  <2> QED
    BY <2>1, <2>2, <2>3, <2>4, <2>5 DEF Next, Terminated
<1>4. Counting'
  <2>1. ASSUME NEW p \in Producers, Load(p) \/ CasSucceeds(p) \/ CasFails(p)
        PROVE  mpc = "join" /\ mpc' = "join"
    BY <2>1 DEF Load, CasSucceeds, CasFails, mainVars, CountInv, Counting
  <2>2. ASSUME NEW c \in Consumers, Exchange(c) \/ Delete(c) \/ ConsumerReturns(c)
        PROVE  mpc = "join" /\ mpc' = "join"
    BY <2>2 DEF Exchange, Delete, ConsumerReturns, mainVars, CountInv, Counting
  <2>3. ASSUME mpc' = "join" PROVE Counting'
    BY <2>3 DEF Counting
  <2>4. CASE Join
    <3>1. PICK n \in Nat : \E f \in [1 .. n -> Producers] : IsChain(n, f, "list")'
      BY <1>1 DEF Reachable, Holders
    <3>2. PICK f \in [1 .. n -> Producers] : IsChain(n, f, "list")'
      BY <3>1
    <3>3. First("list")' = IF n = 0 THEN NULL ELSE f[1]
      BY <3>2 DEF IsChain
    <3>4. l' = list /\ list' = list /\ count' = 0 /\ First("list")' = list'
      BY <2>4 DEF Join, threadVars, First
    <3>5. count' \in 0 .. n /\ l' = IF count' = n THEN NULL ELSE f[count' + 1]
      BY <3>3, <3>4
    <3>6. /\ \A p \in Producers : ppc'[p] = "done"
          /\ \A c \in Consumers : cpc'[c] = "done"
      BY <2>4 DEF Join, threadVars
    <3> QED
      BY <3>2, <3>5, <3>6 DEF Counting
  <2>5. CASE CountNode
    <3>1. /\ mpc = "count" /\ l \in Producers /\ l' = next[l] /\ count' = count + 1
          /\ UNCHANGED <<list, next, owner, ppc, cpc>>
      BY <2>5 DEF CountNode, threadVars
    <3>2. PICK n \in Nat : \E f \in [1 .. n -> Producers] :
               /\ IsChain(n, f, "list")
               /\ count \in 0 .. n
               /\ l = IF count = n THEN NULL ELSE f[count + 1]
      BY <3>1 DEF CountInv, Counting
    <3>3. PICK f \in [1 .. n -> Producers] :
               /\ IsChain(n, f, "list")
               /\ count \in 0 .. n
               /\ l = IF count = n THEN NULL ELSE f[count + 1]
      BY <3>2
    <3>4. count + 1 \in 1 .. n /\ l = f[count + 1]
      BY <3>1, <3>3
    <3>5. next[l] = IF count + 1 = n THEN NULL ELSE f[(count + 1) + 1]
      BY <3>3, <3>4 DEF IsChain
    <3>6. First("list")' = First("list")
      BY <3>1 DEF First
    <3>7. IsChain(n, f, "list")'
      BY <3>1, <3>3, <3>6, ChainKept DEF Holders
    <3>8. count' \in 0 .. n /\ l' = IF count' = n THEN NULL ELSE f[count' + 1]
      BY <3>1, <3>4, <3>5
    <3>9. /\ \A p \in Producers : ppc'[p] = "done"
          /\ \A c \in Consumers : cpc'[c] = "done"
      BY <3>1 DEF CountInv, Counting
    <3> QED
      BY <3>7, <3>8, <3>9 DEF Counting
  <2>6. CASE CountDone
    BY <2>6 DEF CountDone, threadVars, CountInv, Counting
  <2>7. CASE UNCHANGED vars
    <3>1. UNCHANGED <<mpc, l, count, ppc, cpc, list, next, owner>>
      BY <2>7 DEF vars, threadVars, mainVars
    <3>2. ASSUME mpc' = "count"
          PROVE  \E n \in Nat : \E f \in [1 .. n -> Producers] :
                   /\ IsChain(n, f, "list")'
                   /\ count' \in 0 .. n
                   /\ l' = IF count' = n THEN NULL ELSE f[count' + 1]
      <4>1. PICK n \in Nat : \E f \in [1 .. n -> Producers] :
                 /\ IsChain(n, f, "list")
                 /\ count \in 0 .. n
                 /\ l = IF count = n THEN NULL ELSE f[count + 1]
        BY <3>1, <3>2 DEF CountInv, Counting
      <4>2. PICK f \in [1 .. n -> Producers] :
                 /\ IsChain(n, f, "list")
                 /\ count \in 0 .. n
                 /\ l = IF count = n THEN NULL ELSE f[count + 1]
        BY <4>1
      <4>3. First("list")' = First("list")
        BY <3>1 DEF First
      <4>4. IsChain(n, f, "list")'
        BY <3>1, <4>2, <4>3, ChainKept DEF Holders
      <4> QED
        BY <3>1, <4>2, <4>4
    <3>3. mpc' # "join" => /\ \A p \in Producers : ppc'[p] = "done"
                           /\ \A c \in Consumers : cpc'[c] = "done"
      BY <3>1 DEF CountInv, Counting
    <3> QED
      BY <3>2, <3>3 DEF Counting
  <2> QED
    BY <2>1, <2>2, <2>3, <2>4, <2>5, <2>6, <2>7 DEF Next, Terminated
<1> QED
  BY <1>1, <1>2, <1>3, <1>4 DEF CountInv

\* Neither assert of genmc_sll_test.c can fail, for any number of threads: no node is
\* deleted twice (line 49), and the nodes that main finds in the list and those that it
\* finds deleted add up to all that were inserted (line 91).
THEOREM NothingLost == Spec => []AssertsHold
<1>1. CountInv => AssertsHold
  BY DEF CountInv, AssertsHold
<1>2. Spec => [](SInv /\ CountInv)
  BY InitSInv, NextSInv, InitCountInv, NextCountInv, PTL DEF Spec
<1> QED
  BY <1>1, <1>2, PTL
================================================================================
