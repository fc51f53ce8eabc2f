-------------------------------- MODULE SllTest --------------------------------
(***************************************************************************)
(* src/src/genmc_sll_test.c: a lock-free singly linked list.  Producers    *)
(* push one node each with a compare-and-exchange loop; consumers take the *)
(* whole list with one exchange and mark its nodes as deleted; main joins  *)
(* everybody and counts.                                                   *)
(*                                                                         *)
(* Of the memory model the parts that this program depends on are kept: a  *)
(* relaxed load may return an old value of list, and a consumer may only   *)
(* touch the nodes whose initialisation it has acquired.                   *)
(***************************************************************************)
EXTENDS Naturals, FiniteSets

CONSTANTS
  Producers,   \* producer threads; the node that p inserts, n[p], is also called p
  Consumers,   \* consumer threads
  NULL,        \* the null pointer
  deleted      \* the mark of a deleted node

ASSUME SllAssumption ==
  /\ IsFiniteSet(Producers)
  /\ NULL \notin Producers \cup Consumers
  /\ deleted \notin Producers \cup Consumers \cup {NULL}
  /\ {"producer", "list", "nobody"} \cap Consumers = {}

VARIABLES
  list,       \* the head of the list
  next,       \* Node::next of every node
  ppc,        \* producer: "load", "cas" or "done"
  cpc,        \* consumer: "exchange", "walk" or "done"
  head,       \* consumer: its local variable head
  released,   \* nodes whose writes are released by the current value of list
  acquired,   \* consumer: nodes whose writes happen before its next step
  owner,      \* ghost: who holds the node: its producer, the list, a consumer, nobody
  mpc, l, count,  \* main: its program counter and the locals of its counting loop
  failed      \* an assert failed

threadVars == <<list, next, ppc, cpc, head, released, acquired, owner>>
mainVars   == <<mpc, l, count>>
vars == <<threadVars, mainVars, failed>>

Pointer == Producers \cup {NULL}

TypeOK ==
  /\ list \in Pointer
  /\ next \in [Producers -> Pointer \cup {deleted}]
  /\ ppc \in [Producers -> {"load", "cas", "done"}]
  /\ cpc \in [Consumers -> {"exchange", "walk", "done"}]
  /\ head \in [Consumers -> Pointer]
  /\ released \in SUBSET Producers
  /\ acquired \in [Consumers -> SUBSET Producers]
  /\ owner \in [Producers -> {"producer", "list", "nobody"} \cup Consumers]
  /\ mpc \in {"join", "count", "done"}
  /\ l \in Pointer \cup {deleted}
  /\ count \in Nat
  /\ failed \in BOOLEAN

Init ==
  /\ list = NULL
  /\ next = [p \in Producers |-> NULL]
  /\ ppc = [p \in Producers |-> "load"]
  /\ cpc = [c \in Consumers |-> "exchange"]
  /\ head = [c \in Consumers |-> NULL]
  /\ released = {}
  /\ acquired = [c \in Consumers |-> {}]
  /\ owner = [p \in Producers |-> "producer"]
  /\ mpc = "join" /\ l = NULL /\ count = 0
  /\ failed = FALSE

\* What a relaxed load of list may return: any value that it had so far.
OldValues == {NULL} \cup {p \in Producers : owner[p] # "producer"}

-----------------------------------------------------------------------------
\* node->next = atomic_load_explicit(&list, relaxed)
Load(p) ==
  /\ ppc[p] = "load"
  /\ \E v \in OldValues : next' = [next EXCEPT ![p] = v]
  /\ ppc' = [ppc EXCEPT ![p] = "cas"]
  /\ UNCHANGED <<list, cpc, head, released, acquired, owner, mainVars, failed>>

\* Mutant: a plain store instead of a compare-and-exchange.
Store(p) ==
  /\ ppc[p] = "cas"
  /\ list' = p
  /\ released' = released \cup {p}
  /\ owner' = [owner EXCEPT ![p] = "list"]
  /\ ppc' = [ppc EXCEPT ![p] = "done"]
  /\ UNCHANGED <<next, cpc, head, acquired, mainVars, failed>>

\* Mutant: the compare-and-exchange is relaxed.
CasRelaxed(p) ==
  /\ ppc[p] = "cas" /\ list = next[p]
  /\ list' = p
  /\ owner' = [owner EXCEPT ![p] = "list"]
  /\ ppc' = [ppc EXCEPT ![p] = "done"]
  /\ UNCHANGED <<next, cpc, head, released, acquired, mainVars, failed>>

\* The compare-and-exchange succeeds.  It is a release operation, and as a read-
\* modify-write it continues the release sequences of the values before it.
CasSucceeds(p) ==
  /\ ppc[p] = "cas" /\ list = next[p]
  /\ list' = p
  /\ released' = released \cup {p}
  /\ owner' = [owner EXCEPT ![p] = "list"]
  /\ ppc' = [ppc EXCEPT ![p] = "done"]
  /\ UNCHANGED <<next, cpc, head, acquired, mainVars, failed>>

\* Mutant: node->next is not updated by a failing compare-and-exchange.
CasFailsNoReload(p) == ppc[p] = "cas" /\ UNCHANGED vars

\* It fails, because list changed or spuriously (it is the weak form), and loads
\* an up to date or an old value of list into node->next.
CasFails(p) ==
  /\ ppc[p] = "cas"
  /\ \E v \in OldValues : next' = [next EXCEPT ![p] = v]
  /\ UNCHANGED <<list, ppc, cpc, head, released, acquired, owner, mainVars, failed>>

\* Mutant: the list is read, but not emptied.
ExchangeLoadOnly(c) ==
  /\ cpc[c] = "exchange"
  /\ head' = [head EXCEPT ![c] = list]
  /\ acquired' = [acquired EXCEPT ![c] = released]
  /\ owner' = [p \in Producers |-> IF owner[p] = "list" THEN c ELSE owner[p]]
  /\ cpc' = [cpc EXCEPT ![c] = "walk"]
  /\ UNCHANGED <<list, next, ppc, released, mainVars, failed>>

\* atomic_exchange_explicit(&list, NULL, acquire)
Exchange(c) ==
  /\ cpc[c] = "exchange"
  /\ head' = [head EXCEPT ![c] = list]
  /\ list' = NULL
  /\ acquired' = [acquired EXCEPT ![c] = released]
  /\ owner' = [p \in Producers |-> IF owner[p] = "list" THEN c ELSE owner[p]]
  /\ cpc' = [cpc EXCEPT ![c] = "walk"]
  /\ UNCHANGED <<next, ppc, released, mainVars, failed>>

\* Mutant: the node is marked before its successor is read.
DeleteMarksFirst(c) ==
  LET orphan == head[c]
  IN  /\ cpc[c] = "walk" /\ orphan # NULL
      /\ failed' = (failed \/ next[orphan] = deleted)
      /\ next' = [next EXCEPT ![orphan] = deleted]
      /\ head' = [head EXCEPT ![c] = next'[orphan]]
      /\ owner' = [owner EXCEPT ![orphan] = "nobody"]
      /\ UNCHANGED <<list, ppc, cpc, released, acquired, mainVars>>

\* One iteration of the loop that marks the nodes as deleted.
Delete(c) ==
  LET orphan == head[c]
  IN  /\ cpc[c] = "walk" /\ orphan # NULL
      /\ failed' = (failed \/ next[orphan] = deleted)
      /\ head' = [head EXCEPT ![c] = IF next[orphan] = deleted THEN NULL ELSE next[orphan]]
      /\ next' = [next EXCEPT ![orphan] = deleted]
      /\ owner' = [owner EXCEPT ![orphan] = "nobody"]
      /\ UNCHANGED <<list, ppc, cpc, released, acquired, mainVars>>

ConsumerReturns(c) ==
  /\ cpc[c] = "walk" /\ head[c] = NULL
  /\ cpc' = [cpc EXCEPT ![c] = "done"]
  /\ UNCHANGED <<list, next, ppc, head, released, acquired, owner, mainVars, failed>>

\* main: all threads are joined.
Join ==
  /\ mpc = "join"
  /\ \A p \in Producers : ppc[p] = "done"
  /\ \A c \in Consumers : cpc[c] = "done"
  /\ mpc' = "count" /\ l' = list /\ count' = 0
  /\ UNCHANGED <<threadVars, failed>>

\* main: one iteration of the loop that counts the nodes in the list.
CountNode ==
  /\ mpc = "count" /\ l \in Producers
  /\ count' = count + 1
  /\ l' = next[l]
  /\ UNCHANGED <<threadVars, mpc, failed>>

\* main: the final assert.
CountDone ==
  LET del_count == Cardinality({p \in Producers : next[p] = deleted})
  IN  /\ mpc = "count" /\ l \notin Producers
      /\ mpc' = "done"
      /\ failed' = (failed \/ l = deleted \/ count + del_count # Cardinality(Producers))
      /\ UNCHANGED <<threadVars, l, count>>

Terminated == mpc = "done" /\ UNCHANGED vars

Next ==
  \/ \E p \in Producers : Load(p) \/ CasSucceeds(p) \/ CasFails(p)
  \/ \E c \in Consumers : Exchange(c) \/ Delete(c) \/ ConsumerReturns(c)
  \/ Join \/ CountNode \/ CountDone
  \/ Terminated

\* Every thread runs.  That the loop in producer_thread ends needs more: a store
\* becomes visible to relaxed loads after a finite time, so that a failing compare-
\* and-exchange will load the current value, and the weak form does not fail for
\* ever without a reason.
Fairness ==
  /\ \A p \in Producers :
       /\ WF_vars(Load(p))
       /\ SF_vars(CasFails(p) /\ next'[p] = list)
       /\ SF_vars(CasSucceeds(p))
  /\ \A c \in Consumers : WF_vars(Exchange(c) \/ Delete(c) \/ ConsumerReturns(c))
  /\ WF_vars(Join \/ CountNode \/ CountDone)

Spec == Init /\ [][Next]_vars
FairSpec == Spec /\ Fairness

-----------------------------------------------------------------------------
(* Properties.                                                             *)

\* The asserts: no node is deleted twice (line 49), and in the end every node is
\* either still in the list or deleted, none lost and none in both (line 91).
AssertsHold == ~failed

\* A consumer only touches nodes whose initialisation it acquired through the
\* release sequence of list: no data race on the plain member next (33, 42, 47).
NoDataRace ==
  \A c \in Consumers : cpc[c] = "walk" /\ head[c] # NULL => head[c] \in acquired[c]

\* Two consumers never hold the same node, none holds a node that is still in the
\* list or not yet inserted, and the node about to be marked was not marked before
\* (lines 42-50).
NodesAreExclusive ==
  \A c \in Consumers : cpc[c] = "walk" /\ head[c] # NULL =>
    /\ owner[head[c]] = c
    /\ next[head[c]] # deleted
    /\ \A d \in Consumers \ {c} : head[d] # head[c]

\* Every producer, every consumer and main's counting loop end: the list never
\* becomes cyclic.
AllReturn == <>(mpc = "done")
================================================================================
