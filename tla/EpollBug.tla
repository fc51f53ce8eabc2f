------------------------------- MODULE EpollBug -------------------------------
(***************************************************************************)
(* The echo program src/src/epoll_bug.c: one thread, one epoll instance,   *)
(* three sockets.  The accepted socket writes Burst bytes, the client      *)
(* reads them and writes them back, the accepted socket reads the echo.    *)
(*                                                                         *)
(* Every system call of an event handler is a step of its own, so that the *)
(* kernel can move bytes between any two of them.  Payload is abstracted   *)
(* to byte counts: the program never looks at the bytes it echoes.         *)
(***************************************************************************)
EXTENDS Integers, Sequences

CONSTANTS
  Burst,         \* burst_size
  ReadLength,    \* read_length, the size of one read()
  ALen,          \* alen[], the sizes of successive write()s of the accepted socket
  BufSize,       \* size of Epoll::buf, that every read() and write() uses
  SndBuf,        \* capacity of a socket's send queue
  RcvBuf         \* capacity of a socket's receive queue

ASSUME EpollBugAssumption ==
  /\ Burst \in Nat \ {0}
  /\ ReadLength \in Nat \ {0}
  /\ ALen \in Seq(Nat \ {0}) /\ Len(ALen) > 0
  /\ BufSize \in Nat \ {0}
  /\ SndBuf \in Nat \ {0}
  /\ RcvBuf \in Nat \ {0}

\* The three EventObjs, and the bits of an epoll_event.
Obj   == {"listen", "client", "accept"}
InOut == {"IN", "OUT"}
Bits  == {"IN", "OUT", "ERR"}

VARIABLES
  \* The program counter of the single thread.
  pc,             \* see PC below
  cur,            \* EventObj of the event being processed
  ev,             \* EPOLLIN or EPOLLOUT: the handler of cur that was called
  batch,          \* events[0..n-1]: what epoll_wait returned and is not yet handled
  i,              \* AcceptSocket_write_event: index in alen
  buffer_empty,   \* ClientSocket_read_event: nothing to echo on entry
  \* struct Epoll and EventObj::watched_events.
  watched,
  watched_count,
  twlen1, trlen1, twlen2, trlen2,
  \* The kernel (external): descriptors, connection and byte queues.  Direction
  \* 1 is accept ==> client, direction 2 is client ==> accept.
  fds, conn, rst,
  snd1, rcv1, snd2, rcv2,
  network         \* what this run of the program may meet, see Networks

loopVars   == <<cur, ev, batch, i, buffer_empty>>
epollVars  == <<watched, watched_count>>
countVars  == <<twlen1, trlen1, twlen2, trlen2>>
socketVars == <<fds, conn, rst>>
queueVars  == <<snd1, rcv1, snd2, rcv2>>
vars == <<pc, loopVars, epollVars, countVars, socketVars, queueVars, network>>

\* slow: may a wait for the network take more than a second?  refuses: may write() fail
\* with EAGAIN on a socket reported writable?
Networks == [slow: BOOLEAN, refuses: BOOLEAN]

PC == {"listen_init", "client_init",       \* main() before the main loop
       "wait", "dispatch",                 \* Epoll_mainloop
       "handler",                          \* inside read_event / write_event
       "remove",                           \* the handler returned false
       "finished",                         \* nothing left to watch
       "blocked",                          \* "epoll_wait() blocked permanently!"
       "abort"}                            \* an assert failed

Halted == pc \in {"finished", "blocked", "abort"}

MinOf(a, b) == IF a <= b THEN a ELSE b

TypeOK ==
  /\ pc \in PC
  /\ cur \in Obj
  /\ ev \in InOut
  /\ batch \in [Obj -> SUBSET Bits]
  /\ i \in 1 .. Len(ALen)
  /\ buffer_empty \in BOOLEAN
  /\ watched \in [Obj -> SUBSET InOut]
  /\ watched_count \in Int
  /\ twlen1 \in Nat /\ trlen1 \in Nat /\ twlen2 \in Nat /\ trlen2 \in Nat
  /\ fds \in [Obj -> {"none", "open", "closed"}]
  /\ conn \in {"none", "syn", "pending", "accepted"}
  /\ rst \in BOOLEAN
  /\ snd1 \in Nat /\ rcv1 \in Nat /\ snd2 \in Nat /\ rcv2 \in Nat
  /\ network \in Networks

-----------------------------------------------------------------------------
(* Epoll_add and Epoll_remove.  Both begin with an assert; the caller      *)
(* aborts when it fails.                                                   *)

\* The loop over EPOLLIN, EPOLLOUT that counts the bits of events.
Count(events) == (IF "IN" \in events THEN 1 ELSE 0) + (IF "OUT" \in events THEN 1 ELSE 0)

\* The program starts without sockets; Epoll_init zeroes every counter.
Init ==
  /\ pc = "listen_init"
  /\ cur = "listen" /\ ev = "IN" /\ i = 1 /\ buffer_empty = FALSE
  /\ batch = [o \in Obj |-> {}]
  /\ watched = [o \in Obj |-> {}]
  /\ watched_count = 0
  /\ twlen1 = 0 /\ trlen1 = 0 /\ twlen2 = 0 /\ trlen2 = 0
  /\ fds = [o \in Obj |-> "none"]
  /\ conn = "none" /\ rst = FALSE
  /\ snd1 = 0 /\ rcv1 = 0 /\ snd2 = 0 /\ rcv2 = 0
  /\ network \in Networks

Epoll_add_assert(o, events) == watched[o] \cap events = {}

Epoll_add(o, events) ==
  /\ watched' = [watched EXCEPT ![o] = @ \cup events]
  /\ watched_count' = watched_count + Count(events)

Epoll_remove_assert(o, events) == events \subseteq watched[o]

\* Mutant: the descriptor is closed as soon as any event is removed.
Epoll_remove_closes_always(o, events) ==
  /\ watched' = [watched EXCEPT ![o] = @ \ events]
  /\ fds' = [fds EXCEPT ![o] = "closed"]
  /\ rst' = (rst \/ (o = "client" /\ snd1 + rcv1 > 0))
  /\ watched_count' = watched_count - Count(events)
  /\ UNCHANGED conn

\* Mutant: returns after close() without counting down.
Epoll_remove_not_counted(o, events) ==
  LET closes == watched[o] \ events = {}
  IN  /\ watched' = [watched EXCEPT ![o] = @ \ events]
      /\ fds' = IF closes THEN [fds EXCEPT ![o] = "closed"] ELSE fds
      /\ rst' = (rst \/ (closes /\ o = "client" /\ snd1 + rcv1 > 0))
      /\ watched_count' = IF closes THEN watched_count ELSE watched_count - Count(events)
      /\ UNCHANGED conn

\* Removing the last event closes the descriptor.  Closing the client while
\* data for it is unread or under way makes the kernel reset the connection.
Epoll_remove(o, events) ==
  LET closes == watched[o] \ events = {}
  IN  /\ watched' = [watched EXCEPT ![o] = @ \ events]
      /\ fds' = IF closes THEN [fds EXCEPT ![o] = "closed"] ELSE fds
      /\ rst' = (rst \/ (closes /\ o = "client" /\ snd1 + rcv1 > 0))
      /\ watched_count' = watched_count - Count(events)
      /\ UNCHANGED conn

-----------------------------------------------------------------------------
(* main: the two sockets that exist before the main loop.                  *)

ListenSocket_init ==
  /\ pc = "listen_init"
  /\ fds' = [fds EXCEPT !["listen"] = "open"]
  /\ Epoll_add("listen", {"IN"})
  /\ pc' = IF Epoll_add_assert("listen", {"IN"}) THEN "client_init" ELSE "abort"
  /\ UNCHANGED <<loopVars, countVars, conn, rst, queueVars>>

\* connect() does not block: the connection is established later.
ClientSocket_init ==
  /\ pc = "client_init"
  /\ fds' = [fds EXCEPT !["client"] = "open"]
  /\ conn' = "syn"
  /\ Epoll_add("client", {"IN"})
  /\ pc' = IF Epoll_add_assert("client", {"IN"}) THEN "wait" ELSE "abort"
  /\ UNCHANGED <<loopVars, countVars, rst, queueVars>>

-----------------------------------------------------------------------------
(* The kernel (external).                                                  *)

\* The peer closed and everything it wrote was read.
EndOfFile == fds["client"] = "closed" /\ snd2 = 0 /\ rcv2 = 0

\* Level-triggered readiness of each socket.
Readable(o) ==
  \/ o = "listen" /\ conn = "pending"
  \/ o = "client" /\ rcv1 > 0
  \/ o = "accept" /\ (rcv2 > 0 \/ EndOfFile \/ rst)

Writable(o) ==
  \/ o = "client" /\ conn \in {"pending", "accepted"} /\ snd2 < SndBuf
  \/ o = "accept" /\ snd1 < SndBuf

Ready(o) ==
  IF watched[o] = {} THEN {}  \* EPOLL_CTL_DEL, or never added
  ELSE {e \in watched[o] : (e = "IN" /\ Readable(o)) \/ (e = "OUT" /\ Writable(o))}
       \cup {e \in {"ERR"} : o = "accept" /\ rst}

\* What write(fd, buf, len) may return for a send queue that holds q bytes.
WriteResults(q, len) ==
  IF len = 0 THEN {0}
  ELSE (1 .. MinOf(len, SndBuf - q)) \cup {w \in {-1} : q = SndBuf \/ network.refuses}

\* What read(fd, buf, ReadLength) returns for a receive queue of q bytes.
ReadResult(q, eof) ==
  IF q > 0 THEN MinOf(ReadLength, q) ELSE IF eof THEN 0 ELSE -1

Kernel_connect ==
  /\ conn = "syn"
  /\ conn' = "pending"
  /\ UNCHANGED <<pc, loopVars, epollVars, countVars, fds, rst, queueVars, network>>

Deliver1 ==
  /\ \E n \in 1 .. MinOf(snd1, RcvBuf - rcv1) :
       /\ snd1' = snd1 - n
       /\ rcv1' = rcv1 + n
  /\ UNCHANGED <<pc, loopVars, epollVars, countVars, socketVars, snd2, rcv2, network>>

Deliver2 ==
  /\ \E n \in 1 .. MinOf(snd2, RcvBuf - rcv2) :
       /\ snd2' = snd2 - n
       /\ rcv2' = rcv2 + n
  /\ UNCHANGED <<pc, loopVars, epollVars, countVars, socketVars, snd1, rcv1, network>>

\* The network still has something to do.
Moving ==
  \/ conn = "syn"
  \/ snd1 > 0 /\ rcv1 < RcvBuf
  \/ snd2 > 0 /\ rcv2 < RcvBuf

-----------------------------------------------------------------------------
(* Epoll_mainloop.                                                         *)

\* epoll_wait returns n > 0 events, after less than a second or (unnoticed
\* by the test on tv_usec) within 10 ms after a whole number of seconds.
Epoll_wait ==
  /\ pc = "wait"
  /\ \E o \in Obj : Ready(o) # {}
  /\ batch' = [o \in Obj |-> Ready(o)]
  /\ pc' = "dispatch"
  /\ UNCHANGED <<cur, ev, i, buffer_empty, epollVars, countVars, socketVars, queueVars>>

\* The wait took more than a second: the main loop returns, also when
\* epoll_wait did return events.  A timeout (1100 ms, no events) is one case.
Epoll_wait_gives_up ==
  /\ pc = "wait"
  /\ network.slow \/ (~Moving /\ \A o \in Obj : Ready(o) = {})
  /\ pc' = "blocked"
  /\ UNCHANGED <<loopVars, epollVars, countVars, socketVars, queueVars, network>>

\* The loop `while (n--)' over the events; the order in which the kernel fills
\* the array is not specified.  Per event first EPOLLIN, then EPOLLOUT, then the
\* assert that there was nothing else.  The locals of the handlers are set here.
Dispatch(o) ==
  /\ pc = "dispatch"
  /\ batch[o] # {}
  /\ batch[cur] # {} => o = cur
  /\ cur' = o
  /\ ev' = IF "IN" \in batch[o] THEN "IN" ELSE "OUT"
  /\ batch' = [batch EXCEPT ![o] = @ \ {ev'}]
  /\ pc' = IF batch[o] = {"ERR"} THEN "abort" ELSE "handler"
  /\ i' = 1
  /\ buffer_empty' = (trlen1 - twlen2 = 0)
  /\ UNCHANGED <<epollVars, countVars, socketVars, queueVars>>

BatchDone ==
  /\ pc = "dispatch"
  /\ \A o \in Obj : batch[o] = {}
  /\ pc' = "wait"
  /\ UNCHANGED <<loopVars, epollVars, countVars, socketVars, queueVars>>

\* `if (!handler(...)) if (!Epoll_remove(...)) return;'
RemoveEvent ==
  /\ pc = "remove"
  /\ Epoll_remove(cur, {ev})
  /\ pc' = IF ~Epoll_remove_assert(cur, {ev}) THEN "abort"
           ELSE IF watched_count' = 0 THEN "finished" ELSE "dispatch"
  /\ UNCHANGED <<loopVars, countVars, queueVars>>

-----------------------------------------------------------------------------
(* The event handlers.  Running(o, e): the thread is in that handler.      *)

Running(o, e) == pc = "handler" /\ cur = o /\ ev = e

\* accept4() and AcceptSocket_init; returns 0, so that listening ends.
ListenSocket_read_event ==
  /\ Running("listen", "IN")
  /\ fds' = [fds EXCEPT !["accept"] = "open"]
  /\ conn' = "accepted"
  /\ Epoll_add("accept", {"IN", "OUT"})
  /\ pc' = IF Epoll_add_assert("accept", {"IN", "OUT"}) THEN "remove" ELSE "abort"
  /\ UNCHANGED <<loopVars, countVars, rst, queueVars>>

\* Mutant: the length is not limited to what is left of the burst.
WriteLenUnclamped(max) == ALen[i]

\* `len = alen[i++]; if (len > max) len = max;'
WriteLen(max) == MinOf(ALen[i], max)

\* Mutant: the end of the array alen is not tested.
KeepWritingForever(wlen, len, max) == wlen = len /\ max - wlen > 0

\* The condition of the do-while loop.
KeepWriting(wlen, len, max) == wlen = len /\ i < Len(ALen) /\ max - wlen > 0

\* Mutant: off by one.
MoreToWriteOffByOne(written) == written <= Burst

\* What AcceptSocket_write_event returns.
MoreToWrite(written) == written < Burst

\* One write() of the do-while loop.
AcceptSocket_write_event ==
  LET max == Burst - twlen1
      len == WriteLen(max)
  IN  /\ Running("accept", "OUT")
      /\ \E wlen \in WriteResults(snd1, len) :
           /\ twlen1' = twlen1 + (IF wlen > 0 THEN wlen ELSE 0)
           /\ snd1' = snd1 + (IF wlen > 0 THEN wlen ELSE 0)
           /\ IF KeepWriting(wlen, len, max)
              THEN i' = i + 1 /\ pc' = pc
              ELSE i' = i /\ pc' = IF MoreToWrite(twlen1') THEN "dispatch" ELSE "remove"
      /\ UNCHANGED <<cur, ev, batch, buffer_empty, epollVars, trlen1, twlen2, trlen2,
                     socketVars, rcv1, snd2, rcv2>>

\* Mutant: EAGAIN is taken for end of file.
StillOpenOnDataOnly(rlen) == rlen > 0

\* What AcceptSocket_read_event returns.
StillOpen(rlen) == rlen # 0

\* One read() of the do-while loop; end of file makes the handler return false.
AcceptSocket_read_event ==
  LET rlen == ReadResult(rcv2, EndOfFile)
  IN  /\ Running("accept", "IN")
      /\ trlen2' = trlen2 + (IF rlen > 0 THEN rlen ELSE 0)
      /\ rcv2' = rcv2 - (IF rlen > 0 THEN rlen ELSE 0)
      /\ pc' = IF rlen > 0 THEN pc ELSE IF StillOpen(rlen) THEN "dispatch" ELSE "remove"
      /\ UNCHANGED <<loopVars, epollVars, twlen1, trlen1, twlen2, socketVars, snd1, rcv1, snd2>>

\* One read() of the do-while loop that returned data.
ClientSocket_read_event_data ==
  LET rlen == ReadResult(rcv1, FALSE)
  IN  /\ Running("client", "IN")
      /\ rlen > 0
      /\ trlen1' = trlen1 + rlen
      /\ rcv1' = rcv1 - rlen
      /\ UNCHANGED <<pc, loopVars, epollVars, twlen1, twlen2, trlen2, socketVars, snd1, snd2, rcv2>>

\* Mutant: the state of the buffer on entry is ignored.
StartsEchoAlways == trlen1 > twlen2

\* Mutant: buffer_empty is computed after the reads.
StartsEchoLate == trlen1 = twlen2 /\ trlen1 > twlen2

\* Was the buffer empty on entry, and is there something to echo now?
StartsEcho == buffer_empty /\ trlen1 > twlen2

\* The read() that ends the loop; then start watching EPOLLOUT if what was an
\* empty buffer on entry is not empty any more.
ClientSocket_read_event_end ==
  /\ Running("client", "IN")
  /\ ReadResult(rcv1, FALSE) <= 0
  /\ IF StartsEcho THEN Epoll_add("client", {"OUT"}) ELSE UNCHANGED epollVars
  /\ pc' = IF StartsEcho /\ ~Epoll_add_assert("client", {"OUT"}) THEN "abort" ELSE "dispatch"
  /\ UNCHANGED <<loopVars, countVars, socketVars, queueVars>>

\* Mutant: stops reading as soon as everything so far was written back.
AllWrittenBackSoFar(written) == written = twlen1

\* The client stops reading once the whole burst was written back.
AllWrittenBack(written) == written >= Burst /\ written = twlen1

\* trlen1 - twlen2 is unsigned: `> 0' means that they differ.
ClientSocket_write_event ==
  /\ Running("client", "OUT")
  /\ IF trlen1 = twlen2
     THEN /\ pc' = "abort"
          /\ UNCHANGED <<epollVars, socketVars, twlen2, snd2>>
     ELSE \E wlen \in WriteResults(snd2, trlen1 - twlen2) :
            IF wlen <= 0
            THEN /\ pc' = "remove"
                 /\ UNCHANGED <<epollVars, socketVars, twlen2, snd2>>
            ELSE LET removes == AllWrittenBack(twlen2 + wlen)
                 IN  /\ twlen2' = twlen2 + wlen
                     /\ snd2' = snd2 + wlen
                     /\ IF removes THEN Epoll_remove("client", {"IN"})
                                   ELSE UNCHANGED <<epollVars, socketVars>>
                     /\ pc' = IF removes /\ ~Epoll_remove_assert("client", {"IN"}) THEN "abort"
                              ELSE IF trlen1 # twlen2' THEN "dispatch" ELSE "remove"
  /\ UNCHANGED <<loopVars, twlen1, trlen1, trlen2, snd1, rcv1, rcv2>>

-----------------------------------------------------------------------------
Terminated == Halted /\ UNCHANGED vars

Network == Kernel_connect \/ Deliver1 \/ Deliver2

Program ==
  /\ UNCHANGED network
  /\ \/ ListenSocket_init \/ ClientSocket_init
     \/ Epoll_wait
     \/ \E o \in Obj : Dispatch(o)
     \/ BatchDone \/ RemoveEvent
     \/ ListenSocket_read_event
     \/ AcceptSocket_write_event \/ AcceptSocket_read_event
     \/ ClientSocket_read_event_data \/ ClientSocket_read_event_end
     \/ ClientSocket_write_event

Next == Program \/ Epoll_wait_gives_up \/ Network \/ Terminated

\* The thread runs and TCP delivers what it accepted.
Fairness ==
  /\ WF_vars(Program)
  /\ WF_vars(Epoll_wait_gives_up)
  /\ WF_vars(Kernel_connect)
  /\ WF_vars(Deliver1)
  /\ WF_vars(Deliver2)

Spec == Init /\ [][Next]_vars
FairSpec == Spec /\ Fairness

-----------------------------------------------------------------------------
(* Properties.                                                             *)

\* No assert of the program ever fails: Epoll_add (line 118) never adds an event
\* that is already watched, Epoll_remove (160) never removes one that is not,
\* ClientSocket_write_event (366) is only called with something to write back,
\* and the accepted socket never sees an error event (228), that is: the client
\* never closes a connection with data still under way to it.
NoAssertFails == pc # "abort"

\* watched_count, whose zero ends the main loop (133, 177-178), is exactly the number
\* of watched event bits of all three sockets, whatever order they come and go.
WatchedCountExact ==
  watched_count = Count(watched["listen"]) + Count(watched["client"]) + Count(watched["accept"])

\* An event returned by epoll_wait is only handled, or removed, for a descriptor
\* that is open: no handler closes the descriptor of an event that is still
\* waiting in the batch, and close() never happens twice (175-176, 208-229).
OnlyOpenDescriptors ==
  /\ pc \in {"handler", "remove"} => fds[cur] = "open"
  /\ pc = "dispatch" => \A o \in Obj : batch[o] # {} => fds[o] = "open"

\* The client closes its end only after the whole burst arrived and was written
\* back, leaving nothing unread: closing can not reset the connection (375-376).
ClientClosesLast ==
  fds["client"] = "closed" =>
    /\ twlen1 = Burst /\ trlen1 = Burst /\ twlen2 = Burst
    /\ ~rst

\* When the main loop ends because nothing is watched any more, every byte made
\* the round trip: the "still in the pipe line: 0 bytes" of lines 31-32.
FinishedMeansEchoed ==
  pc = "finished" => twlen1 = Burst /\ trlen1 = Burst /\ twlen2 = Burst /\ trlen2 = Burst

\* write() in ClientSocket_write_event (367) never reads past the end of buf: the
\* bytes read but not yet written back always fit in the buffer.
BacklogFitsBuffer == trlen1 - twlen2 <= BufSize

\* Whenever the program is about to block in epoll_wait, the client watches
\* EPOLLOUT if and only if it has something to write back: no busy loop on a
\* writable socket and no echo that is never resumed (358-359, 377).  A refused write
\* makes the program stop watching EPOLLOUT with data left (372).
OutWatchedIffBacklog ==
  pc = "wait" /\ ~network.refuses => ("OUT" \in watched["client"] <=> trlen1 > twlen2)

\* The program ends by itself with everything echoed; the level-triggered loop
\* never gets into a state in which everybody waits (lines 19-21), if the network is not
\* too slow and a writable socket accepts data: otherwise the program gives up.
EventuallyFinished == ~network.slow /\ ~network.refuses => <>(pc = "finished")

Pipe == INSTANCE EchoPipe WITH
  sent <- twlen1, received <- trlen1, echoed <- twlen2, returned <- trlen2,
  complete <- (pc = "finished")

\* The event loop with its handlers, batches and kernel buffers implements the
\* four-stage pipe line of EchoPipe: counters only grow, no stage overtakes the
\* one before it, and completion is only reported after the last byte is back.
ImplementsPipe == Pipe!PipeSpec

===============================================================================
