---------------------------- MODULE EpollBugProofs ----------------------------
(***************************************************************************)
(* Proofs about EpollBug for every burst size, read length, write-size     *)
(* table and socket buffer size, with a slow network and, except for       *)
(* EchoIsResumed, refused writes.                                          *)
(***************************************************************************)
EXTENDS EpollBug, TLAPS

\* Every byte counted as written is read, queued or on its way; no stage
\* overtakes the one before it.
Bytes ==
  /\ twlen1 = trlen1 + snd1 + rcv1
  /\ twlen2 = trlen2 + snd2 + rcv2
  /\ twlen1 <= Burst
  /\ twlen2 <= trlen1

\* Which descriptors exist, by phase of the program.
Descriptors ==
  /\ \A o \in Obj : fds[o] = "open" <=> watched[o] # {}
  /\ fds["accept"] = "none" <=> conn # "accepted"
  /\ pc = "listen_init" => \A o \in Obj : fds[o] = "none"
  /\ pc = "client_init" => fds["client"] = "none" /\ fds["accept"] = "none"
  /\ pc \notin {"listen_init", "client_init"} => fds["client"] # "none"
  /\ "OUT" \notin watched["listen"]
  /\ ("IN" \in watched["listen"] /\ ~(pc = "remove" /\ cur = "listen")) => conn # "accepted"
  /\ conn # "accepted" => twlen1 = 0
  /\ ~rst

\* The events still to be handled are watched, and so is the one being handled.
Events ==
  /\ pc \in {"dispatch", "handler", "remove"} => \A o \in Obj : batch[o] \subseteq watched[o]
  /\ pc \in {"handler", "remove"} =>
       /\ ev \in watched[cur]
       /\ ev \notin batch[cur]
       /\ ev = "OUT" => "IN" \notin batch[cur]

\* The client watches EPOLLOUT only with something to echo, and stops watching
\* EPOLLIN only when everything was echoed.
Client ==
  /\ ("OUT" \in watched["client"] /\ ~(pc = "remove" /\ cur = "client" /\ ev = "OUT"))
       => trlen1 > twlen2
  /\ Running("client", "IN") /\ buffer_empty => "OUT" \notin watched["client"]
  /\ pc = "remove" /\ cur = "client" => ev = "OUT"
  /\ (fds["client"] # "none" /\ "IN" \notin watched["client"]) => twlen2 = Burst

\* The accepted socket stops watching EPOLLIN only at end of file.
Accept ==
  /\ (pc = "remove" /\ cur = "accept" /\ ev = "IN") => EndOfFile
  /\ (fds["accept"] # "none" /\ "IN" \notin watched["accept"]) => EndOfFile

\* The inductive invariant.
IInv ==
  /\ TypeOK
  /\ Bytes
  /\ Descriptors
  /\ Events
  /\ Client
  /\ Accept
  /\ WatchedCountExact
  /\ pc # "abort"
  /\ pc = "finished" => watched_count = 0

\* What keeps the echo going if a socket that is reported writable is writable: a
\* backlog is watched for, unless the handler that noticed it is still running, and the
\* client is not called to write into a full send queue.
EchoInv ==
  network.refuses = FALSE =>
  /\ trlen1 > twlen2 => "OUT" \in watched["client"] \/ (Running("client", "IN") /\ buffer_empty)
  /\ Running("client", "IN") /\ ~buffer_empty => "OUT" \in watched["client"]
  /\ pc = "remove" /\ cur = "client" => trlen1 = twlen2
  /\ "OUT" \in batch["client"] => snd2 < SndBuf
  /\ Running("client", "OUT") => snd2 < SndBuf

-----------------------------------------------------------------------------
USE EpollBugAssumption

LEMMA InitIInv == Init => IInv
<1> SUFFICES ASSUME Init PROVE IInv
  OBVIOUS
<1> USE DEF Init, Obj, InOut, Bits
<1>1. TypeOK
  <2>1. i \in 1 .. Len(ALen)
    OBVIOUS
  <2>2. buffer_empty \in BOOLEAN /\ rst \in BOOLEAN
    BY Zenon
  <2> QED
    BY <2>1, <2>2 DEF TypeOK, PC
<1>2. Bytes
  BY DEF Bytes
<1>3. Descriptors
  BY DEF Descriptors
<1>4. Events /\ Client /\ Accept
  BY DEF Events, Client, Accept, Running
<1>5. WatchedCountExact
  BY DEF WatchedCountExact, Count
<1> QED
  BY <1>1, <1>2, <1>3, <1>4, <1>5 DEF IInv

LEMMA ClientWriteIInv == IInv /\ ClientSocket_write_event /\ network' = network => IInv'
<1> SUFFICES ASSUME IInv, ClientSocket_write_event, network' = network PROVE IInv'
  OBVIOUS
<1> USE DEF IInv, TypeOK, Obj, InOut
<1>1. trlen1 > twlen2 /\ watched["client"] = InOut /\ Running("client", "OUT")
  BY DEF ClientSocket_write_event, Bytes, Descriptors, Events, Client, Running
<1> DEFINE done(wlen) == twlen2 + wlen >= Burst /\ twlen2 + wlen = twlen1
<1>2. PICK wlen \in WriteResults(snd2, trlen1 - twlen2) :
        IF wlen <= 0
        THEN /\ pc' = "remove"
             /\ UNCHANGED <<watched, watched_count, fds, conn, rst, twlen2, snd2>>
        ELSE /\ twlen2' = twlen2 + wlen
             /\ snd2' = snd2 + wlen
             /\ IF done(wlen) THEN Epoll_remove("client", {"IN"})
                               ELSE UNCHANGED <<watched, watched_count, fds, conn, rst>>
             /\ pc' = IF trlen1 # twlen2' THEN "dispatch" ELSE "remove"
  BY <1>1 DEF ClientSocket_write_event, Epoll_remove_assert, AllWrittenBack, epollVars, socketVars
<1>3. UNCHANGED <<cur, ev, batch, i, buffer_empty, twlen1, trlen1, trlen2, snd1, rcv1, rcv2>>
  BY DEF ClientSocket_write_event, loopVars
<1>4. wlen \in Int /\ wlen <= trlen1 - twlen2
  BY <1>1 DEF WriteResults, MinOf
<1> HIDE DEF WriteResults
<1>5. CASE wlen <= 0
  BY <1>1, <1>2, <1>3, <1>5 DEF PC, Bits, Bytes, Descriptors, Events, Client, Accept, WatchedCountExact, Running, EndOfFile
<1>6. CASE wlen > 0
  <2>1. twlen2' = twlen2 + wlen /\ snd2' = snd2 + wlen /\ pc' \in {"dispatch", "remove"}
    BY <1>2, <1>4, <1>6
  <2>2. /\ watched' = IF done(wlen) THEN [watched EXCEPT !["client"] = {"OUT"}] ELSE watched
        /\ watched_count' = watched_count - (IF done(wlen) THEN 1 ELSE 0)
        /\ fds' = fds /\ conn' = conn /\ rst' = rst
    <3>1. CASE done(wlen)
      <4>1. Epoll_remove("client", {"IN"})
        BY <1>2, <1>4, <1>6, <3>1
      <4>2. watched["client"] \ {"IN"} = {"OUT"}
        BY <1>1
      <4>3. rst' = rst
        BY <4>1, <4>2 DEF Epoll_remove
      <4>4. fds' = fds /\ conn' = conn /\ watched' = [watched EXCEPT !["client"] = {"OUT"}]
        BY <4>1, <4>2 DEF Epoll_remove
      <4>5. watched_count' = watched_count - 1
        BY <4>1 DEF Epoll_remove, Count
      <4> QED
        BY <3>1, <4>3, <4>4, <4>5
    <3>2. CASE ~done(wlen)
      BY <1>2, <1>4, <1>6, <3>2 DEF Descriptors
    <3> QED
      BY <3>1, <3>2
  <2>3. (pc' = "remove" <=> trlen1 = twlen2') /\ (done(wlen) => twlen2' = Burst)
    BY <1>1, <1>2, <1>4, <1>6 DEF Bytes
  <2>4. TypeOK'
    <3>1. rst' \in BOOLEAN /\ buffer_empty' \in BOOLEAN
      BY <1>3, <2>2
    <3> QED
      BY <1>3, <1>4, <1>6, <2>1, <2>2, <3>1 DEF PC, Bits
  <2>5. Bytes'
    BY <1>3, <1>4, <1>6, <2>1 DEF Bytes
  <2>6. Descriptors'
    BY <1>1, <1>3, <2>1, <2>2 DEF Descriptors, Running
  <2>7. Events'
    BY <1>1, <1>3, <2>1, <2>2 DEF Events, Running
  <2>8. Client'
    BY <1>1, <1>3, <1>4, <2>1, <2>2, <2>3 DEF Client, Running, Bytes
  <2>9. Accept'
    BY <1>1, <1>3, <2>1, <2>2 DEF Accept, Running, EndOfFile, Descriptors
  <2>10. WatchedCountExact'
    BY <1>1, <2>2 DEF WatchedCountExact, Count
  <2> QED
    BY <2>1, <2>4, <2>5, <2>6, <2>7, <2>8, <2>9, <2>10
<1>7. wlen <= 0 \/ wlen > 0
  BY <1>4
<1> QED
  BY <1>5, <1>6, <1>7, Zenon

LEMMA NextIInv == IInv /\ [Next]_vars => IInv'
<1> SUFFICES ASSUME IInv, [Next]_vars PROVE IInv'
  OBVIOUS
<1> USE DEF IInv, TypeOK, Bytes, Descriptors, Events, Client, Accept, WatchedCountExact,
            Running, EndOfFile, Count, PC, Obj, InOut, Bits,
            vars, loopVars, epollVars, countVars, socketVars, queueVars
<1>0. network' = network
  BY DEF Next, Program, Network, Terminated, Epoll_wait_gives_up, Kernel_connect, Deliver1, Deliver2
<1> USE <1>0
<1>1. CASE ListenSocket_init
  BY <1>1 DEF ListenSocket_init, Epoll_add, Epoll_add_assert
<1>2. CASE ClientSocket_init
  BY <1>2 DEF ClientSocket_init, Epoll_add, Epoll_add_assert
<1>3. CASE Epoll_wait
  BY <1>3 DEF Epoll_wait, Ready
<1>4. CASE Epoll_wait_gives_up
  BY <1>4 DEF Epoll_wait_gives_up
<1>5. CASE BatchDone
  BY <1>5 DEF BatchDone
<1>6. CASE RemoveEvent
  BY <1>6 DEF RemoveEvent, Epoll_remove, Epoll_remove_assert
<1>7. CASE ListenSocket_read_event
  BY <1>7 DEF ListenSocket_read_event, Epoll_add, Epoll_add_assert
<1>8. CASE AcceptSocket_write_event
  BY <1>8 DEF AcceptSocket_write_event, WriteLen, KeepWriting, MoreToWrite, WriteResults, MinOf
<1>9. CASE AcceptSocket_read_event
  BY <1>9 DEF AcceptSocket_read_event, ReadResult, StillOpen, MinOf
<1>10. CASE ClientSocket_read_event_data
  BY <1>10 DEF ClientSocket_read_event_data, ReadResult, MinOf
<1>11. CASE ClientSocket_read_event_end
  BY <1>11 DEF ClientSocket_read_event_end, StartsEcho, Epoll_add, Epoll_add_assert
<1>12. CASE ClientSocket_write_event
  BY <1>12, ClientWriteIInv
<1>13. CASE Kernel_connect
  BY <1>13 DEF Kernel_connect
<1>14. CASE Deliver1
  BY <1>14 DEF Deliver1, MinOf
<1>15. CASE Deliver2
  BY <1>15 DEF Deliver2, MinOf
<1>16. ASSUME NEW o \in Obj, Dispatch(o) PROVE IInv'
  BY <1>16 DEF Dispatch
<1>17. CASE UNCHANGED vars
  BY <1>17
<1> QED
  BY <1>1, <1>2, <1>3, <1>4, <1>5, <1>6, <1>7, <1>8, <1>9, <1>10, <1>11, <1>12, <1>13, <1>14, <1>15, <1>16, <1>17 DEF Next, Program, Network, Terminated

(***************************************************************************)
(* The properties.                                                         *)
(***************************************************************************)
LEMMA Invariance == Spec => []IInv
  BY InitIInv, NextIInv, PTL DEF Spec

\* Every variable keeps its type: in particular the index of alen stays within
\* the array (AcceptSocket_write_event, line 263) and no counter goes negative.
THEOREM TypeCorrect == Spec => []TypeOK
  BY Invariance, PTL DEF IInv

\* None of the four asserts of epoll_bug.c (lines 118, 160, 228, 366) can fail.
THEOREM AssertsHold == Spec => []NoAssertFails
<1>1. IInv => NoAssertFails
  BY DEF IInv, NoAssertFails
<1> QED
  BY <1>1, Invariance, PTL

\* The number that ends the main loop is the number of watched event bits.
THEOREM CountIsExact == Spec => []WatchedCountExact
  BY Invariance, PTL DEF IInv

\* No event is handled for, and no event removed from, a closed descriptor.
THEOREM NoStaleEvents == Spec => []OnlyOpenDescriptors
<1>1. IInv => OnlyOpenDescriptors
  BY DEF IInv, TypeOK, Descriptors, Events, OnlyOpenDescriptors, InOut, Obj
<1> QED
  BY <1>1, Invariance, PTL

\* The client closes only after receiving and echoing the whole burst, which is
\* why closing never resets the connection (ClientSocket_write_event, 373-376).
THEOREM ClientClosesAfterEcho == Spec => []ClientClosesLast
<1>1. IInv => ClientClosesLast
  BY DEF IInv, TypeOK, Bytes, Descriptors, Client, ClientClosesLast, Obj
<1> QED
  BY <1>1, Invariance, PTL

\* The bytes waiting to be echoed fit in Epoll::buf when the buffer is as large
\* as the burst, as it is in the program (lines 44 and 99).
THEOREM BacklogBounded ==
  ASSUME Burst <= BufSize PROVE Spec => []BacklogFitsBuffer
<1>1. IInv => BacklogFitsBuffer
  BY DEF IInv, TypeOK, Bytes, BacklogFitsBuffer
<1> QED
  BY <1>1, Invariance, PTL

\* If the main loop ends because nothing is watched, every byte was echoed.
LEMMA FinishedFacts == IInv => FinishedMeansEchoed
<1> SUFFICES ASSUME IInv, pc = "finished" PROVE FinishedMeansEchoed
  BY DEF FinishedMeansEchoed
<1> USE DEF IInv, TypeOK, Obj, InOut
<1>1. watched["client"] = {} /\ watched["accept"] = {}
  BY DEF WatchedCountExact, Count
<1>2. twlen2 = Burst /\ trlen1 = Burst /\ twlen1 = Burst
  BY <1>1 DEF Bytes, Descriptors, Client
<1>3. fds["accept"] # "none"
  BY <1>2 DEF Descriptors
<1>4. EndOfFile
  BY <1>1, <1>3 DEF Accept
<1> QED
  BY <1>2, <1>4 DEF FinishedMeansEchoed, EndOfFile, Bytes

\* The main loop only ends normally after the whole round trip (177, 206-227).
THEOREM FinishedAfterEcho == Spec => []FinishedMeansEchoed
  BY FinishedFacts, Invariance, PTL

-----------------------------------------------------------------------------
(* The client watches EPOLLOUT exactly while it has something to write.    *)

LEMMA InitEcho == Init => EchoInv
  BY DEF Init, EchoInv, Running, Obj

LEMMA NextEcho == IInv /\ EchoInv /\ [Next]_vars => EchoInv'
<1> SUFFICES ASSUME IInv, EchoInv, [Next]_vars PROVE EchoInv'
  OBVIOUS
<1>a. network' = network
  BY DEF Next, Program, Network, Terminated, Epoll_wait_gives_up, Kernel_connect, Deliver1,
         Deliver2, vars
<1> SUFFICES ASSUME network.refuses = FALSE PROVE EchoInv'
  BY <1>a DEF EchoInv
<1> USE DEF EchoInv, Running, Obj
<1>0. /\ trlen1 \in Nat /\ twlen2 \in Nat /\ twlen2 <= trlen1 /\ snd2 \in Nat
      /\ watched \in [Obj -> SUBSET InOut] /\ batch \in [Obj -> SUBSET Bits]
      /\ buffer_empty \in BOOLEAN
  BY DEF IInv, TypeOK, Bytes
<1>1. CASE ListenSocket_init \/ ClientSocket_init \/ ListenSocket_read_event
  BY <1>0, <1>1 DEF ListenSocket_init, ClientSocket_init, ListenSocket_read_event, Epoll_add,
     Epoll_add_assert, loopVars, countVars, queueVars
<1>2. CASE Epoll_wait
  BY <1>0, <1>2 DEF Epoll_wait, Ready, Writable, epollVars, countVars, queueVars, InOut
<1>3. CASE Epoll_wait_gives_up \/ BatchDone \/ Kernel_connect \/ UNCHANGED vars
  BY <1>0, <1>3 DEF Epoll_wait_gives_up, BatchDone, Kernel_connect, vars,
     loopVars, epollVars, countVars, queueVars
<1>4. CASE RemoveEvent
  <2>1. cur = "client" => ev = "OUT"
    BY <1>4 DEF RemoveEvent, IInv, Client
  <2> QED
    BY <1>0, <1>4, <2>1 DEF RemoveEvent, Epoll_remove, loopVars, countVars, queueVars
<1>5. CASE AcceptSocket_write_event
  BY <1>0, <1>5 DEF AcceptSocket_write_event, epollVars
<1>6. CASE AcceptSocket_read_event
  BY <1>0, <1>6 DEF AcceptSocket_read_event, loopVars, epollVars
<1>7. CASE ClientSocket_read_event_data
  BY <1>0, <1>7 DEF ClientSocket_read_event_data, loopVars, epollVars
<1>8. CASE ClientSocket_read_event_end
  BY <1>0, <1>8 DEF ClientSocket_read_event_end, StartsEcho, Epoll_add, loopVars, epollVars,
     countVars, queueVars
<1>9. CASE ClientSocket_write_event
  <2>1. /\ trlen1 > twlen2 /\ "OUT" \in watched["client"] /\ "OUT" \notin batch["client"]
        /\ snd2 < SndBuf /\ cur = "client" /\ ev = "OUT"
    BY <1>0, <1>9 DEF ClientSocket_write_event, IInv, Client, Events
  <2>2. /\ UNCHANGED <<cur, ev, batch, buffer_empty, trlen1>>
    BY <1>9 DEF ClientSocket_write_event, loopVars
  <2>3. \A w \in WriteResults(snd2, trlen1 - twlen2) : w \in Nat /\ w > 0
    BY <1>0, <2>1 DEF WriteResults, MinOf
  <2>4. PICK wlen \in WriteResults(snd2, trlen1 - twlen2) :
          IF wlen <= 0
          THEN pc' = "remove" /\ watched' = watched
          ELSE /\ twlen2' = twlen2 + wlen
               /\ IF AllWrittenBack(twlen2 + wlen) THEN Epoll_remove("client", {"IN"})
                                                   ELSE watched' = watched
               /\ pc' = IF /\ AllWrittenBack(twlen2 + wlen)
                           /\ ~Epoll_remove_assert("client", {"IN"}) THEN "abort"
                        ELSE IF trlen1 # twlen2' THEN "dispatch" ELSE "remove"
    <3>1. trlen1 # twlen2
      BY <1>0, <2>1
    <3> HIDE DEF Running, Obj, EchoInv
    <3> QED
      BY <1>9, <3>1 DEF ClientSocket_write_event, epollVars
  <2>5. /\ twlen2' = twlen2 + wlen /\ (pc' = "remove" => trlen1 = twlen2')
        /\ "OUT" \in watched'["client"]
    BY <1>0, <2>1, <2>3, <2>4 DEF Epoll_remove, InOut
  <2>6. pc' # "handler"
    BY <1>0, <1>9, <2>1 DEF ClientSocket_write_event
  <2> QED
    BY <1>0, <2>1, <2>2, <2>5, <2>6
<1>10. CASE Deliver1
  BY <1>0, <1>10 DEF Deliver1, loopVars, epollVars, countVars
<1>11. CASE Deliver2
  BY <1>0, <1>11 DEF Deliver2, MinOf, loopVars, epollVars, countVars
<1>12. ASSUME NEW o \in Obj, Dispatch(o) PROVE EchoInv'
  <2>1. /\ pc = "dispatch" /\ cur' = o /\ ev' \in batch[o] \cup {"OUT"}
        /\ pc' \in {"abort", "handler"}
        /\ pc' = "handler" => ev' \in batch[o] /\ ev' \in InOut
        /\ \A x \in Obj : batch'[x] \subseteq batch[x]
        /\ UNCHANGED <<watched, trlen1, twlen2, snd2>>
    BY <1>0, <1>12 DEF Dispatch, epollVars, countVars, queueVars, InOut, Bits
  <2>2. buffer_empty' <=> trlen1 - twlen2 = 0
    BY <1>12, Zenon DEF Dispatch
  <2>3. ~buffer_empty' => trlen1 > twlen2
    BY <1>0, <2>2
  <2>4. trlen1 > twlen2 => "OUT" \in watched["client"]
    BY <2>1
  <2> QED
    BY <2>1, <2>3, <2>4
<1> QED
  BY <1>1, <1>2, <1>3, <1>4, <1>5, <1>6, <1>7, <1>8, <1>9, <1>10, <1>11, <1>12
     DEF Next, Program, Network, Terminated

\* Whenever the program is about to block in epoll_wait the client watches EPOLLOUT if
\* and only if something is left to write back (lines 358-359, 377), as long as write()
\* does not fail with EAGAIN on a socket that epoll reported to be writable.
THEOREM EchoIsResumed == Spec => []OutWatchedIffBacklog
<1>1. IInv /\ EchoInv => OutWatchedIffBacklog
  BY DEF IInv, TypeOK, Networks, EchoInv, Client, Running, OutWatchedIffBacklog
<1>2. Spec => [](IInv /\ EchoInv)
  BY InitIInv, NextIInv, InitEcho, NextEcho, PTL DEF Spec
<1> QED
  BY <1>1, <1>2, PTL

-----------------------------------------------------------------------------
(* The event loop implements the pipe line of EchoPipe.                    *)

LEMMA InitPipe == Init => Pipe!PipeInit
  BY DEF Init, Pipe!PipeInit

LEMMA NextPipe == IInv /\ IInv' /\ [Next]_vars => [Pipe!PipeNext]_(Pipe!pipeVars)
<1> SUFFICES ASSUME IInv, IInv', [Next]_vars PROVE [Pipe!PipeNext]_(Pipe!pipeVars)
  OBVIOUS
<1> USE DEF Pipe!PipeNext, Pipe!pipeVars, vars, loopVars, epollVars, countVars, socketVars, queueVars
<1>1. TypeOK /\ TypeOK' /\ Bytes /\ Bytes'
  BY DEF IInv
<1>2. CASE AcceptSocket_write_event
  <2>1. pc # "finished" /\ pc' # "finished"
    BY <1>2 DEF AcceptSocket_write_event, Running
  <2>2. twlen1' = twlen1 \/ Pipe!Send
    BY <1>1, <1>2, <2>1 DEF AcceptSocket_write_event, WriteLen, WriteResults, MinOf, Bytes, TypeOK, Pipe!Send
  <2> QED
    BY <1>2, <2>1, <2>2 DEF AcceptSocket_write_event
<1>3. CASE AcceptSocket_read_event
  <2>1. pc # "finished" /\ pc' # "finished"
    BY <1>3 DEF AcceptSocket_read_event, Running
  <2>2. trlen2' = trlen2 \/ Pipe!Return
    BY <1>1, <1>3, <2>1 DEF AcceptSocket_read_event, ReadResult, MinOf, Bytes, TypeOK, Pipe!Return
  <2> QED
    BY <1>3, <2>1, <2>2 DEF AcceptSocket_read_event
<1>4. CASE ClientSocket_read_event_data
  <2>1. pc # "finished" /\ pc' # "finished"
    BY <1>4 DEF ClientSocket_read_event_data, Running
  <2>2. Pipe!Receive
    BY <1>1, <1>4, <2>1 DEF ClientSocket_read_event_data, ReadResult, MinOf, Bytes, TypeOK, Pipe!Receive
  <2> QED
    BY <2>2
<1>5. CASE ClientSocket_write_event
  <2>1. pc # "finished" /\ pc' # "finished"
    BY <1>5 DEF ClientSocket_write_event, Running
  <2>2. UNCHANGED <<twlen1, trlen1, trlen2>> /\ (twlen2' = twlen2 \/ twlen2' > twlen2)
    BY <1>1, <1>5 DEF ClientSocket_write_event, WriteResults, MinOf, TypeOK
  <2>3. twlen2' = twlen2 \/ twlen2' \in (twlen2 + 1) .. trlen1
    <3>1. twlen2 \in Nat /\ twlen2' \in Nat /\ trlen1 \in Nat
      BY <1>1 DEF TypeOK
    <3>2. twlen2' <= trlen1
      BY <1>1, <2>2 DEF Bytes
    <3> QED
      BY <2>2, <3>1, <3>2
  <2>4. twlen2' = twlen2 \/ Pipe!Echo
    BY <2>1, <2>2, <2>3 DEF Pipe!Echo
  <2> QED
    BY <2>1, <2>2, <2>4
<1>6. CASE RemoveEvent
  <2>1. pc # "finished" /\ UNCHANGED countVars
    BY <1>6 DEF RemoveEvent
  <2>2. CASE pc' = "finished"
    <3>1. FinishedMeansEchoed'
      BY FinishedFacts, PTL
    <3>2. trlen2 = Burst
      BY <2>1, <2>2, <3>1 DEF FinishedMeansEchoed
    <3> QED
      BY <2>1, <2>2, <3>2 DEF Pipe!Complete
  <2>3. CASE pc' # "finished"
    BY <2>1, <2>3
  <2> QED
    BY <2>2, <2>3
<1>7. CASE \/ ListenSocket_init \/ ClientSocket_init \/ Epoll_wait \/ BatchDone
           \/ ListenSocket_read_event \/ ClientSocket_read_event_end \/ Epoll_wait_gives_up
           \/ \E o \in Obj : Dispatch(o)
  <2>1. UNCHANGED countVars /\ pc # "finished" /\ pc' # "finished"
    BY <1>7 DEF ListenSocket_init, ClientSocket_init, Epoll_wait, BatchDone, Epoll_wait_gives_up,
                ListenSocket_read_event, ClientSocket_read_event_end, Dispatch, Running
  <2> QED
    BY <2>1
<1>8. CASE Kernel_connect \/ Deliver1 \/ Deliver2 \/ UNCHANGED vars
  BY <1>8 DEF Kernel_connect, Deliver1, Deliver2
<1> QED
  BY <1>2, <1>3, <1>4, <1>5, <1>6, <1>7, <1>8 DEF Next, Program, Network, Terminated

\* The detailed event loop implements the abstract pipe line.
THEOREM Refinement == Spec => ImplementsPipe
<1>1. Spec => [][Pipe!PipeNext]_(Pipe!pipeVars)
  BY NextPipe, Invariance, PTL DEF Spec
<1> QED
  BY <1>1, InitPipe, PTL DEF Spec, ImplementsPipe, Pipe!PipeSpec
===============================================================================
