------------------------------- MODULE EchoPipe -------------------------------
(***************************************************************************)
(* What the echo program src/src/epoll_bug.c promises, without sockets,    *)
(* epoll or handlers: Burst bytes travel over a pipe line of four stages   *)
(* (written by the accepted socket, read by the client, written back by    *)
(* the client, read back by the accepted socket); no stage overtakes the   *)
(* one before it, no byte is counted twice, and the program reports normal *)
(* completion only once every byte made the whole round trip.              *)
(***************************************************************************)
EXTENDS Naturals

CONSTANT Burst  \* burst_size: the number of bytes to be sent and echoed

VARIABLES
  sent,      \* bytes written by the accepted socket      (twlen1)
  received,  \* bytes read by the client                  (trlen1)
  echoed,    \* bytes written back by the client          (twlen2)
  returned,  \* bytes read back by the accepted socket    (trlen2)
  complete   \* the event loop ended because nothing was left to watch

pipeVars == <<sent, received, echoed, returned, complete>>

PipeInit ==
  /\ sent = 0 /\ received = 0 /\ echoed = 0 /\ returned = 0
  /\ complete = FALSE

Send ==
  /\ sent' \in (sent + 1) .. Burst
  /\ UNCHANGED <<received, echoed, returned, complete>>

Receive ==
  /\ received' \in (received + 1) .. sent
  /\ UNCHANGED <<sent, echoed, returned, complete>>

Echo ==
  /\ echoed' \in (echoed + 1) .. received
  /\ UNCHANGED <<sent, received, returned, complete>>

Return ==
  /\ returned' \in (returned + 1) .. echoed
  /\ UNCHANGED <<sent, received, echoed, complete>>

Complete ==
  /\ returned = Burst
  /\ complete' = TRUE
  /\ UNCHANGED <<sent, received, echoed, returned>>

PipeNext == Send \/ Receive \/ Echo \/ Return \/ Complete

PipeSpec == PipeInit /\ [][PipeNext]_pipeVars
===============================================================================
