------------------------------ MODULE HtmlServer ------------------------------
(***************************************************************************)
(* tests/HtmlPipeLineServerFixture.h: one connection of the pipelining     *)
(* HTML server that the tests run against (tcp_connection and Reply).      *)
(*                                                                         *)
(* Requests arrive as a stream of headers, cut in pieces of any size.  A   *)
(* reply can be delayed by a timer; replies leave in the order of their    *)
(* requests.  All handlers run in the one thread that calls                *)
(* io_context::run(), in any order; timers expire, and data arrives, at    *)
(* any moment.                                                             *)
(*                                                                         *)
(* The stream is abstracted to the headers that the server looks at and    *)
(* the empty line that ends a request; the text of a reply to its number   *)
(* and the number of the request.                                          *)
(***************************************************************************)
EXTENDS Naturals, Sequences, SequencesExt

CONSTANTS
  Requests,   \* the requests that a client may send: [req, sleep, close] records
  MaxSent     \* bound on the number of requests sent over the connection

ASSUME HtmlServerAssumption ==
  /\ Requests \subseteq [req: Nat, sleep: BOOLEAN, close: BOOLEAN]
  /\ MaxSent \in Nat \ {0}

Nr == 1 .. MaxSent      \* the possible values of m_reply of a request

VARIABLES
  \* The client.
  sent,            \* the requests it sent so far
  stream,          \* headers sent and not yet read by the server
  client,          \* "open" or "closed"
  \* tcp_connection.
  m_sleep, m_must_close, m_request,
  m_reply,         \* number of replies queued so far
  m_closed,
  m_reply_queue,   \* of [nr, req, sleeping, close] records
  pc,              \* the io_context thread: "idle", or in the "loop" of handle_read
  chunk,           \* headers that this handle_read has still to process
  \* boost::asio.
  read,            \* state of the asynchronous read, see ReadStates
  timer,           \* state of the timer of every reply, see TimerStates
  written,         \* the replies passed to async_write
  dangling         \* the handler of an expired timer found its Reply destroyed

clientVars == <<sent, stream, client>>
headerVars == <<m_sleep, m_must_close, m_request>>
vars == <<clientVars, headerVars, m_reply, m_closed, m_reply_queue, pc, chunk, read,
          timer, written, dangling>>

ReadStates  == {"none",                   \* no read was started
                "pending",                \* waiting for data
                "data", "eof",            \* completed, the handler is not called yet
                "aborted", "bad_fd"}      \* likewise: closed while pending, or before
TimerStates == {"none", "armed",
                "expired", "aborted",     \* completed, the handler is not called yet
                "done"}

Header(key, value) == [key |-> key, value |-> value]
EndOfMessage == Header("", 0)
Numeric(boolean) == IF boolean THEN 1 ELSE 0

\* The headers of generate_request, request_close and generate_request_with_close.
Lines(r) ==
  (IF r.req = 0 THEN <<>> ELSE <<Header("X-Request", r.req)>>)
    \o <<Header("X-Sleep", Numeric(r.sleep))>>
    \o (IF r.close THEN <<Header("X-must-close", 1)>> ELSE <<>>)
    \o <<EndOfMessage>>

\* A chunk is part of what the client sent, replies have consecutive numbers, and a
\* reply waits exactly as long as its timer is running.
TypeOK ==
  /\ sent \in Seq(Requests) /\ Len(sent) <= MaxSent
  /\ client \in {"open", "closed"}
  /\ m_sleep \in Nat /\ m_must_close \in BOOLEAN /\ m_request \in Nat
  /\ m_reply \in 0 .. Len(sent) /\ m_closed \in BOOLEAN
  /\ pc \in {"idle", "loop"} /\ chunk \in 0 .. Len(stream)
  /\ read \in ReadStates /\ timer \in [Nr -> TimerStates] /\ dangling \in BOOLEAN
  /\ \A k \in 1 .. Len(m_reply_queue) :
        LET r == m_reply_queue[k]
        IN  /\ r.nr = m_reply - Len(m_reply_queue) + k
            /\ r.sleeping <=> timer[r.nr] \in {"armed", "expired"}

Init ==
  /\ sent = <<>> /\ stream = <<>> /\ client = "open"
  /\ m_sleep = 0 /\ m_must_close = FALSE /\ m_request = 0
  /\ m_reply = 0 /\ m_closed = FALSE /\ m_reply_queue = <<>>
  /\ pc = "idle" /\ chunk = 0
  /\ read = "pending"   \* start()
  /\ timer = [n \in Nr |-> "none"]
  /\ written = <<>> /\ dangling = FALSE

-----------------------------------------------------------------------------
(* The client, the network and the timers.                                 *)

Client_send(r) ==
  /\ client = "open" /\ Len(sent) < MaxSent
  /\ sent' = Append(sent, r)
  /\ stream' = stream \o Lines(r)
  /\ UNCHANGED <<client, headerVars, m_reply, m_closed, m_reply_queue, pc, chunk, read,
                 timer, written, dangling>>

Client_close ==
  /\ client = "open"
  /\ client' = "closed"
  /\ UNCHANGED <<sent, stream, headerVars, m_reply, m_closed, m_reply_queue, pc, chunk,
                 read, timer, written, dangling>>

\* async_read_some completes, with data or at the end of the stream.
Read_completes ==
  /\ read = "pending"
  /\ \/ stream # <<>> /\ read' = "data" /\ chunk' \in 1 .. Len(stream)
     \/ stream = <<>> /\ client = "closed" /\ read' = "eof" /\ chunk' = chunk
  /\ UNCHANGED <<clientVars, headerVars, m_reply, m_closed, m_reply_queue, pc, timer,
                 written, dangling>>

Timer_expires(n) ==
  /\ timer[n] = "armed"
  /\ timer' = [timer EXCEPT ![n] = "expired"]
  /\ UNCHANGED <<clientVars, headerVars, m_reply, m_closed, m_reply_queue, pc, chunk,
                 read, written, dangling>>

-----------------------------------------------------------------------------
(* Closing, and process_replies.                                           *)

\* The replies of q are destroyed: a running timer is cancelled.  That does not
\* stop the handler of a timer that expired before.
Destroy(q, timers) ==
  [n \in Nr |-> IF timers[n] = "armed" /\ \E k \in 1 .. Len(q) : q[k].nr = n
                THEN "aborted" ELSE timers[n]]

\* m_reply_queue.clear(); m_socket.close(); m_closed = true;
Close(q, timers) ==
  /\ m_reply_queue' = <<>>
  /\ timer' = Destroy(q, timers)
  /\ m_closed' = TRUE
  /\ read' = IF read = "pending" THEN "aborted" ELSE read

\* Mutant: a sleeping reply is passed over.
Blocks_not_sleeping(r) == r.close

\* The loop of process_replies ends at a reply that sleeps or closes.
Blocks(r) == r.sleeping \/ r.close

\* Mutant: must_close is only looked at before the write.
WritesBeforeClose_never(r) == FALSE

\* A reply to a numbered request is still written before the connection is closed.
WritesBeforeClose(r) == r.req # 0

\* Mutant: process_replies does not look at m_closed.
IsClosed_ignored == FALSE

IsClosed == m_closed

\* process_replies, for a queue q and timers that the caller just changed.
Process_replies(q, timers) ==
  IF IsClosed
  THEN /\ m_reply_queue' = q /\ timer' = timers
       /\ UNCHANGED <<m_closed, read, written>>
  ELSE LET first  == SelectInSeq(q, Blocks)      \* 0 if there is none
           passed == IF first = 0 THEN Len(q) ELSE first - 1
           closes == first # 0 /\ ~q[first].sleeping
           last   == IF closes /\ WritesBeforeClose(q[first]) THEN first ELSE passed
       IN  /\ written' = written \o [k \in 1 .. last |-> [nr |-> q[k].nr, req |-> q[k].req]]
           /\ IF closes THEN Close(q, timers)
              ELSE /\ m_reply_queue' = SubSeq(q, passed + 1, Len(q))
                   /\ timer' = timers
                   /\ UNCHANGED <<m_closed, read>>

-----------------------------------------------------------------------------
(* The handlers.                                                           *)

Idle == pc = "idle" /\ ~dangling

Handle_read ==
  /\ Idle /\ read = "data"
  /\ pc' = "loop" /\ read' = "none"
  /\ UNCHANGED <<clientVars, headerVars, m_reply, m_closed, m_reply_queue, chunk, timer,
                 written, dangling>>

\* handle_read: the next thing in the buffer.
Feeds ==
  /\ pc = "loop" /\ chunk > 0
  /\ stream' = Tail(stream) /\ chunk' = chunk - 1

\* A header was parsed.
Handle_read_header ==
  LET line == Head(stream)
  IN  /\ Feeds /\ line # EndOfMessage
      /\ m_sleep' = IF line.key = "X-Sleep" THEN line.value ELSE m_sleep
      /\ m_must_close' = (m_must_close \/ line.key = "X-must-close")
      /\ m_request' = IF line.key = "X-Request" THEN line.value ELSE m_request
      /\ UNCHANGED <<sent, client, m_reply, m_closed, m_reply_queue, pc, read, timer,
                     written, dangling>>

\* Mutant: the values of the headers are not reset after the request.
Reset_headers_not == UNCHANGED headerVars

Reset_headers == m_sleep' = 0 /\ m_must_close' = FALSE /\ m_request' = 0

\* The end of a request: queue_reply and the reset of the headers' values.
Handle_read_end_of_message ==
  LET nr == m_reply + 1
      r  == [nr |-> nr, req |-> m_request, sleeping |-> m_sleep # 0, close |-> m_must_close]
  IN  /\ Feeds /\ Head(stream) = EndOfMessage
      /\ m_reply' = nr
      /\ Process_replies(Append(m_reply_queue, r),
                         IF r.sleeping THEN [timer EXCEPT ![nr] = "armed"] ELSE timer)
      /\ Reset_headers
      /\ UNCHANGED <<sent, client, pc, dangling>>

\* Everything was processed: read more.  On a socket that was closed in the
\* meantime that fails at once.
Handle_read_again ==
  /\ pc = "loop" /\ chunk = 0
  /\ pc' = "idle"
  /\ read' = IF m_closed THEN "bad_fd" ELSE "pending"
  /\ UNCHANGED <<clientVars, headerVars, m_reply, m_closed, m_reply_queue, chunk, timer,
                 written, dangling>>

\* Mutant: an error on a connection that is closed already is ignored.
Handle_read_error_ignored ==
  /\ Idle /\ read \in {"eof", "bad_fd"}
  /\ read' = "none" /\ m_closed' = TRUE
  /\ IF m_closed THEN UNCHANGED <<m_reply_queue, timer>>
     ELSE m_reply_queue' = <<>> /\ timer' = Destroy(m_reply_queue, timer)
  /\ UNCHANGED <<clientVars, headerVars, m_reply, pc, chunk, written, dangling>>

\* handle_read with an error.
Handle_read_error ==
  /\ Idle /\ read \in {"eof", "bad_fd"}
  /\ read' = "none" /\ m_closed' = TRUE
  /\ m_reply_queue' = <<>> /\ timer' = Destroy(m_reply_queue, timer)
  /\ UNCHANGED <<clientVars, headerVars, m_reply, pc, chunk, written, dangling>>

Handle_read_aborted ==
  /\ Idle /\ read = "aborted"
  /\ read' = "none"
  /\ UNCHANGED <<clientVars, headerVars, m_reply, m_closed, m_reply_queue, pc, chunk,
                 timer, written, dangling>>

\* Mutant: m_sleep is not reset.
Timed_out_still_sleeping(n) ==
  /\ Idle /\ timer[n] = "expired"
  /\ Process_replies(m_reply_queue, [timer EXCEPT ![n] = "done"])
  /\ UNCHANGED <<clientVars, headerVars, m_reply, pc, chunk, dangling>>

\* Mutant: the connection is not asked to resume writing.
Timed_out_forgets(n) ==
  /\ Idle /\ timer[n] = "expired"
  /\ timer' = [timer EXCEPT ![n] = "done"]
  /\ m_reply_queue' = [k \in 1 .. Len(m_reply_queue) |->
                         IF m_reply_queue[k].nr = n
                         THEN [m_reply_queue[k] EXCEPT !.sleeping = FALSE] ELSE m_reply_queue[k]]
  /\ UNCHANGED <<clientVars, headerVars, m_reply, m_closed, pc, chunk, read, written, dangling>>

\* Reply::timed_out without an error.
Timed_out(n) ==
  LET mine(r) == r.nr = n
      k == SelectInSeq(m_reply_queue, mine)
  IN  /\ Idle /\ timer[n] = "expired"
      /\ IF k = 0
         THEN /\ dangling' = TRUE
              /\ UNCHANGED <<m_reply_queue, timer, m_closed, read, written>>
         ELSE /\ dangling' = FALSE
              /\ Process_replies([m_reply_queue EXCEPT ![k].sleeping = FALSE],
                                 [timer EXCEPT ![n] = "done"])
      /\ UNCHANGED <<clientVars, headerVars, m_reply, pc, chunk>>

Timed_out_aborted(n) ==
  /\ Idle /\ timer[n] = "aborted"
  /\ timer' = [timer EXCEPT ![n] = "done"]
  /\ UNCHANGED <<clientVars, headerVars, m_reply, m_closed, m_reply_queue, pc, chunk,
                 read, written, dangling>>

-----------------------------------------------------------------------------
Handlers ==
  \/ Handle_read \/ Handle_read_header \/ Handle_read_end_of_message
  \/ Handle_read_again \/ Handle_read_error \/ Handle_read_aborted
  \/ \E n \in Nr : Timed_out(n) \/ Timed_out_aborted(n)

Next ==
  \/ \E r \in Requests : Client_send(r)
  \/ Client_close
  \/ Read_completes
  \/ \E n \in Nr : Timer_expires(n)
  \/ Handlers

Spec == Init /\ [][Next]_vars

\* The io_context thread runs the handlers that are queued, each in its turn; data
\* arrives and timers expire.  Nothing forces the client to send or to close.
FairSpec ==
  /\ Spec
  /\ WF_vars(Handle_read \/ Handle_read_error \/ Handle_read_aborted)
  /\ WF_vars(Handle_read_header \/ Handle_read_end_of_message \/ Handle_read_again)
  /\ WF_vars(Read_completes)
  /\ \A n \in Nr : WF_vars(Timer_expires(n)) /\ WF_vars(Timed_out(n) \/ Timed_out_aborted(n))

-----------------------------------------------------------------------------
(* Properties.                                                             *)

\* Replies leave in the order of the requests, without a gap, and each carries the
\* number of its own request, however the stream was cut in pieces and in whatever
\* order the timers expire (lines 208-272, 291-312, 324-382).
RepliesMatchRequests ==
  \A k \in 1 .. Len(written) : written[k] = [nr |-> k, req |-> sent[k].req]

\* "Replies to each HTML request is given after sleep milliseconds" (line 470): a
\* reply that has to wait is not written before its own timer expired, also when
\* later replies are ready earlier.
NoReplyBeforeTimeout ==
  \A k \in 1 .. Len(written) : sent[k].sleep => timer[k] = "done"

\* The connection closes exactly where X-must-close asks for it (lines 331-338, 374-381):
\* such a request is the last one that is answered, without a number it is not answered
\* at all, and unless the client closed first, a closed connection answered all requests
\* up to it.
ClosesAtMustClose ==
  /\ \A k \in 1 .. Len(written) : sent[k].close => k = Len(written) /\ sent[k].req # 0
  /\ m_closed => \/ client = "closed"
                 \/ \E k \in 1 .. m_reply :
                      /\ sent[k].close
                      /\ Len(written) = IF sent[k].req # 0 THEN k ELSE k - 1

\* Nothing is written once the connection was closed, although handle_read goes on
\* with the rest of its buffer and queues replies on the closed connection.
NothingWrittenAfterClose == [][m_closed => UNCHANGED written]_vars

\* Every numbered request is answered, unless the connection is closed: a reply
\* whose timer expired first is not forgotten behind the one it waits for.
EveryRequestAnswered ==
  \A k \in Nr :
    Len(sent) >= k ~> Len(written) >= k \/ m_closed \/ client = "closed"

\* A closed connection lets go of everything that keeps it alive: the replies that
\* were queued after the close, each with a pointer to the connection, are
\* destroyed too and no read is left (lines 162, 274-280, 300).
ClosedIsReleased ==
  <>m_closed => <>(dangling \/ [](m_reply_queue = <<>> /\ read = "none"))

\* What the comment on Reply says (lines 137-140): "when the timer expires it clears
\* the sleeping state and asks the owning connection to resume writing queued
\* replies".
ExpiredTimerFindsReply == ~dangling
===============================================================================
