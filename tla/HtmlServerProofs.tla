--------------------------- MODULE HtmlServerProofs ---------------------------
(***************************************************************************)
(* Proofs about HtmlServer: for every set of requests and any number of    *)
(* them, however the stream is cut in pieces and in whatever order timers  *)
(* expire, replies leave in order, carry the number of their own request,  *)
(* are not written before their timeout, and stop where X-must-close says  *)
(* so.                                                                     *)
(*                                                                         *)
(* The invariant has two halves.  The first relates what the server did    *)
(* not read yet to the requests that were sent: `cut[k]' is where request  *)
(* k ends in `stream'.  The second relates the queue, the timers and what  *)
(* was written; it is stated for a queue, timers and a number of replies   *)
(* that are parameters, because process_replies is called in the middle of *)
(* a handler.                                                              *)
(***************************************************************************)
EXTENDS HtmlServer, SequenceTheorems, WellFoundedInduction, TLAPS

Headers == [key: {"", "X-Request", "X-Sleep", "X-must-close"}, value: Nat]
Replies == [nr: Nat, req: Nat, sleeping: BOOLEAN, close: BOOLEAN]
Writes  == [nr: Nat, req: Nat]

-----------------------------------------------------------------------------
(* The values that the header fields have after i headers of request r.    *)

RequestAfter(r, i) == IF i >= 1 THEN r.req ELSE 0
SleepAfter(r, i)   == IF i >= 2 \/ (i >= 1 /\ r.req = 0) THEN Numeric(r.sleep) ELSE 0
CloseAfter(r, i)   == r.close /\ i >= Len(Lines(r)) - 1

-----------------------------------------------------------------------------
(* The first half of the invariant: the stream.                            *)

\* Request k ends at position cut[k] of stream; a position below one was read already.
Cuts(cut) ==
  /\ cut \in [Nat -> Int]
  /\ cut[Len(sent)] = Len(stream)
  /\ cut[m_reply] <= 0
  /\ m_reply < Len(sent) => cut[m_reply + 1] > 0
  /\ \A k \in m_reply + 1 .. Len(sent) :
       /\ cut[k] = cut[k - 1] + Len(Lines(sent[k]))
       /\ cut[k] <= Len(stream)
       /\ \A i \in 1 .. Len(Lines(sent[k])) :
            cut[k - 1] + i >= 1 => stream[cut[k - 1] + i] = Lines(sent[k])[i]

\* The header fields hold what was read of the request that is being read.
Fields(cut) ==
  IF m_reply < Len(sent)
  THEN LET r == sent[m_reply + 1]
       IN  /\ m_request = RequestAfter(r, 0 - cut[m_reply])
           /\ m_sleep = SleepAfter(r, 0 - cut[m_reply])
           /\ m_must_close = CloseAfter(r, 0 - cut[m_reply])
  ELSE m_request = 0 /\ m_sleep = 0 /\ m_must_close = FALSE

StreamInv == \E cut \in [Nat -> Int] : Cuts(cut) /\ Fields(cut)

-----------------------------------------------------------------------------
(* The second half: replies.                                               *)

\* The queue q holds the replies to the last Len(q) of n requests.
QueueInv(q, timers, n) ==
  /\ q \in Seq(Replies) /\ Len(q) <= n
  /\ \A k \in 1 .. Len(q) :
       LET m == n - Len(q) + k
       IN  /\ q[k].nr = m /\ q[k].req = sent[m].req /\ q[k].close = sent[m].close
           /\ q[k].sleeping <=> timers[m] \in {"armed", "expired"}
           /\ sent[m].sleep => timers[m] \in {"armed", "expired", "done"}

WrittenInv(timers) ==
  /\ written \in Seq(Writes)
  /\ \A k \in 1 .. Len(written) :
       /\ written[k] = [nr |-> k, req |-> sent[k].req]
       /\ sent[k].sleep => timers[k] = "done"
       /\ sent[k].close => m_closed /\ k = Len(written) /\ sent[k].req # 0

ClosedInv(n) ==
  m_closed => \/ client = "closed"
              \/ \E k \in 1 .. n : /\ sent[k].close
                                   /\ Len(written) = IF sent[k].req # 0 THEN k ELSE k - 1

RepliesInv(q, timers, n) ==
  /\ n \in 0 .. Len(sent)
  /\ timers \in [Nr -> TimerStates] /\ \A m \in Nr : m > n => timers[m] = "none"
  /\ QueueInv(q, timers, n)
  /\ WrittenInv(timers) /\ Len(written) <= n /\ (~m_closed => Len(q) + Len(written) = n)
  /\ ClosedInv(n)

-----------------------------------------------------------------------------
Places ==
  /\ sent \in Seq(Requests) /\ Len(sent) <= MaxSent
  /\ stream \in Seq(Headers) /\ chunk \in 0 .. Len(stream)
  /\ client \in {"open", "closed"}
  /\ pc \in {"idle", "loop"} /\ m_reply \in 0 .. Len(sent)
  /\ m_sleep \in Nat /\ m_request \in Nat

Flags == m_must_close \in BOOLEAN /\ m_closed \in BOOLEAN /\ dangling \in BOOLEAN

\* The read fails at the end of the stream, or because the server closed the socket.
ReadInv ==
  /\ read \in ReadStates
  /\ read = "eof" => client = "closed"
  /\ read = "bad_fd" => m_closed

IndInv ==
  /\ Places /\ Flags /\ ReadInv
  /\ StreamInv
  /\ RepliesInv(m_reply_queue, timer, m_reply)
-----------------------------------------------------------------------------
(* Lemmas about the operators of the model.                                *)

\* The second line of a request that has a number (generate_request).
LEMMA SecondPart ==
  ASSUME NEW S, NEW a \in S, NEW b \in S, NEW t \in Seq(S), NEW u \in Seq(S)
  PROVE  (<<a>> \o <<b>> \o t \o u)[2] = b
OBVIOUS

\* What generate_request, request_close and generate_request_with_close produce: two
\* to four lines, of which exactly the last one is empty.
LEMMA LinesShape ==
  ASSUME NEW r \in Requests
  PROVE  /\ Lines(r) \in Seq(Headers)
         /\ Len(Lines(r)) \in 2 .. 4
         /\ \A i \in 1 .. Len(Lines(r)) : Lines(r)[i] = EndOfMessage <=> i = Len(Lines(r))
         /\ \A i \in 1 .. Len(Lines(r)) - 1 :
              /\ RequestAfter(r, i) = IF Lines(r)[i].key = "X-Request" THEN Lines(r)[i].value
                                      ELSE RequestAfter(r, i - 1)
              /\ SleepAfter(r, i) = IF Lines(r)[i].key = "X-Sleep" THEN Lines(r)[i].value
                                    ELSE SleepAfter(r, i - 1)
              /\ CloseAfter(r, i) <=> \/ CloseAfter(r, i - 1)
                                      \/ Lines(r)[i].key = "X-must-close"
<1> DEFINE s == Header("X-Sleep", Numeric(r.sleep))
           q == Header("X-Request", r.req)
           c == Header("X-must-close", 1)
<1>1. /\ r.req \in Nat /\ r.sleep \in BOOLEAN /\ r.close \in BOOLEAN
  BY HtmlServerAssumption
<1>2. Numeric(r.sleep) \in Nat
  BY DEF Numeric
<1>3. /\ s \in Headers /\ q \in Headers /\ c \in Headers /\ EndOfMessage \in Headers
      /\ s # EndOfMessage /\ q # EndOfMessage /\ c # EndOfMessage
  BY <1>1, <1>2 DEF Header, Headers, EndOfMessage
<1>4. /\ s.key = "X-Sleep" /\ s.value = Numeric(r.sleep)
      /\ q.key = "X-Request" /\ q.value = r.req /\ c.key = "X-must-close"
  BY DEF Header
<1> HIDE DEF s, q, c
<1>9. <<>> \in Seq(Headers) /\ <<c>> \in Seq(Headers) /\ <<EndOfMessage>> \in Seq(Headers)
  BY <1>3
<1>5. CASE r.req = 0 /\ ~r.close
  <2>1. Lines(r) = <<>> \o <<s>> \o <<>> \o <<EndOfMessage>>
    BY <1>5 DEF Lines, s
  <2>2. Lines(r) \in Seq(Headers)
    BY <2>1, <1>3
  <2>3. /\ Len(Lines(r)) = 2
        /\ Lines(r)[1] = s /\ Lines(r)[2] = EndOfMessage
    <3>1. Len(Lines(r)) = 2
      BY <2>1, <1>3
    <3>2. Lines(r)[1] = s
      BY <2>1, <1>3
    <3>3. Lines(r)[2] = EndOfMessage
      BY <2>1, <1>3
    <3> QED
      BY <3>1, <3>2, <3>3
  <2>4. \A i \in 1 .. 2 : i \in {1, 2}
    OBVIOUS
  <2>5. \A i \in 1 .. 2 - 1 : i \in {1}
    OBVIOUS
  <2>6. \A i \in 1 .. Len(Lines(r)) : Lines(r)[i] = EndOfMessage <=> i = Len(Lines(r))
    BY <2>3, <2>4, <1>3
  <2>7. ASSUME NEW i \in 1 .. Len(Lines(r)) - 1
        PROVE  /\ RequestAfter(r, i) = IF Lines(r)[i].key = "X-Request" THEN Lines(r)[i].value
                                       ELSE RequestAfter(r, i - 1)
               /\ SleepAfter(r, i) = IF Lines(r)[i].key = "X-Sleep" THEN Lines(r)[i].value
                                     ELSE SleepAfter(r, i - 1)
               /\ CloseAfter(r, i) <=> \/ CloseAfter(r, i - 1)
                                       \/ Lines(r)[i].key = "X-must-close"
    BY <2>3, <2>5, <1>1, <1>2, <1>4, <1>5 DEF RequestAfter, SleepAfter, CloseAfter
  <2> QED
    BY <2>2, <2>3, <2>6, <2>7
<1>6. CASE r.req = 0 /\ r.close
  <2>1. Lines(r) = <<>> \o <<s>> \o <<c>> \o <<EndOfMessage>>
    BY <1>6 DEF Lines, s, c
  <2>2. Lines(r) \in Seq(Headers)
    BY <2>1, <1>3
  <2>3. /\ Len(Lines(r)) = 3
        /\ Lines(r)[1] = s /\ Lines(r)[2] = c /\ Lines(r)[3] = EndOfMessage
    <3>1. Len(Lines(r)) = 3
      BY <2>1, <1>3
    <3>2. Lines(r)[1] = s
      BY <2>1, <1>3
    <3>3. Lines(r)[2] = c
      BY <2>1, <1>3
    <3>4. Lines(r)[3] = EndOfMessage
      BY <2>1, <1>3
    <3> QED
      BY <3>1, <3>2, <3>3, <3>4
  <2>4. \A i \in 1 .. 3 : i \in {1, 2, 3}
    OBVIOUS
  <2>5. \A i \in 1 .. 3 - 1 : i \in {1, 2}
    OBVIOUS
  <2>6. \A i \in 1 .. Len(Lines(r)) : Lines(r)[i] = EndOfMessage <=> i = Len(Lines(r))
    BY <2>3, <2>4, <1>3
  <2>7. ASSUME NEW i \in 1 .. Len(Lines(r)) - 1
        PROVE  /\ RequestAfter(r, i) = IF Lines(r)[i].key = "X-Request" THEN Lines(r)[i].value
                                       ELSE RequestAfter(r, i - 1)
               /\ SleepAfter(r, i) = IF Lines(r)[i].key = "X-Sleep" THEN Lines(r)[i].value
                                     ELSE SleepAfter(r, i - 1)
               /\ CloseAfter(r, i) <=> \/ CloseAfter(r, i - 1)
                                       \/ Lines(r)[i].key = "X-must-close"
    BY <2>3, <2>5, <1>1, <1>2, <1>4, <1>6 DEF RequestAfter, SleepAfter, CloseAfter
  <2> QED
    BY <2>2, <2>3, <2>6, <2>7
<1>7. CASE r.req # 0 /\ ~r.close
  <2>1. Lines(r) = <<q>> \o <<s>> \o <<>> \o <<EndOfMessage>>
    BY <1>7 DEF Lines, q, s
  <2>2. Lines(r) \in Seq(Headers)
    BY <2>1, <1>3
  <2>3. /\ Len(Lines(r)) = 3
        /\ Lines(r)[1] = q /\ Lines(r)[2] = s /\ Lines(r)[3] = EndOfMessage
    <3>1. Len(Lines(r)) = 3
      BY <2>1, <1>3
    <3>2. Lines(r)[1] = q
      BY <2>1, <1>3
    <3>3. Lines(r)[2] = s
      <4>1. (<<q>> \o <<s>> \o <<>> \o <<EndOfMessage>>)[2] = s
        BY <1>3, <1>9, SecondPart
      <4> QED
        BY <2>1, <4>1, Zenon
    <3>4. Lines(r)[3] = EndOfMessage
      BY <2>1, <1>3
    <3> QED
      BY <3>1, <3>2, <3>3, <3>4
  <2>4. \A i \in 1 .. 3 : i \in {1, 2, 3}
    OBVIOUS
  <2>5. \A i \in 1 .. 3 - 1 : i \in {1, 2}
    OBVIOUS
  <2>6. \A i \in 1 .. Len(Lines(r)) : Lines(r)[i] = EndOfMessage <=> i = Len(Lines(r))
    BY <2>3, <2>4, <1>3
  <2>7. ASSUME NEW i \in 1 .. Len(Lines(r)) - 1
        PROVE  /\ RequestAfter(r, i) = IF Lines(r)[i].key = "X-Request" THEN Lines(r)[i].value
                                       ELSE RequestAfter(r, i - 1)
               /\ SleepAfter(r, i) = IF Lines(r)[i].key = "X-Sleep" THEN Lines(r)[i].value
                                     ELSE SleepAfter(r, i - 1)
               /\ CloseAfter(r, i) <=> \/ CloseAfter(r, i - 1)
                                       \/ Lines(r)[i].key = "X-must-close"
    BY <2>3, <2>5, <1>1, <1>2, <1>4, <1>7 DEF RequestAfter, SleepAfter, CloseAfter
  <2> QED
    BY <2>2, <2>3, <2>6, <2>7
<1>8. CASE r.req # 0 /\ r.close
  <2>1. Lines(r) = <<q>> \o <<s>> \o <<c>> \o <<EndOfMessage>>
    BY <1>8 DEF Lines, q, s, c
  <2>2. Lines(r) \in Seq(Headers)
    BY <2>1, <1>3
  <2>3. /\ Len(Lines(r)) = 4
        /\ Lines(r)[1] = q /\ Lines(r)[2] = s /\ Lines(r)[3] = c /\ Lines(r)[4] = EndOfMessage
    <3>1. Len(Lines(r)) = 4
      BY <2>1, <1>3
    <3>2. Lines(r)[1] = q
      BY <2>1, <1>3
    <3>3. Lines(r)[2] = s
      <4>1. (<<q>> \o <<s>> \o <<c>> \o <<EndOfMessage>>)[2] = s
        BY <1>3, <1>9, SecondPart
      <4> QED
        BY <2>1, <4>1, Zenon
    <3>4. Lines(r)[3] = c
      BY <2>1, <1>3
    <3>5. Lines(r)[4] = EndOfMessage
      BY <2>1, <1>3
    <3> QED
      BY <3>1, <3>2, <3>3, <3>4, <3>5
  <2>4. \A i \in 1 .. 4 : i \in {1, 2, 3, 4}
    OBVIOUS
  <2>5. \A i \in 1 .. 4 - 1 : i \in {1, 2, 3}
    OBVIOUS
  <2>6. \A i \in 1 .. Len(Lines(r)) : Lines(r)[i] = EndOfMessage <=> i = Len(Lines(r))
    BY <2>3, <2>4, <1>3
  <2>7. ASSUME NEW i \in 1 .. Len(Lines(r)) - 1
        PROVE  /\ RequestAfter(r, i) = IF Lines(r)[i].key = "X-Request" THEN Lines(r)[i].value
                                       ELSE RequestAfter(r, i - 1)
               /\ SleepAfter(r, i) = IF Lines(r)[i].key = "X-Sleep" THEN Lines(r)[i].value
                                     ELSE SleepAfter(r, i - 1)
               /\ CloseAfter(r, i) <=> \/ CloseAfter(r, i - 1)
                                       \/ Lines(r)[i].key = "X-must-close"
    BY <2>3, <2>5, <1>1, <1>2, <1>4, <1>8 DEF RequestAfter, SleepAfter, CloseAfter
  <2> QED
    BY <2>2, <2>3, <2>6, <2>7
<1> QED
  BY <1>1, <1>5, <1>6, <1>7, <1>8

\* Before the first line the fields have the values of a reset, after the last one those
\* of the request.
LEMMA FieldsAtEnds ==
  ASSUME NEW r \in Requests
  PROVE  LET last == Len(Lines(r)) - 1
         IN  /\ RequestAfter(r, 0) = 0 /\ SleepAfter(r, 0) = 0 /\ ~CloseAfter(r, 0)
             /\ RequestAfter(r, last) = r.req
             /\ SleepAfter(r, last) \in Nat /\ (SleepAfter(r, last) # 0 <=> r.sleep)
             /\ CloseAfter(r, last) = r.close
<1>1. /\ r.req \in Nat /\ r.sleep \in BOOLEAN /\ r.close \in BOOLEAN
  BY HtmlServerAssumption
<1>2. Len(Lines(r)) \in 2 .. 4
  BY LinesShape
<1>3. Len(Lines(r)) = 2 => r.req = 0
  BY <1>1 DEF Lines
<1>4. Len(Lines(r)) - 1 >= 1 /\ (Len(Lines(r)) - 1 >= 2 \/ r.req = 0)
  BY <1>2, <1>3
<1>5. ~CloseAfter(r, 0)
  BY <1>2 DEF CloseAfter
<1>6. CloseAfter(r, Len(Lines(r)) - 1) = r.close
  <2>1. (Len(Lines(r)) - 1 >= Len(Lines(r)) - 1) = TRUE
    BY <1>2
  <2> QED
    BY <2>1, <1>1, Zenon DEF CloseAfter
<1> QED
  BY <1>1, <1>4, <1>5, <1>6 DEF RequestAfter, SleepAfter, Numeric

-----------------------------------------------------------------------------
(* The stream.                                                             *)

\* The first line that was not read yet is the next line of request m_reply + 1, and it
\* is the empty line exactly when that request ends there.
LEMMA NextLine ==
  ASSUME Places, NEW cut, Cuts(cut), stream # <<>>
  PROVE  LET r == sent[m_reply + 1]
             i == 1 - cut[m_reply]
         IN  /\ m_reply < Len(sent) /\ r \in Requests
             /\ i \in 1 .. Len(Lines(r)) /\ Head(stream) = Lines(r)[i]
             /\ i = Len(Lines(r)) <=> cut[m_reply + 1] = 1
<1> DEFINE r == sent[m_reply + 1]
           i == 1 - cut[m_reply]
<1>1. /\ cut \in [Nat -> Int] /\ Len(sent) \in Nat /\ m_reply \in 0 .. Len(sent)
      /\ Len(stream) \in Nat /\ Len(stream) > 0 /\ Head(stream) = stream[1]
  BY DEF Places, Cuts
<1>2. m_reply < Len(sent)
  BY <1>1 DEF Cuts
<1>3. r \in Requests
  BY <1>1, <1>2 DEF Places
<1>4. Len(Lines(r)) \in 2 .. 4
  BY <1>3, LinesShape
<1>5. /\ cut[m_reply + 1] = cut[m_reply] + Len(Lines(r))
      /\ cut[m_reply + 1] > 0 /\ cut[m_reply] <= 0
      /\ \A j \in 1 .. Len(Lines(r)) :
           cut[m_reply] + j >= 1 => stream[cut[m_reply] + j] = Lines(r)[j]
  <2>1. m_reply + 1 \in m_reply + 1 .. Len(sent) /\ (m_reply + 1) - 1 = m_reply
    BY <1>1, <1>2
  <2> QED
    BY <1>2, <2>1 DEF Cuts
<1>6. cut[m_reply] \in Int
  BY <1>1
<1>7. i \in 1 .. Len(Lines(r)) /\ cut[m_reply] + i = 1
  BY <1>4, <1>5, <1>6
<1> QED
  <2> HIDE DEF r, i
  <2>1. Head(stream) = Lines(r)[i]
    BY <1>1, <1>4, <1>5, <1>6, <1>7
  <2>2. i = Len(Lines(r)) <=> cut[m_reply + 1] = 1
    BY <1>4, <1>5, <1>6 DEF i
  <2> QED
    BY <2>1, <2>2, <1>2, <1>3, <1>7 DEF r, i

\* Reading a line moves every cut one position down.
LEMMA CutsMove ==
  ASSUME Places, NEW cut, Cuts(cut), stream # <<>>
  PROVE  sent' = sent /\ stream' = Tail(stream) =>
         LET c == [k \in Nat |-> cut[k] - 1]
         IN  /\ c \in [Nat -> Int]
             /\ c[Len(sent)] = Len(stream')
             /\ \A k \in m_reply + 1 .. Len(sent) :
                  /\ c[k] = c[k - 1] + Len(Lines(sent[k]))
                  /\ c[k] <= Len(stream')
                  /\ \A i \in 1 .. Len(Lines(sent[k])) :
                       c[k - 1] + i >= 1 => stream'[c[k - 1] + i] = Lines(sent[k])[i]
<1> DEFINE c == [k \in Nat |-> cut[k] - 1]
<1>0. HAVE sent' = sent /\ stream' = Tail(stream)
<1>1. /\ cut \in [Nat -> Int] /\ Len(sent) \in Nat /\ m_reply \in 0 .. Len(sent)
      /\ Len(stream) \in Nat /\ Len(stream) > 0
  BY DEF Places, Cuts
<1>2. /\ Len(stream') = Len(stream) - 1
      /\ \A j \in 1 .. Len(stream) - 1 : stream'[j] = stream[j + 1]
  BY <1>0, <1>1 DEF Places
<1>3. c \in [Nat -> Int] /\ \A k \in Nat : c[k] = cut[k] - 1
  BY <1>1
<1>4. c[Len(sent)] = Len(stream')
  BY <1>1, <1>2, <1>3 DEF Cuts
<1> HIDE DEF c
<1>5. ASSUME NEW k \in m_reply + 1 .. Len(sent)
      PROVE  /\ c[k] = c[k - 1] + Len(Lines(sent[k]))
             /\ c[k] <= Len(stream')
             /\ \A i \in 1 .. Len(Lines(sent[k])) :
                  c[k - 1] + i >= 1 => stream'[c[k - 1] + i] = Lines(sent[k])[i]
  <2> DEFINE begin == cut[k - 1]
             size  == Len(Lines(sent[k]))
             total == Len(stream)
  <2>1. /\ k \in Nat /\ k - 1 \in Nat
    BY <1>1
  <2>2. sent[k] \in Requests
    BY <1>1 DEF Places
  <2>3. size \in 2 .. 4 /\ begin \in Int /\ total \in Nat /\ total > 0
    BY <2>1, <2>2, <1>1, LinesShape
  <2>4. cut[k] = begin + size /\ begin + size <= total
    BY DEF Cuts
  <2>5. \A i \in 1 .. size : begin + i >= 1 => stream[begin + i] = Lines(sent[k])[i]
    BY DEF Cuts
  <2>6. c[k - 1] = begin - 1 /\ c[k] = (begin + size) - 1
    BY <1>3, <2>1, <2>4
  <2>7. Len(stream') = total - 1 /\ \A j \in 1 .. total - 1 : stream'[j] = stream[j + 1]
    BY <1>2
  <2> HIDE DEF begin, size, total
  <2>8. ASSUME NEW i \in 1 .. size, (begin - 1) + i >= 1
        PROVE  stream'[(begin - 1) + i] = Lines(sent[k])[i]
    <3>1. /\ (begin - 1) + i \in 1 .. total - 1
          /\ ((begin - 1) + i) + 1 = begin + i /\ begin + i >= 1
      BY <2>3, <2>4, <2>8
    <3>2. stream'[(begin - 1) + i] = stream[begin + i]
      BY <3>1, <2>7
    <3> QED
      BY <3>1, <3>2, <2>5
  <2>9. (begin + size) - 1 = (begin - 1) + size /\ (begin + size) - 1 <= total - 1
    BY <2>3, <2>4
  <2> QED
    BY <2>6, <2>7, <2>8, <2>9 DEF size
<1> QED
  BY <1>3, <1>4, <1>5 DEF c

\* handle_read parses a header: the fields are those after one more line.
LEMMA HeaderKeepsStream ==
  ASSUME Places, StreamInv, Handle_read_header
  PROVE  StreamInv'
<1>1. PICK cut \in [Nat -> Int] : Cuts(cut) /\ Fields(cut)
  BY DEF StreamInv
<1> DEFINE c == [k \in Nat |-> cut[k] - 1]
           r == sent[m_reply + 1]
           i == 1 - cut[m_reply]
<1>2. /\ sent' = sent /\ stream' = Tail(stream) /\ m_reply' = m_reply
      /\ stream # <<>> /\ Head(stream) # EndOfMessage
  BY DEF Handle_read_header, Feeds, Places
<1>3. /\ m_reply \in Nat /\ Len(sent) \in Nat /\ cut[m_reply] \in Int
      /\ cut[m_reply + 1] \in Int
  BY <1>1 DEF Places
<1>4. /\ m_reply < Len(sent) /\ r \in Requests
      /\ i \in 1 .. Len(Lines(r)) /\ Head(stream) = Lines(r)[i]
      /\ i = Len(Lines(r)) <=> cut[m_reply + 1] = 1
  BY <1>1, <1>2, NextLine
<1>5. /\ Len(Lines(r)) \in 2 .. 4
      /\ Lines(r)[i] = EndOfMessage <=> i = Len(Lines(r))
  BY <1>4, LinesShape
<1>6. i \in 1 .. Len(Lines(r)) - 1 /\ cut[m_reply + 1] # 1
  BY <1>2, <1>4, <1>5
<1>7. /\ c \in [Nat -> Int]
      /\ c[Len(sent)] = Len(stream')
      /\ \A k \in m_reply + 1 .. Len(sent) :
           /\ c[k] = c[k - 1] + Len(Lines(sent[k]))
           /\ c[k] <= Len(stream')
           /\ \A j \in 1 .. Len(Lines(sent[k])) :
                c[k - 1] + j >= 1 => stream'[c[k - 1] + j] = Lines(sent[k])[j]
  BY <1>1, <1>2, CutsMove
<1>8. /\ c[m_reply] = cut[m_reply] - 1 /\ c[m_reply + 1] = cut[m_reply + 1] - 1
  BY <1>3
<1> HIDE DEF c, r, i
<1>9. c[m_reply] <= 0 /\ c[m_reply + 1] > 0
  <2>1. cut[m_reply] <= 0 /\ cut[m_reply + 1] > 0
    BY <1>1, <1>4 DEF Cuts
  <2> QED
    BY <2>1, <1>3, <1>6, <1>8
<1>10. 0 - cut[m_reply] = i - 1 /\ 0 - c[m_reply] = i
  BY <1>3, <1>8 DEF i
<1>11. Cuts(c)'
  BY <1>2, <1>7, <1>9 DEF Cuts
<1>12. /\ m_request = RequestAfter(r, i - 1) /\ m_sleep = SleepAfter(r, i - 1)
       /\ m_must_close = CloseAfter(r, i - 1)
  BY <1>1, <1>4, <1>10 DEF Fields, r
<1>13. /\ RequestAfter(r, i) = IF Lines(r)[i].key = "X-Request" THEN Lines(r)[i].value
                               ELSE RequestAfter(r, i - 1)
       /\ SleepAfter(r, i) = IF Lines(r)[i].key = "X-Sleep" THEN Lines(r)[i].value
                             ELSE SleepAfter(r, i - 1)
       /\ CloseAfter(r, i) <=> \/ CloseAfter(r, i - 1)
                               \/ Lines(r)[i].key = "X-must-close"
  BY <1>4, <1>6, LinesShape
<1>14. /\ m_request' = RequestAfter(r, i) /\ m_sleep' = SleepAfter(r, i)
  BY <1>4, <1>12, <1>13, Zenon DEF Handle_read_header
<1>15. m_must_close' = CloseAfter(r, i)
  BY <1>4, <1>12, <1>13, Zenon DEF Handle_read_header, CloseAfter
<1>16. Fields(c)'
  <2>1. r = (sent[m_reply + 1])' /\ (m_reply < Len(sent))'
    BY <1>2, <1>4 DEF r
  <2>2. 0 - c[m_reply'] = i
    BY <1>2, <1>10
  <2> QED
    BY <2>1, <2>2, <1>14, <1>15 DEF Fields, RequestAfter, SleepAfter, CloseAfter
<1> QED
  BY <1>7, <1>11, <1>16 DEF StreamInv

\* handle_read reaches the end of a request: it is request m_reply + 1, the fields hold
\* its values, and the reset makes them those of a request of which nothing was read.
LEMMA EndKeepsStream ==
  ASSUME Places, StreamInv, Handle_read_end_of_message
  PROVE  /\ StreamInv'
         /\ m_reply < Len(sent)
         /\ LET r == sent[m_reply + 1]
            IN  m_request = r.req /\ (m_sleep # 0 <=> r.sleep) /\ m_must_close = r.close
<1>1. PICK cut \in [Nat -> Int] : Cuts(cut) /\ Fields(cut)
  BY DEF StreamInv
<1> DEFINE c == [k \in Nat |-> cut[k] - 1]
           r == sent[m_reply + 1]
           i == 1 - cut[m_reply]
           n == m_reply + 1
<1>2. /\ sent' = sent /\ stream' = Tail(stream) /\ m_reply' = n
      /\ stream # <<>> /\ Head(stream) = EndOfMessage
  BY DEF Handle_read_end_of_message, Feeds, Places
<1>3. /\ m_reply \in Nat /\ Len(sent) \in Nat /\ cut[m_reply] \in Int
      /\ cut[m_reply + 1] \in Int
  BY <1>1 DEF Places
<1>4. /\ m_reply < Len(sent) /\ r \in Requests
      /\ i \in 1 .. Len(Lines(r)) /\ Head(stream) = Lines(r)[i]
      /\ i = Len(Lines(r)) <=> cut[m_reply + 1] = 1
  BY <1>1, <1>2, NextLine
<1>5. /\ Len(Lines(r)) \in 2 .. 4
      /\ Lines(r)[i] = EndOfMessage <=> i = Len(Lines(r))
  BY <1>4, LinesShape
<1>6. i = Len(Lines(r)) /\ cut[m_reply + 1] = 1
  BY <1>2, <1>4, <1>5
<1>7. /\ c \in [Nat -> Int]
      /\ c[Len(sent)] = Len(stream')
      /\ \A k \in m_reply + 1 .. Len(sent) :
           /\ c[k] = c[k - 1] + Len(Lines(sent[k]))
           /\ c[k] <= Len(stream')
           /\ \A j \in 1 .. Len(Lines(sent[k])) :
                c[k - 1] + j >= 1 => stream'[c[k - 1] + j] = Lines(sent[k])[j]
  BY <1>1, <1>2, CutsMove
<1>8. c[n] = 0
  BY <1>3, <1>6
<1>9. 0 - cut[m_reply] = Len(Lines(r)) - 1
  BY <1>3, <1>6
<1> HIDE DEF c, r, i
<1>10. n < Len(sent) => /\ c[n + 1] > 0
                        /\ sent[n + 1] \in Requests
  <2> HAVE n < Len(sent)
  <2>1. n + 1 \in m_reply + 1 .. Len(sent) /\ (n + 1) - 1 = n /\ n + 1 \in 1 .. Len(sent)
    BY <1>3
  <2>2. sent[n + 1] \in Requests
    BY <2>1 DEF Places
  <2> DEFINE size == Len(Lines(sent[n + 1]))
  <2>3. size \in 2 .. 4
    BY <2>2, LinesShape
  <2>4. c[n + 1] = c[(n + 1) - 1] + size
    BY <1>7, <2>1
  <2>5. c[n + 1] = 0 + size
    BY <2>1, <2>4, <1>8
  <2> HIDE DEF n, size
  <2> QED
    BY <2>2, <2>3, <2>5
<1>11. Cuts(c)'
  <2>1. n + 1 .. Len(sent) \subseteq m_reply + 1 .. Len(sent)
    BY <1>3
  <2> HIDE DEF n
  <2>2. \A k \in n + 1 .. Len(sent) :
          /\ c[k] = c[k - 1] + Len(Lines(sent[k]))
          /\ c[k] <= Len(stream')
          /\ \A j \in 1 .. Len(Lines(sent[k])) :
               c[k - 1] + j >= 1 => stream'[c[k - 1] + j] = Lines(sent[k])[j]
    BY <2>1, <1>7, Zenon
  <2>3. c[n] <= 0
    BY <1>8
  <2> QED
    BY <2>2, <2>3, <1>2, <1>7, <1>10 DEF Cuts
<1>12. Fields(c)'
  <2>1. m_request' = 0 /\ m_sleep' = 0 /\ m_must_close' = FALSE
    BY DEF Handle_read_end_of_message, Reset_headers
  <2>2. 0 - c[m_reply'] = 0
    BY <1>2, <1>8
  <2>3. CASE n < Len(sent)
    <3>1. sent[n + 1] \in Requests
      BY <1>10, <2>3
    <3>2. /\ RequestAfter(sent[n + 1], 0) = 0 /\ SleepAfter(sent[n + 1], 0) = 0
          /\ CloseAfter(sent[n + 1], 0) = FALSE
      BY <3>1, FieldsAtEnds, Zenon DEF CloseAfter
    <3> HIDE DEF n
    <3> QED
      BY <2>1, <2>2, <2>3, <3>2, <1>2 DEF Fields, RequestAfter, SleepAfter, CloseAfter
  <2>4. CASE ~(n < Len(sent))
    <3> HIDE DEF n
    <3> QED
      BY <2>1, <2>4, <1>2 DEF Fields
  <2> QED
    BY <2>3, <2>4
<1>13. m_request = r.req /\ (m_sleep # 0 <=> r.sleep) /\ m_must_close = r.close
  <2>1. /\ m_request = RequestAfter(r, Len(Lines(r)) - 1)
        /\ m_sleep = SleepAfter(r, Len(Lines(r)) - 1)
        /\ m_must_close = CloseAfter(r, Len(Lines(r)) - 1)
    BY <1>1, <1>4, <1>9 DEF Fields, r
  <2> QED
    BY <2>1, <1>4, FieldsAtEnds
<1> QED
  BY <1>4, <1>7, <1>11, <1>12, <1>13 DEF StreamInv, r

\* The client sends a request: it ends where the stream ends now.
LEMMA SendKeepsStream ==
  ASSUME Places, StreamInv, NEW r \in Requests, Client_send(r)
  PROVE  StreamInv'
<1>1. PICK cut \in [Nat -> Int] : Cuts(cut) /\ Fields(cut)
  BY DEF StreamInv
<1> DEFINE n == Len(sent)
           size == Len(Lines(r))
           total == Len(stream)
<1>2. /\ n \in Nat /\ total \in Nat /\ m_reply \in 0 .. n
      /\ \A k \in 1 .. n : sent[k] \in Requests
      /\ stream \in Seq(Headers)
  BY DEF Places
<1>3. Lines(r) \in Seq(Headers) /\ size \in 2 .. 4
  BY LinesShape
<1>4. /\ Len(sent') = n + 1 /\ sent'[n + 1] = r /\ \A k \in 1 .. n : sent'[k] = sent[k]
      /\ m_reply' = m_reply
  BY DEF Client_send, Places
<1>5. /\ Len(stream') = total + size
      /\ \A j \in 1 .. total : stream'[j] = stream[j]
      /\ \A j \in 1 .. size : stream'[total + j] = Lines(r)[j]
  BY <1>2, <1>3 DEF Client_send
<1>6. PICK c \in [Nat -> Int] :
        c[n + 1] = total + size /\ \A k \in 0 .. n : c[k] = cut[k] /\ cut[k] \in Int
  <2>1. /\ [cut EXCEPT ![n + 1] = total + size] \in [Nat -> Int]
        /\ [cut EXCEPT ![n + 1] = total + size][n + 1] = total + size
        /\ \A k \in 0 .. n : /\ [cut EXCEPT ![n + 1] = total + size][k] = cut[k]
                           /\ cut[k] \in Int
    BY <1>1, <1>2, <1>3
  <2> QED
    BY <2>1
<1>7. cut[n] = total /\ cut[m_reply] <= 0
  BY <1>1 DEF Cuts
<1> HIDE DEF size, total, n
<1>8. c[m_reply] <= 0
  BY <1>2, <1>6, <1>7
<1>9. c[m_reply + 1] > 0
  <2>1. CASE m_reply < n
    <3>1. cut[m_reply + 1] > 0
      BY <2>1, <1>1 DEF Cuts, n
    <3> QED
      BY <2>1, <3>1, <1>2, <1>6
  <2>2. CASE m_reply = n
    BY <2>2, <1>2, <1>3, <1>6
  <2> QED
    BY <2>1, <2>2, <1>2
<1>10. ASSUME NEW k \in m_reply + 1 .. n
       PROVE  /\ c[k] = c[k - 1] + Len(Lines(sent'[k]))
              /\ c[k] <= total + size
              /\ \A i \in 1 .. Len(Lines(sent'[k])) :
                   c[k - 1] + i >= 1 => stream'[c[k - 1] + i] = Lines(sent'[k])[i]
  <2> DEFINE begin == cut[k - 1]
             len   == Len(Lines(sent[k]))
  <2>1. k \in 0 .. n /\ k - 1 \in 0 .. n /\ k \in 1 .. n
    BY <1>2
  <2>2. sent'[k] = sent[k] /\ c[k] = cut[k] /\ c[k - 1] = begin /\ begin \in Int
    BY <2>1, <1>4, <1>6
  <2>3. len \in 2 .. 4
    BY <2>1, <1>2, LinesShape
  <2>4. cut[k] = begin + len /\ begin + len <= total
    BY <1>1 DEF Cuts, n, total
  <2>5. \A i \in 1 .. len : begin + i >= 1 => stream[begin + i] = Lines(sent[k])[i]
    BY <1>1 DEF Cuts, n, total
  <2> HIDE DEF begin, len
  <2>6. ASSUME NEW i \in 1 .. len, begin + i >= 1
        PROVE  stream'[begin + i] = Lines(sent[k])[i]
    <3>1. begin + i \in 1 .. total
      BY <2>2, <2>3, <2>4, <2>6, <1>2
    <3> QED
      BY <3>1, <2>5, <2>6, <1>5
  <2>7. begin + len <= total + size
    BY <2>2, <2>3, <2>4, <1>2, <1>3
  <2> QED
    BY <2>2, <2>4, <2>6, <2>7 DEF len
<1>11. /\ c[n + 1] = c[(n + 1) - 1] + Len(Lines(sent'[n + 1]))
       /\ \A i \in 1 .. Len(Lines(sent'[n + 1])) :
            c[(n + 1) - 1] + i >= 1 => stream'[c[(n + 1) - 1] + i] = Lines(sent'[n + 1])[i]
  <2>1. (n + 1) - 1 = n /\ c[n] = total
    BY <1>2, <1>6, <1>7
  <2> QED
    BY <2>1, <1>4, <1>5, <1>6 DEF size
<1>12. \A k \in m_reply + 1 .. n + 1 : k \in m_reply + 1 .. n \/ k = n + 1
  BY <1>2
<1>13. Cuts(c)'
  <2>1. \A k \in m_reply + 1 .. n + 1 :
          /\ c[k] = c[k - 1] + Len(Lines(sent'[k]))
          /\ c[k] <= total + size
          /\ \A i \in 1 .. Len(Lines(sent'[k])) :
               c[k - 1] + i >= 1 => stream'[c[k - 1] + i] = Lines(sent'[k])[i]
    <3>1. total + size <= total + size
      BY <1>2, <1>3
    <3> QED
      BY <3>1, <1>6, <1>10, <1>11, <1>12
  <2> QED
    BY <2>1, <1>4, <1>5, <1>6, <1>8, <1>9 DEF Cuts
<1>14. Fields(c)'
  <2>1. UNCHANGED headerVars /\ m_reply < Len(sent') /\ c[m_reply] = cut[m_reply]
    BY <1>2, <1>4, <1>6 DEF Client_send
  <2>2. CASE m_reply < n
    <3>1. sent'[m_reply + 1] = sent[m_reply + 1]
      BY <2>2, <1>2, <1>4
    <3> QED
      BY <3>1, <2>1, <2>2, <1>1, <1>4 DEF Fields, headerVars, n, RequestAfter, SleepAfter,
        CloseAfter
  <2>3. CASE m_reply = n
    <3>1. sent'[m_reply + 1] = r
      BY <2>3, <1>4
    <3>2. m_request = 0 /\ m_sleep = 0 /\ m_must_close = FALSE
      BY <2>3, <1>1, <1>2 DEF Fields, n
    <3>3. 0 - c[m_reply] = 0
      BY <2>1, <2>3, <1>2, <1>7
    <3>4. /\ RequestAfter(r, 0) = 0 /\ SleepAfter(r, 0) = 0 /\ CloseAfter(r, 0) = FALSE
      BY FieldsAtEnds, Zenon DEF CloseAfter
    <3> QED
      BY <3>1, <3>2, <3>3, <3>4, <2>1, <1>4 DEF Fields, headerVars, RequestAfter, SleepAfter,
        CloseAfter
  <2> QED
    BY <2>2, <2>3, <1>2
<1> QED
  BY <1>6, <1>13, <1>14 DEF StreamInv

-----------------------------------------------------------------------------
(* The replies.                                                            *)

\* A set of natural numbers that is not empty has a minimum.
LEMMA MinIsLeast ==
  ASSUME NEW I \in SUBSET Nat, I # {}
  PROVE  Min(I) \in I /\ \A i \in I : Min(I) <= i
<1>1. \E x \in I : \A y \in I : ~(<<y, x>> \in OpToRel(<, Nat))
  BY NatLessThanWellFounded, WFMin
<1>2. PICK x \in I : \A y \in I : ~(<<y, x>> \in OpToRel(<, Nat))
  BY <1>1
<1>3. \A y \in I : x <= y
  <2>1. SUFFICES ASSUME NEW y \in I, y < x PROVE FALSE
    OBVIOUS
  <2>2. <<y, x>> \in OpToRel(<, Nat)
    BY <2>1 DEF OpToRel
  <2> QED
    BY <1>2, <2>2
<1> QED
  BY <1>3, Zenon DEF Min

\* The loop of process_replies stops at the first reply that sleeps or closes, if any.
LEMMA FirstBlocking ==
  ASSUME NEW q, Len(q) \in Nat
  PROVE  LET first == SelectInSeq(q, Blocks)
         IN  \/ first = 0 /\ \A k \in 1 .. Len(q) : ~Blocks(q[k])
             \/ /\ first \in 1 .. Len(q) /\ Blocks(q[first])
                /\ \A k \in 1 .. first - 1 : ~Blocks(q[k])
<1> DEFINE I == {i \in 1 .. Len(q) : Blocks(q[i])}
<1>1. SelectInSeq(q, Blocks) = IF I # {} THEN Min(I) ELSE 0
  BY Zenon DEF SelectInSeq
<1>2. CASE I = {}
  BY <1>1, <1>2
<1>3. CASE I # {}
  <2>1. I \in SUBSET Nat
    OBVIOUS
  <2>2. Min(I) \in I /\ \A i \in I : Min(I) <= i
    BY <1>3, <2>1, MinIsLeast
  <2>3. SelectInSeq(q, Blocks) = Min(I)
    BY <1>1, <1>3
  <2>4. ASSUME NEW k \in 1 .. Min(I) - 1 PROVE ~Blocks(q[k])
    BY <2>2
  <2> QED
    BY <2>2, <2>3, <2>4
<1> QED
  BY <1>2, <1>3

\* What async_write was called with, after the first `last' replies of q were written.
LEMMA WrittenGrows ==
  ASSUME NEW w \in Seq(Writes), NEW q \in Seq(Replies), NEW last \in 0 .. Len(q)
  PROVE  LET new == w \o [k \in 1 .. last |-> [nr |-> q[k].nr, req |-> q[k].req]]
         IN  /\ new \in Seq(Writes) /\ Len(new) = Len(w) + last
             /\ \A k \in 1 .. Len(w) : new[k] = w[k]
             /\ \A k \in 1 .. last :
                  new[Len(w) + k] = [nr |-> q[k].nr, req |-> q[k].req]
<1> DEFINE more == [k \in 1 .. last |-> [nr |-> q[k].nr, req |-> q[k].req]]
<1>1. last \in Nat /\ Len(q) \in Nat
  OBVIOUS
<1>2. \A k \in 1 .. last : q[k] \in Replies
  BY <1>1
<1>3. \A k \in 1 .. last : [nr |-> q[k].nr, req |-> q[k].req] \in Writes
  BY <1>2 DEF Replies, Writes
<1>4. more \in Seq(Writes) /\ Len(more) = last
  BY <1>1, <1>3, IsASeq
<1>5. \A k \in 1 .. last : more[k] = [nr |-> q[k].nr, req |-> q[k].req]
  OBVIOUS
<1> HIDE DEF more
<1>6. /\ w \o more \in Seq(Writes) /\ Len(w \o more) = Len(w) + last
      /\ \A k \in 1 .. Len(w) : (w \o more)[k] = w[k]
      /\ \A k \in 1 .. last : (w \o more)[Len(w) + k] = more[k]
  BY <1>1, <1>4
<1> QED
  BY <1>5, <1>6 DEF more

\* Destroying replies cancels running timers, and does nothing else.
LEMMA DestroyAborts ==
  ASSUME NEW q, NEW timers \in [Nr -> TimerStates]
  PROVE  /\ Destroy(q, timers) \in [Nr -> TimerStates]
         /\ \A m \in Nr : timers[m] # "armed" => Destroy(q, timers)[m] = timers[m]
BY DEF Destroy, TimerStates

\* process_replies on a connection that is open writes the replies up to the first one
\* that sleeps or closes; it closes when that one does not sleep.
LEMMA ProcessCases ==
  ASSUME NEW q \in Seq(Replies), NEW timers, ~m_closed, Process_replies(q, timers)
  PROVE  \E last \in 0 .. Len(q) :
           /\ written' = written \o [k \in 1 .. last |-> [nr |-> q[k].nr, req |-> q[k].req]]
           /\ \/ /\ \A k \in 1 .. last : ~q[k].sleeping /\ ~q[k].close
                 /\ m_reply_queue' = SubSeq(q, last + 1, Len(q))
                 /\ timer' = timers /\ UNCHANGED <<m_closed, read>>
              \/ \E f \in 1 .. Len(q) :
                   /\ \A k \in 1 .. f - 1 : ~q[k].sleeping /\ ~q[k].close
                   /\ ~q[f].sleeping /\ q[f].close
                   /\ last = IF q[f].req # 0 THEN f ELSE f - 1
                   /\ m_reply_queue' = <<>> /\ timer' = Destroy(q, timers) /\ m_closed'
                   /\ read' = IF read = "pending" THEN "aborted" ELSE read
<1> DEFINE first  == SelectInSeq(q, Blocks)
           passed == IF first = 0 THEN Len(q) ELSE first - 1
           closes == first # 0 /\ ~q[first].sleeping
           last   == IF closes /\ WritesBeforeClose(q[first]) THEN first ELSE passed
<1>1. /\ written' = written \o [k \in 1 .. last |-> [nr |-> q[k].nr, req |-> q[k].req]]
      /\ IF closes THEN Close(q, timers)
         ELSE /\ m_reply_queue' = SubSeq(q, passed + 1, Len(q))
              /\ timer' = timers
              /\ UNCHANGED <<m_closed, read>>
  BY Zenon DEF Process_replies, IsClosed
<1>2. Len(q) \in Nat
  OBVIOUS
<1>3. \/ first = 0 /\ \A k \in 1 .. Len(q) : ~Blocks(q[k])
      \/ /\ first \in 1 .. Len(q) /\ Blocks(q[first])
         /\ \A k \in 1 .. first - 1 : ~Blocks(q[k])
  BY <1>2, FirstBlocking
<1> HIDE DEF first
<1>4. CASE ~closes
  <2>1. last = passed
    BY <1>4
  <2>2. passed \in 0 .. Len(q) /\ \A k \in 1 .. passed : ~q[k].sleeping /\ ~q[k].close
    BY <1>2, <1>3 DEF Blocks
  <2>3. m_reply_queue' = SubSeq(q, passed + 1, Len(q)) /\ timer' = timers
        /\ UNCHANGED <<m_closed, read>>
    BY <1>1, <1>4
  <2> HIDE DEF closes, passed, last
  <2> QED
    BY <2>1, <2>2, <2>3, <1>1, Zenon
<1>5. CASE closes
  <2>1. /\ first \in 1 .. Len(q) /\ ~q[first].sleeping /\ q[first].close
        /\ \A k \in 1 .. first - 1 : ~q[k].sleeping /\ ~q[k].close
    BY <1>3, <1>5 DEF Blocks
  <2>2. last = IF q[first].req # 0 THEN first ELSE first - 1
    BY <1>5 DEF WritesBeforeClose
  <2>3. last \in 0 .. Len(q)
    BY <1>2, <2>1, <2>2
  <2>4. /\ m_reply_queue' = <<>> /\ timer' = Destroy(q, timers) /\ m_closed'
        /\ read' = IF read = "pending" THEN "aborted" ELSE read
    BY <1>1, <1>5, Zenon DEF Close
  <2> HIDE DEF closes, passed, last
  <2> QED
    BY <2>1, <2>2, <2>3, <2>4, <1>1, Zenon
<1> QED
  BY <1>4, <1>5

\* process_replies keeps the invariant of the replies, whatever its caller did to the
\* queue and the timers, as long as that kept it.
LEMMA ProcessKeepsReplies ==
  ASSUME Places, NEW q, NEW timers, NEW n, RepliesInv(q, timers, n),
         Process_replies(q, timers), sent' = sent, client' = client, m_reply' = n
  PROVE  RepliesInv(m_reply_queue, timer, m_reply)'
<1>1. /\ Len(sent) \in Nat /\ MaxSent \in Nat /\ Len(sent) <= MaxSent
      /\ n \in 0 .. Len(sent) /\ timers \in [Nr -> TimerStates]
      /\ \A m \in Nr : m > n => timers[m] = "none"
      /\ q \in Seq(Replies) /\ Len(q) \in Nat /\ Len(q) <= n
      /\ written \in Seq(Writes) /\ Len(written) \in Nat /\ Len(written) <= n
  BY HtmlServerAssumption DEF Places, RepliesInv, QueueInv, WrittenInv
<1>2. CASE m_closed
  <2>1. /\ m_reply_queue' = q /\ timer' = timers /\ written' = written
        /\ m_closed' = m_closed
    BY <1>2, Zenon DEF Process_replies, IsClosed
  <2>2. QueueInv(m_reply_queue, timer, m_reply)'
    BY <2>1 DEF RepliesInv, QueueInv
  <2>3. WrittenInv(timer)' /\ ClosedInv(m_reply)'
    BY <2>1, <1>2 DEF RepliesInv, WrittenInv, ClosedInv
  <2> QED
    BY <2>1, <2>2, <2>3, <1>1, <1>2 DEF RepliesInv
<1>3. CASE ~m_closed
  <2>1. PICK last \in 0 .. Len(q) :
          /\ written' = written \o [k \in 1 .. last |-> [nr |-> q[k].nr, req |-> q[k].req]]
          /\ \/ /\ \A k \in 1 .. last : ~q[k].sleeping /\ ~q[k].close
                /\ m_reply_queue' = SubSeq(q, last + 1, Len(q))
                /\ timer' = timers /\ UNCHANGED <<m_closed, read>>
             \/ \E f \in 1 .. Len(q) :
                  /\ \A k \in 1 .. f - 1 : ~q[k].sleeping /\ ~q[k].close
                  /\ ~q[f].sleeping /\ q[f].close
                  /\ last = IF q[f].req # 0 THEN f ELSE f - 1
                  /\ m_reply_queue' = <<>> /\ timer' = Destroy(q, timers) /\ m_closed'
                  /\ read' = IF read = "pending" THEN "aborted" ELSE read
    BY <1>1, <1>3, ProcessCases
  <2> DEFINE w == Len(written)
  <2>2. w \in Nat /\ Len(q) + w = n /\ last \in Nat
    BY <1>1, <1>3 DEF RepliesInv
  <2>3. /\ written' \in Seq(Writes) /\ Len(written') = w + last
        /\ \A k \in 1 .. w : written'[k] = written[k]
        /\ \A k \in 1 .. last : written'[w + k] = [nr |-> q[k].nr, req |-> q[k].req]
    BY <1>1, <2>1, WrittenGrows
  <2> HIDE DEF w
  <2>4. \A k \in 1 .. Len(q) :
          /\ q[k].nr = w + k /\ q[k].req = sent[w + k].req /\ q[k].close = sent[w + k].close
          /\ q[k].sleeping <=> timers[w + k] \in {"armed", "expired"}
          /\ sent[w + k].sleep => timers[w + k] \in {"armed", "expired", "done"}
    <3>1. \A k \in 1 .. Len(q) : n - Len(q) + k = w + k
      BY <1>1, <2>2
    <3> QED
      BY <3>1 DEF RepliesInv, QueueInv
  <2>5. \A k \in 1 .. w : /\ written[k] = [nr |-> k, req |-> sent[k].req]
                          /\ sent[k].sleep => timers[k] = "done"
                          /\ ~sent[k].close
    BY <1>3 DEF RepliesInv, WrittenInv, w
  <2>6. \A k \in 1 .. w + last : k \in 1 .. w \/ (k - w \in 1 .. last /\ k = w + (k - w))
    BY <2>2
  <2>7. \A k \in 1 .. w + last : written'[k] = [nr |-> k, req |-> sent[k].req]
    <3>1. \A k \in 1 .. last : written'[w + k] = [nr |-> w + k, req |-> sent[w + k].req]
      <4>1. \A k \in 1 .. last : k \in 1 .. Len(q)
        BY <1>1, <2>2
      <4> QED
        BY <4>1, <2>3, <2>4
    <3> QED
      BY <3>1, <2>3, <2>5, <2>6
  <2>8. w + last <= n /\ \A k \in 1 .. w + last : k \in Nr
    BY <1>1, <2>2 DEF Nr
  <2>9. \A k \in 1 .. last : k \in 1 .. Len(q)
    BY <1>1, <2>2
  <2>10. CASE /\ \A k \in 1 .. last : ~q[k].sleeping /\ ~q[k].close
              /\ m_reply_queue' = SubSeq(q, last + 1, Len(q))
              /\ timer' = timers /\ UNCHANGED <<m_closed, read>>
    <3>1. \A k \in 1 .. last : /\ ~sent[w + k].close
                               /\ sent[w + k].sleep => timers[w + k] = "done"
      BY <2>4, <2>9, <2>10
    <3>2. WrittenInv(timer)'
      BY <3>1, <2>3, <2>5, <2>6, <2>7, <2>10 DEF WrittenInv
    <3>3. /\ m_reply_queue' \in Seq(Replies) /\ Len(m_reply_queue') = Len(q) - last
          /\ \A k \in 1 .. Len(q) - last : m_reply_queue'[k] = q[last + k]
      BY <1>1, <2>10
    <3>4. \A k \in 1 .. Len(q) - last :
            last + k \in 1 .. Len(q) /\ n - (Len(q) - last) + k = w + (last + k)
      BY <1>1, <2>2
    <3>5. Len(q) - last <= n
      BY <1>1, <2>2
    <3>6. QueueInv(m_reply_queue, timer, m_reply)'
      <4>1. ASSUME NEW k \in 1 .. Len(q) - last
            PROVE  LET m == n - (Len(q) - last) + k
                       r == m_reply_queue'[k]
                   IN  /\ r.nr = m /\ r.req = sent[m].req /\ r.close = sent[m].close
                       /\ r.sleeping <=> timers[m] \in {"armed", "expired"}
                       /\ sent[m].sleep => timers[m] \in {"armed", "expired", "done"}
        <5>1. /\ m_reply_queue'[k] = q[last + k] /\ last + k \in 1 .. Len(q)
              /\ n - (Len(q) - last) + k = w + (last + k)
          BY <3>3, <3>4
        <5> QED
          BY <5>1, <2>4, Zenon
      <4> QED
        BY <4>1, <3>3, <3>5, <2>10 DEF QueueInv
    <3>7. (Len(q) - last) + (w + last) = n
      BY <1>1, <2>2
    <3>8. ClosedInv(m_reply)'
      BY <2>10, <1>3 DEF ClosedInv
    <3> QED
      BY <3>2, <3>3, <3>6, <3>7, <3>8, <1>1, <2>3, <2>8, <2>10 DEF RepliesInv
  <2>11. CASE \E f \in 1 .. Len(q) :
                /\ \A k \in 1 .. f - 1 : ~q[k].sleeping /\ ~q[k].close
                /\ ~q[f].sleeping /\ q[f].close
                /\ last = IF q[f].req # 0 THEN f ELSE f - 1
                /\ m_reply_queue' = <<>> /\ timer' = Destroy(q, timers) /\ m_closed'
    <3>1. PICK f \in 1 .. Len(q) :
                /\ \A k \in 1 .. f - 1 : ~q[k].sleeping /\ ~q[k].close
                /\ ~q[f].sleeping /\ q[f].close
                /\ last = IF q[f].req # 0 THEN f ELSE f - 1
                /\ m_reply_queue' = <<>> /\ timer' = Destroy(q, timers) /\ m_closed'
      BY <2>11
    <3>2. /\ timer' \in [Nr -> TimerStates]
          /\ \A m \in Nr : timers[m] # "armed" => timer'[m] = timers[m]
      BY <3>1, <1>1, DestroyAborts
    <3>3. /\ sent[w + f].close /\ q[f].req = sent[w + f].req
          /\ w + f \in 1 .. n
          /\ w + last = IF sent[w + f].req # 0 THEN w + f ELSE (w + f) - 1
      BY <3>1, <1>1, <2>2, <2>4
    <3>4. \A k \in 1 .. last : k \in 1 .. f - 1 \/ (k = f /\ last = f /\ sent[w + f].req # 0)
      BY <3>1, <3>3, <1>1
    <3>5. \A k \in 1 .. last : /\ ~q[k].sleeping
                               /\ sent[w + k].close => k = last /\ sent[w + k].req # 0
      BY <3>1, <3>4, <2>4, <2>9
    <3>6. \A k \in 1 .. last : sent[w + k].sleep => timers[w + k] = "done"
      BY <3>5, <2>4, <2>9
    <3>7. \A k \in 1 .. w + last : sent[k].sleep => timer'[k] = "done"
      BY <3>2, <3>6, <2>5, <2>6, <2>8
    <3>8. \A k \in 1 .. w + last : sent[k].close => k = w + last /\ sent[k].req # 0
      BY <3>5, <2>5, <2>6
    <3>9. WrittenInv(timer)'
      BY <3>1, <3>7, <3>8, <2>3, <2>7 DEF WrittenInv
    <3>10. ClosedInv(m_reply)'
      BY <3>3, <2>3 DEF ClosedInv
    <3>11. QueueInv(m_reply_queue, timer, m_reply)'
      BY <3>1, <1>1 DEF QueueInv
    <3> QED
      <4>1. \A m \in Nr : m > n => timer'[m] = "none"
        BY <3>2, <1>1
      <4> QED
        BY <4>1, <3>1, <3>2, <3>9, <3>10, <3>11, <1>1, <2>3, <2>8 DEF RepliesInv
  <2> QED
    BY <2>1, <2>10, <2>11
<1> QED
  BY <1>2, <1>3

\* Neither a request that is sent, nor a client that closes, changes what the replies
\* that were queued mean.
LEMMA RepliesKept ==
  ASSUME Places, RepliesInv(m_reply_queue, timer, m_reply),
         Len(sent') \in Nat, Len(sent) <= Len(sent'),
         \A k \in 1 .. Len(sent) : sent'[k] = sent[k],
         client = "closed" => client' = "closed",
         UNCHANGED <<m_reply, m_closed, m_reply_queue, timer, written>>
  PROVE  RepliesInv(m_reply_queue, timer, m_reply)'
<1>1. /\ Len(sent) \in Nat /\ m_reply \in 0 .. Len(sent)
      /\ Len(m_reply_queue) \in Nat /\ Len(m_reply_queue) <= m_reply
      /\ Len(written) \in Nat /\ Len(written) <= m_reply
  BY DEF Places, RepliesInv, QueueInv, WrittenInv
<1>2. \A k \in 1 .. Len(m_reply_queue) : m_reply - Len(m_reply_queue) + k \in 1 .. Len(sent)
  BY <1>1
<1>3. QueueInv(m_reply_queue, timer, m_reply)'
  <2>1. \A k \in 1 .. Len(m_reply_queue) :
          sent'[m_reply - Len(m_reply_queue) + k] = sent[m_reply - Len(m_reply_queue) + k]
    BY <1>2
  <2> QED
    BY <2>1 DEF RepliesInv, QueueInv
<1>4. \A k \in 1 .. m_reply : sent'[k] = sent[k]
  BY <1>1
<1>5. WrittenInv(timer)'
  <2>1. \A k \in 1 .. Len(written) : k \in 1 .. m_reply
    BY <1>1
  <2> QED
    BY <2>1, <1>4 DEF RepliesInv, WrittenInv
<1>6. ClosedInv(m_reply)'
  BY <1>4 DEF RepliesInv, ClosedInv
<1>7. m_reply' \in 0 .. Len(sent')
  BY <1>1
<1> QED
  BY <1>1, <1>3, <1>5, <1>6, <1>7 DEF RepliesInv

\* A timer expires, or the handler of a cancelled timer is called: no reply changes.
LEMMA TimerKeepsReplies ==
  ASSUME Places, RepliesInv(m_reply_queue, timer, m_reply), NEW n \in Nr, NEW s,
         \/ timer[n] = "armed" /\ s = "expired"
         \/ timer[n] = "aborted" /\ s = "done",
         timer' = [timer EXCEPT ![n] = s],
         UNCHANGED <<sent, client, m_reply, m_closed, m_reply_queue, written>>
  PROVE  RepliesInv(m_reply_queue, timer, m_reply)'
<1>1. /\ timer \in [Nr -> TimerStates] /\ timer' \in [Nr -> TimerStates]
      /\ \A m \in Nr : timer'[m] = IF m = n THEN s ELSE timer[m]
  BY DEF RepliesInv, TimerStates
<1>2. \A m \in Nr : /\ timer[m] = "done" => timer'[m] = "done"
                    /\ timer'[m] \in {"armed", "expired"} <=> timer[m] \in {"armed", "expired"}
                    /\ timer[m] \in {"armed", "expired", "done"}
                         => timer'[m] \in {"armed", "expired", "done"}
  BY <1>1
<1>3. QueueInv(m_reply_queue, timer, m_reply)'
  <2>1. /\ m_reply_queue \in Seq(Replies) /\ Len(m_reply_queue) <= m_reply
        /\ m_reply \in Nat /\ m_reply <= MaxSent /\ MaxSent \in Nat
    BY HtmlServerAssumption DEF RepliesInv, QueueInv, Places
  <2>2. \A k \in 1 .. Len(m_reply_queue) : m_reply - Len(m_reply_queue) + k \in Nr
    BY <2>1 DEF Nr
  <2> QED
    BY <2>2, <1>2 DEF RepliesInv, QueueInv
<1>4. WrittenInv(timer)' /\ ClosedInv(m_reply)'
  <2>1. /\ written \in Seq(Writes) /\ Len(written) <= m_reply
        /\ m_reply \in Nat /\ m_reply <= MaxSent /\ MaxSent \in Nat
    BY HtmlServerAssumption DEF RepliesInv, WrittenInv, Places
  <2>2. \A k \in 1 .. Len(written) : k \in Nr
    BY <2>1 DEF Nr
  <2> QED
    BY <2>2, <1>2 DEF RepliesInv, WrittenInv, ClosedInv
<1>5. \A m \in Nr : m > m_reply => timer'[m] = "none"
  BY <1>1 DEF RepliesInv
<1> QED
  BY <1>1, <1>3, <1>4, <1>5 DEF RepliesInv

\* queue_reply: the reply to the request that ended is added to the queue, with a timer
\* when it has to wait, and process_replies is called.
LEMMA EndKeepsReplies ==
  ASSUME Places, StreamInv, RepliesInv(m_reply_queue, timer, m_reply),
         Handle_read_end_of_message
  PROVE  RepliesInv(m_reply_queue, timer, m_reply)'
<1> DEFINE nr == m_reply + 1
           r  == [nr |-> nr, req |-> m_request, sleeping |-> m_sleep # 0,
                  close |-> m_must_close]
           q  == Append(m_reply_queue, r)
           t  == IF r.sleeping THEN [timer EXCEPT ![nr] = "armed"] ELSE timer
           len == Len(m_reply_queue)
<1>1. /\ m_reply < Len(sent)
      /\ m_request = sent[nr].req /\ (m_sleep # 0 <=> sent[nr].sleep)
      /\ m_must_close = sent[nr].close
  BY EndKeepsStream
<1>2. /\ Len(sent) \in Nat /\ MaxSent \in Nat /\ Len(sent) <= MaxSent
      /\ m_reply \in Nat /\ nr \in 0 .. Len(sent) /\ nr \in 1 .. Len(sent)
      /\ sent[nr] \in Requests /\ m_reply < nr
  BY <1>1, HtmlServerAssumption DEF Places
<1>3. /\ timer \in [Nr -> TimerStates] /\ \A m \in Nr : m > m_reply => timer[m] = "none"
      /\ m_reply_queue \in Seq(Replies) /\ len \in Nat /\ len <= m_reply
      /\ Len(written) \in Nat /\ Len(written) <= m_reply
      /\ WrittenInv(timer) /\ written \in Seq(Writes)
  BY DEF RepliesInv, QueueInv, WrittenInv
<1>4. nr \in Nr /\ timer[nr] = "none"
  BY <1>2, <1>3 DEF Nr
<1>5. r \in Replies
  <2>1. (m_sleep # 0) \in BOOLEAN
    OBVIOUS
  <2>2. sent[nr].close \in BOOLEAN /\ sent[nr].req \in Nat /\ nr \in Nat
    BY <1>2, HtmlServerAssumption
  <2> QED
    BY <2>1, <2>2, <1>1 DEF Replies
<1>6. r.nr = nr /\ r.req = sent[nr].req /\ r.close = sent[nr].close
      /\ (r.sleeping <=> sent[nr].sleep)
  BY <1>1
<1> HIDE DEF r
<1>7. /\ t \in [Nr -> TimerStates]
      /\ \A m \in Nr : m # nr => t[m] = timer[m]
      /\ t[nr] = IF r.sleeping THEN "armed" ELSE "none"
  BY <1>3, <1>4 DEF TimerStates
<1>8. /\ q \in Seq(Replies) /\ Len(q) = len + 1 /\ q[len + 1] = r
      /\ \A k \in 1 .. len : q[k] = m_reply_queue[k]
  BY <1>3, <1>5
<1> HIDE DEF q, t, len
<1>9. QueueInv(q, t, nr)
  <2>1. ASSUME NEW k \in 1 .. len
        PROVE  LET m == nr - (len + 1) + k
               IN  /\ q[k].nr = m /\ q[k].req = sent[m].req /\ q[k].close = sent[m].close
                   /\ q[k].sleeping <=> t[m] \in {"armed", "expired"}
                   /\ sent[m].sleep => t[m] \in {"armed", "expired", "done"}
    <3>1. /\ nr - (len + 1) + k = m_reply - len + k
          /\ m_reply - len + k \in Nr /\ m_reply - len + k # nr
      BY <1>2, <1>3 DEF Nr
    <3>2. LET m == m_reply - len + k
          IN  /\ q[k].nr = m /\ q[k].req = sent[m].req /\ q[k].close = sent[m].close
              /\ q[k].sleeping <=> timer[m] \in {"armed", "expired"}
              /\ sent[m].sleep => timer[m] \in {"armed", "expired", "done"}
      BY <1>8, Zenon DEF RepliesInv, QueueInv, len
    <3>3. t[m_reply - len + k] = timer[m_reply - len + k]
      BY <3>1, <1>7
    <3> HIDE DEF nr
    <3> QED
      BY <3>1, <3>2, <3>3, Zenon
  <2>2. LET m == nr - (len + 1) + (len + 1)
        IN  /\ q[len + 1].nr = m /\ q[len + 1].req = sent[m].req
            /\ q[len + 1].close = sent[m].close
            /\ q[len + 1].sleeping <=> t[m] \in {"armed", "expired"}
            /\ sent[m].sleep => t[m] \in {"armed", "expired", "done"}
    <3>1. nr - (len + 1) + (len + 1) = nr
      BY <1>2, <1>3
    <3> HIDE DEF nr
    <3> QED
      BY <3>1, <1>6, <1>7, <1>8
  <2>3. \A k \in 1 .. len + 1 : k \in 1 .. len \/ k = len + 1
    BY <1>3
  <2>4. len + 1 <= nr
    BY <1>2, <1>3
  <2> HIDE DEF nr
  <2>5. ASSUME NEW k \in 1 .. Len(q)
        PROVE  LET m == nr - Len(q) + k
               IN  /\ q[k].nr = m /\ q[k].req = sent[m].req /\ q[k].close = sent[m].close
                   /\ q[k].sleeping <=> t[m] \in {"armed", "expired"}
                   /\ sent[m].sleep => t[m] \in {"armed", "expired", "done"}
    BY <2>1, <2>2, <2>3, <1>8, Zenon
  <2> QED
    BY <2>4, <2>5, <1>8, Zenon DEF QueueInv
<1>10. WrittenInv(t)
  <2>1. \A k \in 1 .. Len(written) : k \in Nr /\ k # nr
    BY <1>2, <1>3 DEF Nr
  <2> QED
    BY <2>1, <1>3, <1>7 DEF WrittenInv
<1>11. ClosedInv(nr)
  <2>1. \A k \in 1 .. m_reply : k \in 1 .. nr
    BY <1>2
  <2>2. ClosedInv(m_reply)
    BY DEF RepliesInv
  <2> HIDE DEF nr
  <2> QED
    BY <2>1, <2>2, Zenon DEF ClosedInv
<1>12. RepliesInv(q, t, nr)
  <2>1. \A m \in Nr : m > nr => m # nr /\ m > m_reply
    BY <1>2 DEF Nr
  <2>2. \A m \in Nr : m > nr => t[m] = "none"
    BY <2>1, <1>3, <1>7
  <2>3. Len(written) <= nr /\ (~m_closed => Len(q) + Len(written) = nr)
    <3>1. Len(written) <= nr
      BY <1>2, <1>3
    <3>2. ~m_closed => len + Len(written) = m_reply
      BY DEF RepliesInv, len
    <3> QED
      BY <3>1, <3>2, <1>2, <1>3, <1>8
  <2> QED
    BY <2>2, <2>3, <1>2, <1>7, <1>9, <1>10, <1>11, Zenon DEF RepliesInv
<1>13. Process_replies(q, t) /\ sent' = sent /\ client' = client /\ m_reply' = nr
  BY Zenon DEF Handle_read_end_of_message, q, t, r
<1> QED
  BY <1>12, <1>13, ProcessKeepsReplies

\* Reply::timed_out: the reply is found by its number and stops sleeping.
LEMMA TimedOutKeepsReplies ==
  ASSUME Places, RepliesInv(m_reply_queue, timer, m_reply), NEW n \in Nr, Timed_out(n)
  PROVE  RepliesInv(m_reply_queue, timer, m_reply)'
<1> DEFINE mine(r) == r.nr = n
           f == SelectInSeq(m_reply_queue, mine)
           I == {i \in 1 .. Len(m_reply_queue) : m_reply_queue[i].nr = n}
           q == [m_reply_queue EXCEPT ![f].sleeping = FALSE]
           t == [timer EXCEPT ![n] = "done"]
           len == Len(m_reply_queue)
<1>1. timer[n] = "expired" /\ UNCHANGED <<sent, client, m_reply>>
  BY DEF Timed_out, clientVars
<1>2. /\ timer \in [Nr -> TimerStates] /\ \A m \in Nr : m > m_reply => timer[m] = "none"
      /\ m_reply_queue \in Seq(Replies) /\ len \in Nat /\ len <= m_reply
      /\ m_reply \in Nat /\ Len(sent) \in Nat /\ m_reply <= Len(sent)
      /\ MaxSent \in Nat /\ Len(sent) <= MaxSent
      /\ WrittenInv(timer) /\ Len(written) \in Nat /\ Len(written) <= m_reply
  BY HtmlServerAssumption DEF RepliesInv, QueueInv, WrittenInv, Places
<1>3. f = IF I # {} THEN Min(I) ELSE 0
  BY Zenon DEF SelectInSeq
<1>4. CASE f = 0
  <2>1. UNCHANGED <<m_reply_queue, timer, m_closed, written>>
    BY <1>4, Zenon DEF Timed_out
  <2>2. Len(sent') \in Nat /\ Len(sent) <= Len(sent')
    BY <1>1, <1>2
  <2> QED
    BY <2>1, <2>2, <1>1, RepliesKept
<1>5. CASE f # 0
  <2>1. I \in SUBSET Nat /\ I # {}
    BY <1>3, <1>5
  <2>2. f \in I
    BY <2>1, <1>3, MinIsLeast
  <2>3. f \in 1 .. len /\ m_reply_queue[f].nr = n
    BY <2>2
  <2> HIDE DEF f, I
  <2>4. /\ q \in Seq(Replies) /\ Len(q) = len
        /\ \A k \in 1 .. len : k # f => q[k] = m_reply_queue[k]
        /\ q[f] = [m_reply_queue[f] EXCEPT !.sleeping = FALSE]
    <3>1. m_reply_queue[f] \in Replies
      BY <1>2, <2>3
    <3>2. [m_reply_queue[f] EXCEPT !.sleeping = FALSE] \in Replies
      BY <3>1 DEF Replies
    <3> DEFINE u == [m_reply_queue[f] EXCEPT !.sleeping = FALSE]
    <3>3. q = [m_reply_queue EXCEPT ![f] = u]
      OBVIOUS
    <3>4. u \in Replies
      BY <3>2
    <3> HIDE DEF u, q
    <3>5. /\ [m_reply_queue EXCEPT ![f] = u] \in Seq(Replies)
          /\ Len([m_reply_queue EXCEPT ![f] = u]) = Len(m_reply_queue)
          /\ \A k \in 1 .. Len(m_reply_queue) :
               [m_reply_queue EXCEPT ![f] = u][k] = IF k = f THEN u ELSE m_reply_queue[k]
      BY <3>4, <1>2, <2>3, ExceptSeq
    <3> QED
      BY <3>3, <3>5, <2>3 DEF u
  <2>5. /\ q[f].nr = n /\ q[f].req = m_reply_queue[f].req
        /\ q[f].close = m_reply_queue[f].close /\ q[f].sleeping = FALSE
    <3>1. m_reply_queue[f] \in Replies
      BY <1>2, <2>3
    <3> QED
      BY <3>1, <2>3, <2>4 DEF Replies
  <2>6. /\ t \in [Nr -> TimerStates] /\ t[n] = "done"
        /\ \A m \in Nr : m # n => t[m] = timer[m]
    BY <1>2 DEF TimerStates
  <2>7. \A k \in 1 .. len :
          LET m == m_reply - len + k
          IN  /\ m_reply_queue[k].nr = m /\ m_reply_queue[k].req = sent[m].req
              /\ m_reply_queue[k].close = sent[m].close
              /\ m_reply_queue[k].sleeping <=> timer[m] \in {"armed", "expired"}
              /\ sent[m].sleep => timer[m] \in {"armed", "expired", "done"}
    BY DEF RepliesInv, QueueInv
  <2> HIDE DEF q, t, len
  <2>8. n = m_reply - len + f
    BY <2>3, <2>7
  <2>9. \A k \in 1 .. len : /\ m_reply - len + k \in Nr
                            /\ k # f => m_reply - len + k # n
    BY <2>3, <2>8, <1>2 DEF Nr
  <2>10. QueueInv(q, t, m_reply)
    <3>1. ASSUME NEW k \in 1 .. len
          PROVE  LET m == m_reply - len + k
                 IN  /\ q[k].nr = m /\ q[k].req = sent[m].req /\ q[k].close = sent[m].close
                     /\ q[k].sleeping <=> t[m] \in {"armed", "expired"}
                     /\ sent[m].sleep => t[m] \in {"armed", "expired", "done"}
      <4>1. CASE k = f
        BY <4>1, <2>5, <2>6, <2>7, <2>8
      <4>2. CASE k # f
        <5>1. q[k] = m_reply_queue[k] /\ t[m_reply - len + k] = timer[m_reply - len + k]
          BY <4>2, <2>4, <2>6, <2>9
        <5> QED
          BY <5>1, <2>7, Zenon
      <4> QED
        BY <4>1, <4>2
    <3> QED
      BY <3>1, <2>4, <1>2 DEF QueueInv
  <2>11. WrittenInv(t)
    <3>1. \A k \in 1 .. Len(written) : k \in Nr
      BY <1>2 DEF Nr
    <3> QED
      BY <3>1, <2>6, <1>2 DEF WrittenInv
  <2>12. \A m \in Nr : m > m_reply => t[m] = "none"
    BY <2>6, <1>1, <1>2
  <2>13. RepliesInv(q, t, m_reply)
    BY <2>4, <2>6, <2>10, <2>11, <2>12 DEF RepliesInv, len
  <2>14. Process_replies(q, t)
    BY <1>5, Zenon DEF Timed_out, q, t, f
  <2> QED
    BY <2>13, <2>14, <1>1, ProcessKeepsReplies
<1> QED
  BY <1>4, <1>5

\* handle_read fails: the connection is closed, for the client closed or the server did.
LEMMA ErrorKeepsReplies ==
  ASSUME Places, ReadInv, RepliesInv(m_reply_queue, timer, m_reply), Handle_read_error
  PROVE  RepliesInv(m_reply_queue, timer, m_reply)'
<1>1. /\ m_reply_queue' = <<>> /\ timer' = Destroy(m_reply_queue, timer) /\ m_closed'
      /\ UNCHANGED <<sent, client, m_reply, written>>
      /\ client = "closed" \/ m_closed
  BY DEF Handle_read_error, clientVars, ReadInv
<1>2. /\ timer \in [Nr -> TimerStates] /\ WrittenInv(timer) /\ ClosedInv(m_reply)
      /\ \A m \in Nr : m > m_reply => timer[m] = "none"
      /\ m_reply \in Nat /\ m_reply <= Len(sent) /\ Len(sent) \in Nat
      /\ MaxSent \in Nat /\ Len(sent) <= MaxSent
      /\ Len(written) \in Nat /\ Len(written) <= m_reply
  BY HtmlServerAssumption DEF RepliesInv, WrittenInv, Places
<1>3. /\ timer' \in [Nr -> TimerStates]
      /\ \A m \in Nr : timer[m] # "armed" => timer'[m] = timer[m]
  BY <1>1, <1>2, DestroyAborts
<1>4. WrittenInv(timer)'
  <2>1. \A k \in 1 .. Len(written) : k \in Nr
    BY <1>2 DEF Nr
  <2> QED
    BY <2>1, <1>1, <1>2, <1>3 DEF WrittenInv
<1>5. ClosedInv(m_reply)'
  BY <1>1, <1>2 DEF ClosedInv
<1>6. QueueInv(m_reply_queue, timer, m_reply)'
  BY <1>1, <1>2 DEF QueueInv
<1>7. \A m \in Nr : m > m_reply => timer'[m] = "none"
  BY <1>2, <1>3
<1> QED
  BY <1>1, <1>2, <1>3, <1>4, <1>5, <1>6, <1>7 DEF RepliesInv

-----------------------------------------------------------------------------
(* The other parts of the invariant.                                       *)

\* Besides the queue, process_replies only ever closes: a read that is pending is
\* aborted, and m_closed is never reset.
LEMMA ProcessEffects ==
  ASSUME NEW q, NEW timers, Process_replies(q, timers)
  PROVE  /\ read' = read \/ read' = "aborted"
         /\ m_closed' = m_closed \/ m_closed' = TRUE
         /\ m_closed => m_closed' = m_closed /\ written' = written
<1>1. CASE m_closed
  BY <1>1, Zenon DEF Process_replies, IsClosed
<1>2. CASE ~m_closed
  <2>1. \/ Close(q, timers)
        \/ UNCHANGED <<m_closed, read>>
    BY <1>2, Zenon DEF Process_replies, IsClosed
  <2> QED
    BY <1>2, <2>1, Zenon DEF Close
<1> QED
  BY <1>1, <1>2

\* Every step keeps the types of what the client sent and of what is read of it.
LEMMA StepKeepsPlaces ==
  ASSUME IndInv, Next
  PROVE  Places'
<1> USE DEF IndInv
<1>1. /\ sent \in Seq(Requests) /\ Len(sent) \in Nat /\ stream \in Seq(Headers)
      /\ Len(stream) \in Nat /\ m_reply \in 0 .. Len(sent) /\ chunk \in 0 .. Len(stream)
  BY DEF Places
<1>2. ASSUME NEW r \in Requests, Client_send(r) PROVE Places'
  <2>1. Lines(r) \in Seq(Headers) /\ Len(Lines(r)) \in Nat
    BY LinesShape
  <2>2. /\ sent' \in Seq(Requests) /\ Len(sent') = Len(sent) + 1 /\ Len(sent') <= MaxSent
    BY <1>1, <1>2, HtmlServerAssumption DEF Client_send
  <2>3. stream' \in Seq(Headers) /\ Len(stream') = Len(stream) + Len(Lines(r))
    BY <1>1, <1>2, <2>1 DEF Client_send
  <2>4. m_reply \in 0 .. Len(sent') /\ chunk \in 0 .. Len(stream')
    BY <1>1, <2>1, <2>2, <2>3
  <2> QED
    BY <1>2, <2>2, <2>3, <2>4 DEF Places, Client_send, headerVars
<1>3. CASE Client_close
  BY <1>3 DEF Places, Client_close, headerVars
<1>4. CASE Read_completes
  <2>1. chunk' \in 0 .. Len(stream)
    BY <1>1, <1>4 DEF Read_completes
  <2> QED
    BY <1>4, <2>1 DEF Places, Read_completes, headerVars, clientVars
<1>5. ASSUME NEW n \in Nr, Timer_expires(n) \/ Timed_out_aborted(n) \/ Timed_out(n)
      PROVE  Places'
  BY <1>5 DEF Places, Timer_expires, Timed_out_aborted, Timed_out, headerVars, clientVars
<1>6. CASE Handle_read \/ Handle_read_again \/ Handle_read_error \/ Handle_read_aborted
  BY <1>6 DEF Places, Handle_read, Handle_read_again, Handle_read_error,
    Handle_read_aborted, headerVars, clientVars
<1>7. ASSUME Feeds
      PROVE  /\ stream' \in Seq(Headers) /\ chunk' \in 0 .. Len(stream')
             /\ Head(stream) \in Headers
  BY <1>1, <1>7 DEF Feeds
<1>8. CASE Handle_read_header
  <2>1. /\ stream' \in Seq(Headers) /\ chunk' \in 0 .. Len(stream')
        /\ Head(stream).value \in Nat
    BY <1>7, <1>8 DEF Handle_read_header, Headers
  <2>2. m_sleep' \in Nat /\ m_request' \in Nat
    BY <1>8, <2>1 DEF Handle_read_header, Places
  <2> QED
    BY <1>8, <2>1, <2>2 DEF Handle_read_header, Places
<1>9. CASE Handle_read_end_of_message
  <2>1. stream' \in Seq(Headers) /\ chunk' \in 0 .. Len(stream')
    BY <1>7, <1>9 DEF Handle_read_end_of_message
  <2>2. m_reply < Len(sent)
    BY <1>9, EndKeepsStream
  <2>3. m_reply' = m_reply + 1 /\ m_sleep' = 0 /\ m_request' = 0
        /\ UNCHANGED <<sent, client, pc>>
    BY <1>9 DEF Handle_read_end_of_message, Reset_headers
  <2>4. m_reply' \in 0 .. Len(sent)
    BY <2>2, <2>3, <1>1
  <2> QED
    BY <2>1, <2>3, <2>4 DEF Places
<1> QED
  BY <1>2, <1>3, <1>4, <1>5, <1>6, <1>8, <1>9, Zenon DEF Next, Handlers

\* A read only fails when the client closed or the server did (handle_read).
LEMMA StepKeepsFlags ==
  ASSUME IndInv, Next
  PROVE  Flags' /\ ReadInv'
<1>0. Flags /\ ReadInv
  BY DEF IndInv
<1>1. ASSUME NEW q, NEW timers, Process_replies(q, timers), UNCHANGED client
      PROVE  m_closed' \in BOOLEAN /\ ReadInv'
  <2>1. /\ read' = read \/ read' = "aborted"
        /\ m_closed' = m_closed \/ m_closed' = TRUE
    BY <1>0, <1>1, ProcessEffects
  <2> QED
    <3>1. read' \in ReadStates
      BY <1>0, <2>1, Zenon DEF ReadInv, ReadStates
    <3>2. (read' = "eof" => read = "eof") /\ (read' = "bad_fd" => read = "bad_fd")
      BY <2>1
    <3>3. m_closed' \in BOOLEAN /\ (m_closed => m_closed')
      <4>1. m_closed' \in BOOLEAN
        BY <1>0, <2>1, Zenon DEF Flags
      <4>2. m_closed => m_closed'
        BY <1>0, <2>1 DEF Flags
      <4> QED
        BY <4>1, <4>2
    <3>4. (read' = "eof" => client' = "closed") /\ (read' = "bad_fd" => m_closed')
      BY <1>0, <1>1, <3>2, <3>3, Zenon DEF ReadInv
    <3> QED
      BY <3>1, <3>3, <3>4, Zenon DEF ReadInv
<1>2. ASSUME NEW r \in Requests, Client_send(r) PROVE Flags' /\ ReadInv'
  BY <1>0, <1>2, Zenon DEF Client_send, Flags, ReadInv, headerVars
<1>3. CASE Client_close
  BY <1>0, <1>3, Zenon DEF Client_close, Flags, ReadInv, headerVars
<1>4. CASE Read_completes
  BY <1>0, <1>4, Zenon DEF Read_completes, Flags, ReadInv, ReadStates, headerVars, clientVars
<1>5. ASSUME NEW n \in Nr, Timer_expires(n) \/ Timed_out_aborted(n) PROVE Flags' /\ ReadInv'
  BY <1>0, <1>5, Zenon DEF Timer_expires, Timed_out_aborted, Flags, ReadInv, headerVars, clientVars
<1>6. ASSUME NEW n \in Nr, Timed_out(n) PROVE Flags' /\ ReadInv'
  <2>1. /\ UNCHANGED <<m_must_close, client>> /\ dangling' \in BOOLEAN
        /\ \/ UNCHANGED <<m_closed, read>>
           \/ \E q, timers : Process_replies(q, timers)
    <3>1. UNCHANGED <<m_must_close, client>>
      BY <1>6, Zenon DEF Timed_out, headerVars, clientVars
    <3>2. \/ dangling' = TRUE /\ UNCHANGED <<m_closed, read>>
          \/ dangling' = FALSE /\ \E q, timers : Process_replies(q, timers)
      BY <1>6, Zenon DEF Timed_out
    <3> QED
      BY <3>1, <3>2, Zenon
  <2>2. m_closed' \in BOOLEAN /\ ReadInv'
    <3>1. CASE UNCHANGED <<m_closed, read>>
      BY <1>0, <2>1, <3>1, Zenon DEF Flags, ReadInv
    <3>2. CASE \E q, timers : Process_replies(q, timers)
      BY <1>1, <2>1, <3>2, Zenon
    <3> QED
      BY <2>1, <3>1, <3>2
  <2> QED
    BY <1>0, <2>1, <2>2, Zenon DEF Flags
<1>7. CASE Handle_read \/ Handle_read_header \/ Handle_read_aborted
  BY <1>0, <1>7, Zenon DEF Handle_read, Handle_read_header, Handle_read_aborted, Flags, ReadInv,
    ReadStates, headerVars, clientVars
<1>8. CASE Handle_read_again
  BY <1>0, <1>8, Zenon DEF Handle_read_again, Flags, ReadInv, ReadStates, headerVars, clientVars
<1>9. CASE Handle_read_error
  BY <1>0, <1>9, Zenon DEF Handle_read_error, Flags, ReadInv, ReadStates, headerVars, clientVars
<1>10. CASE Handle_read_end_of_message
  <2>1. /\ UNCHANGED <<client, dangling>> /\ m_must_close' = FALSE
        /\ \E q, timers : Process_replies(q, timers)
    BY <1>0, <1>10, Zenon DEF Handle_read_end_of_message, Reset_headers
  <2>2. m_closed' \in BOOLEAN /\ ReadInv'
    BY <1>1, <2>1, Zenon
  <2> QED
    BY <1>0, <2>1, <2>2, Zenon DEF Flags
<1> QED
  BY <1>0, <1>2, <1>3, <1>4, <1>5, <1>6, <1>7, <1>8, <1>9, <1>10, Zenon DEF Next, Handlers

\* The stream and the header fields only change by a request that is sent and a line that
\* is read.
LEMMA StepKeepsStream ==
  ASSUME IndInv, Next
  PROVE  StreamInv'
<1> USE DEF IndInv
<1>1. ASSUME UNCHANGED <<sent, stream, headerVars, m_reply>> PROVE StreamInv'
  BY <1>1 DEF StreamInv, Cuts, Fields, headerVars, RequestAfter, SleepAfter, CloseAfter
<1>2. ASSUME NEW r \in Requests, Client_send(r) PROVE StreamInv'
  BY <1>2, SendKeepsStream
<1>3. CASE Handle_read_header
  BY <1>3, HeaderKeepsStream
<1>4. CASE Handle_read_end_of_message
  BY <1>4, EndKeepsStream
<1>5. ASSUME NEW n \in Nr, Timer_expires(n) \/ Timed_out_aborted(n) \/ Timed_out(n)
      PROVE  StreamInv'
  BY <1>1, <1>5, Zenon DEF Timer_expires, Timed_out_aborted, Timed_out, clientVars
<1>6. CASE \/ Client_close \/ Read_completes \/ Handle_read \/ Handle_read_again
           \/ Handle_read_error \/ Handle_read_aborted
  BY <1>1, <1>6, Zenon DEF Client_close, Read_completes, Handle_read, Handle_read_again,
    Handle_read_error, Handle_read_aborted, clientVars
<1> QED
  BY <1>2, <1>3, <1>4, <1>5, <1>6, Zenon DEF Next, Handlers

\* The queue, the timers and what was written, for every handler.
LEMMA StepKeepsReplies ==
  ASSUME IndInv, Next
  PROVE  RepliesInv(m_reply_queue, timer, m_reply)'
<1> USE DEF IndInv
<1>1. ASSUME UNCHANGED <<sent, m_reply, m_closed, m_reply_queue, timer, written>>,
             client = "closed" => client' = "closed"
      PROVE  RepliesInv(m_reply_queue, timer, m_reply)'
  <2>1. Len(sent') \in Nat /\ Len(sent) <= Len(sent')
    BY <1>1 DEF Places
  <2> QED
    BY <1>1, <2>1, RepliesKept
<1>2. ASSUME NEW r \in Requests, Client_send(r)
      PROVE  RepliesInv(m_reply_queue, timer, m_reply)'
  <2>1. /\ Len(sent') \in Nat /\ Len(sent) <= Len(sent')
        /\ \A k \in 1 .. Len(sent) : sent'[k] = sent[k]
    BY <1>2 DEF Places, Client_send
  <2>2. UNCHANGED <<client, m_reply, m_closed, m_reply_queue, timer, written>>
    BY <1>2 DEF Client_send
  <2> QED
    BY <2>1, <2>2, RepliesKept
<1>3. ASSUME NEW n \in Nr, Timer_expires(n)
      PROVE  RepliesInv(m_reply_queue, timer, m_reply)'
  BY <1>3, TimerKeepsReplies DEF Timer_expires, clientVars
<1>4. ASSUME NEW n \in Nr, Timed_out_aborted(n)
      PROVE  RepliesInv(m_reply_queue, timer, m_reply)'
  BY <1>4, TimerKeepsReplies DEF Timed_out_aborted, clientVars
<1>5. ASSUME NEW n \in Nr, Timed_out(n)
      PROVE  RepliesInv(m_reply_queue, timer, m_reply)'
  BY <1>5, TimedOutKeepsReplies
<1>6. CASE Handle_read_end_of_message
  BY <1>6, EndKeepsReplies
<1>7. CASE Handle_read_error
  BY <1>7, ErrorKeepsReplies
<1>8. CASE \/ Client_close \/ Read_completes \/ Handle_read \/ Handle_read_header
           \/ Handle_read_again \/ Handle_read_aborted
  BY <1>1, <1>8, Zenon DEF Client_close, Read_completes, Handle_read, Handle_read_header,
    Handle_read_again, Handle_read_aborted, clientVars
<1> QED
  BY <1>2, <1>3, <1>4, <1>5, <1>6, <1>7, <1>8, Zenon DEF Next, Handlers

-----------------------------------------------------------------------------
(* Theorems.                                                               *)

\* Nothing was sent, nothing was read, and every timer is idle (start()).
LEMMA InitIndInv == Init => IndInv
<1> SUFFICES ASSUME Init PROVE IndInv
  OBVIOUS
<1>1. Places
  BY HtmlServerAssumption DEF Init, Places
<1>2. Flags /\ ReadInv
  BY Zenon DEF Init, Flags, ReadInv, ReadStates
<1>3. StreamInv
  <2> DEFINE cut == [k \in Nat |-> 0]
  <2>1. cut \in [Nat -> Int] /\ cut[0] = 0
    OBVIOUS
  <2>2. Len(sent) = 0 /\ Len(stream) = 0 /\ m_reply = 0
    BY DEF Init
  <2> HIDE DEF cut
  <2>3. Cuts(cut)
    BY <2>1, <2>2 DEF Cuts
  <2>4. Fields(cut)
    <3>1. ~(m_reply < Len(sent))
      BY <2>2
    <3> QED
      BY <3>1, Zenon DEF Init, Fields
  <2> QED
    BY <2>1, <2>3, <2>4 DEF StreamInv
<1>4. RepliesInv(m_reply_queue, timer, m_reply)
  <2>1. timer \in [Nr -> TimerStates] /\ \A m \in Nr : timer[m] = "none"
    BY DEF Init, TimerStates
  <2>2. Len(m_reply_queue) = 0 /\ Len(written) = 0 /\ m_reply = 0 /\ Len(sent) = 0
    BY DEF Init
  <2>3. m_reply_queue \in Seq(Replies) /\ written \in Seq(Writes)
    BY DEF Init
  <2>4. QueueInv(m_reply_queue, timer, m_reply) /\ WrittenInv(timer)
    BY <2>2, <2>3 DEF QueueInv, WrittenInv
  <2>5. ~m_closed /\ ClosedInv(m_reply)
    BY Zenon DEF Init, ClosedInv
  <2> QED
    BY <2>1, <2>2, <2>4, <2>5 DEF RepliesInv
<1> QED
  BY <1>1, <1>2, <1>3, <1>4 DEF IndInv

\* A step of the rest of the program changes nothing.
LEMMA StutterIndInv == IndInv /\ UNCHANGED vars => IndInv'
<1> SUFFICES ASSUME IndInv, UNCHANGED vars PROVE IndInv'
  OBVIOUS
<1> USE DEF vars, clientVars, headerVars
<1>1. Places' /\ Flags' /\ ReadInv'
  BY DEF IndInv, Places, Flags, ReadInv
<1>2. StreamInv'
  BY DEF IndInv, StreamInv, Cuts, Fields, RequestAfter, SleepAfter, CloseAfter
<1>3. RepliesInv(m_reply_queue, timer, m_reply)'
  BY DEF IndInv, RepliesInv, QueueInv, WrittenInv, ClosedInv
<1> QED
  BY <1>1, <1>2, <1>3 DEF IndInv

\* What is in the stream is what was sent and not read yet, the header fields are those
\* of the request that is being read, and the queue holds the replies that are left.
THEOREM Invariance == Spec => []IndInv
<1>1. IndInv /\ [Next]_vars => IndInv'
  <2>1. IndInv /\ Next => IndInv'
    BY StepKeepsPlaces, StepKeepsFlags, StepKeepsStream, StepKeepsReplies DEF IndInv
  <2> QED
    BY <2>1, StutterIndInv
<1> QED
  BY <1>1, InitIndInv, PTL DEF Spec

\* A chunk is part of what the client sent, replies have consecutive numbers and wait
\* exactly as long as their timer runs (handle_read, queue_reply and Reply).
THEOREM TypeCorrect == Spec => []TypeOK
<1>1. IndInv => TypeOK
  BY DEF IndInv, Places, Flags, ReadInv, RepliesInv, QueueInv, TypeOK
<1> QED
  BY <1>1, Invariance, PTL

\* However the stream is cut in pieces and in whatever order timers expire, replies
\* leave in the order of the requests, without a gap, each with the number of its own
\* request (handle_read, process_replies and Reply::timed_out).
THEOREM RepliesInOrder == Spec => []RepliesMatchRequests
<1>1. IndInv => RepliesMatchRequests
  BY DEF IndInv, RepliesInv, WrittenInv, RepliesMatchRequests
<1> QED
  BY <1>1, Invariance, PTL

\* process_replies never writes a reply whose timer has not expired.
THEOREM TimeoutsRespected == Spec => []NoReplyBeforeTimeout
<1>1. IndInv => NoReplyBeforeTimeout
  BY DEF IndInv, RepliesInv, WrittenInv, NoReplyBeforeTimeout
<1> QED
  BY <1>1, Invariance, PTL

\* The connection closes exactly where X-must-close asks for it: that request is the
\* last one that is answered, and unless the client closed first, everything up to it
\* was answered (process_replies).
THEOREM MustCloseRespected == Spec => []ClosesAtMustClose
<1>1. IndInv => ClosesAtMustClose
  BY DEF IndInv, RepliesInv, WrittenInv, ClosedInv, ClosesAtMustClose
<1> QED
  BY <1>1, Invariance, PTL

\* A step on a closed connection writes nothing, although handle_read goes on with the
\* rest of its buffer and queues replies (process_replies returns when m_closed).
THEOREM ClosedIsSilent == Spec => NothingWrittenAfterClose
<1>1. ASSUME Next PROVE m_closed => UNCHANGED written
  <2> HAVE m_closed
  <2>1. ASSUME NEW n \in Nr, Timed_out(n) PROVE UNCHANGED written
    <3>1. UNCHANGED written \/ \E q, timers : Process_replies(q, timers)
      BY <2>1, Zenon DEF Timed_out
    <3> QED
      BY <3>1, ProcessEffects
  <2>2. CASE Handle_read_end_of_message
    <3>1. \E q, timers : Process_replies(q, timers)
      BY <2>2, Zenon DEF Handle_read_end_of_message
    <3> QED
      BY <3>1, ProcessEffects
  <2>3. ASSUME NEW n \in Nr, Timer_expires(n) \/ Timed_out_aborted(n)
        PROVE  UNCHANGED written
    BY <2>3, Zenon DEF Timer_expires, Timed_out_aborted
  <2>4. ASSUME NEW r \in Requests, Client_send(r) PROVE UNCHANGED written
    BY <2>4, Zenon DEF Client_send
  <2>5. CASE \/ Client_close \/ Read_completes \/ Handle_read \/ Handle_read_header
             \/ Handle_read_again \/ Handle_read_error \/ Handle_read_aborted
    BY <2>5, Zenon DEF Client_close, Read_completes, Handle_read, Handle_read_header,
      Handle_read_again, Handle_read_error, Handle_read_aborted
  <2> QED
    BY <1>1, <2>1, <2>2, <2>3, <2>4, <2>5, Zenon DEF Next, Handlers
<1>2. ASSUME UNCHANGED vars PROVE m_closed => UNCHANGED written
  BY <1>2 DEF vars
<1> QED
  BY <1>1, <1>2, PTL DEF Spec, NothingWrittenAfterClose
===============================================================================
