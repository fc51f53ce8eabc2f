-------------------------- MODULE EvioProgramsProofs --------------------------
(***************************************************************************)
(* Proofs about EvioPrograms: for every number of clients and requests,    *)
(* every length of the messages and whatever fits in the kernel, nothing   *)
(* that was written is lost or left behind when join() returns.            *)
(*                                                                         *)
(* The invariant follows the bytes of each connection: what main() wrote   *)
(* so far is in the buffer of the client, on its way, or was received by   *)
(* the server, and the other way around.  How much main() wrote is a       *)
(* function of its position in the program.                                *)
(***************************************************************************)
EXTENDS EvioPrograms, SequenceTheorems, TLAPS

-----------------------------------------------------------------------------
(* The programs by position.                                               *)

HasListener(p) == p \in {"listen_socket", "connect", "unix_socket"}
HasOutput(p)   == p \in {"listen_socket", "unix_socket", "pipe", "socket"}

\* The statement of main() that connects client c, if there is one, and the one that
\* flushes its output.
ConnectAt(i, c) == IF i.program = "unix_socket" THEN 2 ELSE c
FlushAt(i, c) ==
  CASE i.program = "listen_socket" -> 2 * i.clients + 2 * c
    [] i.program = "unix_socket"   -> 3
    [] i.program = "pipe"          -> 2
    [] i.program = "socket"        -> i.clients + i.clients * i.lines + c
    [] OTHER                       -> 1

\* After pos statements main() has written w bytes to client c.  Of the requests of
\* socket.cxx, that are written round robin, the first pos - clients are done.
Written(i, pos, c, w) ==
  CASE i.program = "listen_socket" ->
         w = (IF pos >= i.clients + c THEN i.burst ELSE 0) +
             (IF pos >= 2 * i.clients + 2 * c - 1 THEN i.burst ELSE 0)
    [] i.program \in {"unix_socket", "pipe"} -> w = IF pos >= 1 THEN i.len ELSE 0
    [] i.program = "socket" ->
         LET done == IF pos <= i.clients THEN 0
                     ELSE IF pos <= i.clients + i.clients * i.lines THEN pos - i.clients
                     ELSE i.clients * i.lines
         IN  i.clients * w + c - i.clients <= done /\ done < i.clients * w + c
    [] i.program = "filedescriptor" -> w = i.lines * i.len
    [] i.program = "connect" -> w = 0

\* What the server receives in all.
Total(i) ==
  CASE i.program = "listen_socket"           -> 2 * i.burst
    [] i.program \in {"unix_socket", "pipe"} -> i.len
    [] i.program = "socket"                  -> i.lines
    [] i.program = "filedescriptor"          -> i.lines * i.len
    [] i.program = "connect"                 -> 0

-----------------------------------------------------------------------------
(* The invariant.                                                          *)

Pos == Len(Main(inst)) - Len(script)

\* main() executes the program from the first to the last statement.
ScriptInv ==
  /\ Len(script) <= Len(Main(inst))
  /\ \A k \in 1 .. Len(script) : script[k] = Main(inst)[Pos + k]

TimerInv == program \notin {"listen_socket", "connect"} => timer = <<>>

ListenInv ==
  /\ HasListener(program) <=> listening # "None"
  /\ \A c \in Clients :
       conn[c] = "backlog" \/ (program = "unix_socket" /\ conn[c] = "none") => listening = "Active"

\* The parts of the invariant of a connection are about the client's number c, the
\* instance i, the statements p that main() executed, the state k of the connection, the
\* clients t that were told, the clients y that were flushed early, and the ends C and S.

\* A client connects once, and is told when that is done.
Connecting(i, p, c, k, t) ==
  /\ i.program \in {"pipe", "filedescriptor"} => k = "accepted"
  /\ k = "none" <=> i.program \notin {"pipe", "filedescriptor"} /\ p < ConnectAt(i, c)
  /\ c \in t => k \notin {"none", "connecting"}

\* The states of the devices of the client.
ClientDevices(i, p, c, k, C) ==
  /\ i.program \in {"listen_socket", "socket"} =>
       C.in \in CASE k = "none"                      -> {"Removed"}
                  [] k \in {"connecting", "backlog"} -> {"Active"}
                  [] OTHER                           -> {"Active", "Closed"}
  /\ i.program \in {"unix_socket", "pipe", "filedescriptor"} => C.in = "None"
  /\ HasOutput(i.program) <=> C.out # "None"
  /\ HasOutput(i.program) =>
       IF p >= FlushAt(i, c) THEN C.out \in {"Flushing", "Closed"}
       ELSE k # "reset" => C.out \in {"Removed", "Active", "Added"}

\* The states of the devices of the server, that do not exist before the accept.
ServerDevices(i, k, S) ==
  /\ HasListener(i.program) /\ k # "accepted" =>
       /\ S.in = "Removed" /\ S.out = "Removed"
       /\ S.buf = 0 /\ S.net = 0 /\ S.got = 0
  /\ i.program # "socket" /\ k = "accepted" => S.in \in {"Active", "Closed"}
  /\ i.program = "listen_socket" /\ k = "accepted" => S.out \in {"Flushing", "Closed"}
  /\ i.program \in {"connect", "unix_socket", "pipe"} => S.buf = 0 /\ S.net = 0
  /\ i.program = "pipe" => S.out = "None"
  /\ i.program = "socket" => S.in = "None" /\ S.out = "None" /\ S.buf = 0
  /\ i.program = "filedescriptor" =>
       /\ S.out \in {"Active", "Added"}
       /\ S.out = "Added" => S.buf = 0

\* What was written to the client is in its buffer, under way, or received.
Forward(i, p, c, k, y, C, S) ==
  /\ k # "reset" /\ c \notin y => Written(i, p, c, C.buf + C.net + S.got)
  /\ i.program = "connect" => C.buf = 0 /\ C.net = 0
  /\ i.program = "filedescriptor" =>
       \E a, b \in Nat : C.buf = a * i.len /\ C.net = b * i.len

\* The answers: all of listen_socket.cxx are written at the accept, socket.cxx receives
\* a line for every request that reached the server.
Backward(i, k, C, S) ==
  /\ i.program = "listen_socket" =>
       IF k = "accepted" THEN S.buf + S.net + C.got = i.lines * i.len ELSE C.got = 0
  /\ i.program = "socket" => S.net + C.got = i.len * S.got

\* Who closed its input received everything.
Closing(i, c, k, y, C, S) ==
  k = "accepted" =>
    /\ i.program = "listen_socket" /\ C.in = "Closed" => C.got = i.lines * i.len
    /\ i.program = "socket" /\ C.in = "Closed" /\ c \notin y => C.got = i.lines * i.len
    /\ i.program \notin {"socket", "connect"} /\ S.in = "Closed" /\ c \notin y =>
         S.got = Total(i)

LinkOf(i, p, c, k, t, y, C, S) ==
  /\ Connecting(i, p, c, k, t) /\ ClientDevices(i, p, c, k, C) /\ ServerDevices(i, k, S)
  /\ Forward(i, p, c, k, y, C, S) /\ Backward(i, k, C, S) /\ Closing(i, c, k, y, C, S)

Link(c) == LinkOf(inst, Pos, c, conn[c], told, early, side[c]["client"], side[c]["server"])

\* A loop that ended has nothing left to do.
Ended == loop = "ended" => script = <<>> /\ ~AnyActive

\* The inductive invariant.
IndInv ==
  /\ TypeOK /\ ScriptInv /\ TimerInv /\ ListenInv
  /\ \A c \in Clients : Link(c)
  /\ Ended

-----------------------------------------------------------------------------
(* Arithmetic.                                                             *)

LEMMA MultStep ==
  ASSUME NEW n \in Nat, NEW a \in Nat, NEW b \in Nat, a < b
  PROVE  n * a + n <= n * b
<1>1. PICK d \in Nat : b = a + 1 + d
  BY b - a - 1 \in Nat
<1>2. n * b = n * a + n + n * d
  BY <1>1
<1>3. n * d \in Nat
  OBVIOUS
<1>4. n * a \in Nat /\ n * b \in Nat
  OBVIOUS
<1> QED
  BY <1>2, <1>3, <1>4

LEMMA MultMono ==
  ASSUME NEW n \in Nat, NEW a \in Nat, NEW b \in Nat, a <= b
  PROVE  n * a <= n * b /\ n * a \in Nat /\ n * b \in Nat
<1>1. n * a \in Nat /\ n * b \in Nat
  OBVIOUS
<1>2. a = b \/ a < b
  OBVIOUS
<1>3. a < b => n * a + n <= n * b
  BY MultStep
<1> QED
  BY <1>1, <1>2, <1>3

\* Of k requests, given out round robin to n clients, w were for client c.
Shared(n, w, c, k) == n * w + c - n <= k /\ k < n * w + c

\* Client c is next if and only if its turn in round w came.
LEMMA RoundRobin ==
  ASSUME NEW n \in Nat \ {0}, NEW c \in 1 .. n, NEW w \in Nat, NEW k \in Nat,
         Shared(n, w, c, k)
  PROVE  (k % n) + 1 = c <=> k + 1 = n * w + c
<1>1. PICK q \in Nat, m \in 0 .. n - 1 : q = k \div n /\ m = k % n /\ k = n * q + m
  OBVIOUS
<1>2. PICK x \in Nat, y \in Nat : x = n * w /\ y = n * q
  OBVIOUS
<1>3. q > w => x + n <= y
  BY <1>2, MultStep
<1>4. q < w => y + n <= x
  BY <1>2, MultStep
<1>5. q = w => x = y
  BY <1>2
<1>6. x + c - n <= y + m /\ y + m < x + c /\ k = y + m
  BY <1>1, <1>2 DEF Shared
<1>7. m + 1 = c <=> k + 1 = x + c
  BY <1>3, <1>4, <1>5, <1>6
<1> QED
  BY <1>1, <1>2, <1>7

-----------------------------------------------------------------------------
(* The programs of main(), statement by statement.                         *)

Ops(i) == [op: {"connect", "write_burst", "write_line", "write_request", "flush", "join"},
           client: 0 .. i.clients]

LEMMA InstanceFacts ==
  ASSUME NEW i \in Instances
  PROVE  /\ i.program \in Programs /\ i.clients \in Nat \ {0} /\ i.burst \in Nat \ {0}
         /\ i.lines \in Nat \ {0} /\ i.len \in 1 .. Cap /\ Cap \in Nat \ {0}
         /\ i.len \in Nat \ {0}
         /\ i.program \notin {"listen_socket", "socket"} => i.clients = 1
BY EvioProgramsAssumption

\* Statement m of the last bursts and flushes of listen_socket.cxx, and of the requests of
\* socket.cxx.
BurstOrFlush(m) == Op(IF m % 2 = 1 THEN "write_burst" ELSE "flush", (m + 1) \div 2)
Request(m, n)   == Op("write_request", ((m - 1) % n) + 1)

\* The statements of s and then those of t.
Then(s, t) == s \o t

Parts(u, s, t, a, b) ==
  /\ Len(u) = a + b
  /\ \A k \in 1 .. a : u[k] = s[k]
  /\ \A k \in a + 1 .. a + b : u[k] = t[k - a]

LEMMA Cat ==
  ASSUME NEW S, NEW s \in Seq(S), NEW t \in Seq(S)
  PROVE  Then(s, t) \in Seq(S) /\ Parts(Then(s, t), s, t, Len(s), Len(t))
<1>1. /\ Then(s, t) \in Seq(S) /\ Len(Then(s, t)) = Len(s) + Len(t)
      /\ \A k \in 1 .. Len(s) + Len(t) :
           Then(s, t)[k] = IF k <= Len(s) THEN s[k] ELSE t[k - Len(s)]
  BY ConcatProperties DEF Then
<1>2. PICK a \in Nat, b \in Nat : a = Len(s) /\ b = Len(t)
  OBVIOUS
<1>3. Parts(Then(s, t), s, t, a, b)
  BY <1>1, <1>2 DEF Parts
<1> QED
  BY <1>1, <1>2, <1>3

LEMMA ListenMain ==
  ASSUME NEW i \in Instances, i.program = "listen_socket", NEW n \in Nat, n = i.clients
  PROVE  /\ Main(i) \in Seq(Ops(i)) /\ Len(Main(i)) = 4 * n + 1
         /\ \A k \in 1 .. n : Main(i)[k] = Op("connect", k)
         /\ \A k \in n + 1 .. 2 * n : Main(i)[k] = Op("write_burst", k - n)
         /\ \A k \in 2 * n + 1 .. 4 * n : Main(i)[k] = BurstOrFlush(k - 2 * n)
         /\ Main(i)[4 * n + 1] = Op("join", 0)
<1> DEFINE A == ForAll("connect", n)
           B == ForAll("write_burst", n)
           C == [k \in 1 .. 2 * n |-> BurstOrFlush(k)]
           D == <<Op("join", 0)>>
<1>1. Main(i) = Then(Then(Then(A, B), C), D)
  BY Zenon DEF Main, Listen_socket_main, Then, BurstOrFlush
<1>2. /\ A \in Seq(Ops(i)) /\ Len(A) = n /\ \A k \in 1 .. n : A[k] = Op("connect", k)
      /\ B \in Seq(Ops(i)) /\ Len(B) = n /\ \A k \in 1 .. n : B[k] = Op("write_burst", k)
  <2>1. \A k \in 1 .. n : Op("connect", k) \in Ops(i) /\ Op("write_burst", k) \in Ops(i)
    BY DEF Op, Ops
  <2> QED
    BY <2>1, IsASeq DEF ForAll
<1>3. /\ C \in Seq(Ops(i)) /\ Len(C) = 2 * n
      /\ \A k \in 1 .. 2 * n : C[k] = BurstOrFlush(k)
  <2>1. \A k \in 1 .. 2 * n : (k + 1) \div 2 \in 0 .. n
    OBVIOUS
  <2>2. \A k \in 1 .. 2 * n : BurstOrFlush(k) \in Ops(i)
    BY <2>1 DEF Op, Ops, BurstOrFlush
  <2>3. 2 * n \in Nat
    OBVIOUS
  <2> QED
    BY <2>2, <2>3, IsASeq
<1>4. D \in Seq(Ops(i)) /\ Len(D) = 1 /\ D[1] = Op("join", 0)
  <2>1. Op("join", 0) \in Ops(i)
    BY InstanceFacts DEF Op, Ops
  <2> QED
    BY <2>1
<1> HIDE DEF A, B, C, D
<1>5. /\ Then(A, B) \in Seq(Ops(i)) /\ Len(Then(A, B)) = 2 * n
      /\ \A k \in 1 .. n : Then(A, B)[k] = A[k]
      /\ \A k \in n + 1 .. 2 * n : Then(A, B)[k] = B[k - n]
  <2>1. A \in Seq(Ops(i)) /\ B \in Seq(Ops(i)) /\ Len(A) = n /\ Len(B) = n
    BY <1>2
  <2>2. Then(A, B) \in Seq(Ops(i)) /\ Parts(Then(A, B), A, B, Len(A), Len(B))
    BY <2>1, Cat
  <2> QED
    BY <2>1, <2>2 DEF Parts
<1> DEFINE E == Then(A, B)
<1> HIDE DEF E
<1>6. /\ Then(E, C) \in Seq(Ops(i)) /\ Len(Then(E, C)) = 4 * n
      /\ \A k \in 1 .. 2 * n : Then(E, C)[k] = E[k]
      /\ \A k \in 2 * n + 1 .. 4 * n : Then(E, C)[k] = C[k - 2 * n]
  <2>1. E \in Seq(Ops(i)) /\ C \in Seq(Ops(i)) /\ Len(E) = 2 * n /\ Len(C) = 2 * n
    BY <1>3, <1>5 DEF E
  <2>2. Then(E, C) \in Seq(Ops(i)) /\ Parts(Then(E, C), E, C, Len(E), Len(C))
    BY <2>1, Cat
  <2>3. PICK a \in Nat : a = 2 * n
    OBVIOUS
  <2>4. Parts(Then(E, C), E, C, a, a)
    BY <2>1, <2>2, <2>3
  <2>5. 4 * n = a + a
    BY <2>3
  <2> QED
    BY <2>2, <2>3, <2>4, <2>5 DEF Parts
<1> DEFINE F == Then(E, C)
<1> HIDE DEF F
<1>7. /\ Then(F, D) \in Seq(Ops(i)) /\ Len(Then(F, D)) = 4 * n + 1
      /\ \A k \in 1 .. 4 * n : Then(F, D)[k] = F[k]
      /\ \A k \in 4 * n + 1 .. 4 * n + 1 : Then(F, D)[k] = D[k - 4 * n]
  <2>1. F \in Seq(Ops(i)) /\ D \in Seq(Ops(i)) /\ Len(F) = 4 * n /\ Len(D) = 1
    BY <1>4, <1>6 DEF F
  <2>2. Then(F, D) \in Seq(Ops(i)) /\ Parts(Then(F, D), F, D, Len(F), Len(D))
    BY <2>1, Cat
  <2> QED
    BY <2>1, <2>2 DEF Parts
<1>8. Main(i) = Then(F, D)
  BY <1>1 DEF E, F
<1>9. ASSUME NEW k \in 1 .. n PROVE Main(i)[k] = Op("connect", k)
  <2>1. k \in 1 .. 2 * n /\ k \in 1 .. 4 * n
    OBVIOUS
  <2>2. Main(i)[k] = F[k]
    BY <1>7, <1>8, <2>1
  <2>3. F[k] = E[k]
    BY <1>6, <2>1 DEF F
  <2>4. E[k] = A[k]
    BY <1>5 DEF E
  <2> QED
    BY <1>2, <2>2, <2>3, <2>4
<1>10. ASSUME NEW k \in n + 1 .. 2 * n PROVE Main(i)[k] = Op("write_burst", k - n)
  <2>1. k \in 1 .. 2 * n /\ k \in 1 .. 4 * n /\ k - n \in 1 .. n
    OBVIOUS
  <2>2. Main(i)[k] = F[k]
    BY <1>7, <1>8, <2>1
  <2>3. F[k] = E[k]
    BY <1>6, <2>1 DEF F
  <2>4. E[k] = B[k - n]
    BY <1>5 DEF E
  <2> QED
    BY <1>2, <2>1, <2>2, <2>3, <2>4
<1>11. ASSUME NEW k \in 2 * n + 1 .. 4 * n
       PROVE  Main(i)[k] = BurstOrFlush(k - 2 * n)
  <2>1. k - 2 * n \in 1 .. 2 * n /\ k \in 1 .. 4 * n
    OBVIOUS
  <2>2. Main(i)[k] = F[k]
    BY <1>7, <1>8, <2>1
  <2>3. F[k] = C[k - 2 * n]
    BY <1>6 DEF F
  <2> QED
    BY <1>3, <2>1, <2>2, <2>3
<1>12. Main(i)[4 * n + 1] = Op("join", 0)
  <2>1. 4 * n + 1 \in 4 * n + 1 .. 4 * n + 1 /\ (4 * n + 1) - 4 * n = 1
    OBVIOUS
  <2>2. Then(F, D)[4 * n + 1] = D[(4 * n + 1) - 4 * n]
    BY <1>7, <2>1, Zenon
  <2> QED
    BY <1>4, <1>8, <2>1, <2>2, Zenon
<1>13. Main(i) \in Seq(Ops(i)) /\ Len(Main(i)) = 4 * n + 1
  BY <1>7, <1>8
<1> QED
  BY <1>9, <1>10, <1>11, <1>12, <1>13, Zenon

LEMMA SocketMain ==
  ASSUME NEW i \in Instances, i.program = "socket", NEW n \in Nat, n = i.clients,
         NEW x \in Nat, x = i.clients * i.lines
  PROVE  /\ Main(i) \in Seq(Ops(i)) /\ Len(Main(i)) = n + x + n + 1
         /\ \A k \in 1 .. n : Main(i)[k] = Op("connect", k)
         /\ \A k \in n + 1 .. n + x : Main(i)[k] = Request(k - n, n)
         /\ \A k \in n + x + 1 .. n + x + n : Main(i)[k] = Op("flush", k - (n + x))
         /\ Main(i)[n + x + n + 1] = Op("join", 0)
<1> DEFINE A == ForAll("connect", n)
           B == [k \in 1 .. x |-> Request(k, n)]
           C == ForAll("flush", n)
           D == <<Op("join", 0)>>
<1>1. Main(i) = Then(Then(Then(A, B), C), D)
  BY Zenon DEF Main, Socket_main, Then, Request
<1>2. /\ A \in Seq(Ops(i)) /\ Len(A) = n /\ \A k \in 1 .. n : A[k] = Op("connect", k)
      /\ C \in Seq(Ops(i)) /\ Len(C) = n /\ \A k \in 1 .. n : C[k] = Op("flush", k)
  <2>1. \A k \in 1 .. n : Op("connect", k) \in Ops(i) /\ Op("flush", k) \in Ops(i)
    BY DEF Op, Ops
  <2> QED
    BY <2>1, IsASeq DEF ForAll
<1>3. /\ B \in Seq(Ops(i)) /\ Len(B) = x
      /\ \A k \in 1 .. x : B[k] = Request(k, n)
  <2>1. \A k \in 1 .. x : ((k - 1) % n) + 1 \in 0 .. n
    BY InstanceFacts
  <2>2. \A k \in 1 .. x : Request(k, n) \in Ops(i)
    BY <2>1 DEF Op, Ops, Request
  <2> QED
    BY <2>2, IsASeq
<1>4. D \in Seq(Ops(i)) /\ Len(D) = 1 /\ D[1] = Op("join", 0)
  <2>1. Op("join", 0) \in Ops(i)
    BY InstanceFacts DEF Op, Ops
  <2> QED
    BY <2>1
<1> HIDE DEF A, B, C, D
<1>5. /\ Then(A, B) \in Seq(Ops(i)) /\ Len(Then(A, B)) = n + x
      /\ \A k \in 1 .. n : Then(A, B)[k] = A[k]
      /\ \A k \in n + 1 .. n + x : Then(A, B)[k] = B[k - n]
  <2>1. A \in Seq(Ops(i)) /\ B \in Seq(Ops(i)) /\ Len(A) = n /\ Len(B) = x
    BY <1>2, <1>3
  <2>2. Then(A, B) \in Seq(Ops(i)) /\ Parts(Then(A, B), A, B, Len(A), Len(B))
    BY <2>1, Cat
  <2> QED
    BY <2>1, <2>2 DEF Parts
<1> DEFINE E == Then(A, B)
<1> HIDE DEF E
<1>6. /\ Then(E, C) \in Seq(Ops(i)) /\ Len(Then(E, C)) = n + x + n
      /\ \A k \in 1 .. n + x : Then(E, C)[k] = E[k]
      /\ \A k \in n + x + 1 .. n + x + n : Then(E, C)[k] = C[k - (n + x)]
  <2>1. E \in Seq(Ops(i)) /\ C \in Seq(Ops(i)) /\ Len(E) = n + x /\ Len(C) = n
    BY <1>2, <1>5 DEF E
  <2>2. Then(E, C) \in Seq(Ops(i)) /\ Parts(Then(E, C), E, C, Len(E), Len(C))
    BY <2>1, Cat
  <2> QED
    BY <2>1, <2>2 DEF Parts
<1> DEFINE F == Then(E, C)
<1> HIDE DEF F
<1>7. /\ Then(F, D) \in Seq(Ops(i)) /\ Len(Then(F, D)) = n + x + n + 1
      /\ \A k \in 1 .. n + x + n : Then(F, D)[k] = F[k]
      /\ \A k \in n + x + n + 1 .. n + x + n + 1 : Then(F, D)[k] = D[k - (n + x + n)]
  <2>1. F \in Seq(Ops(i)) /\ D \in Seq(Ops(i)) /\ Len(F) = n + x + n /\ Len(D) = 1
    BY <1>4, <1>6 DEF F
  <2>2. Then(F, D) \in Seq(Ops(i)) /\ Parts(Then(F, D), F, D, Len(F), Len(D))
    BY <2>1, Cat
  <2> QED
    BY <2>1, <2>2 DEF Parts
<1>8. Main(i) = Then(F, D)
  BY <1>1 DEF E, F
<1>9. ASSUME NEW k \in 1 .. n PROVE Main(i)[k] = Op("connect", k)
  <2>1. k \in 1 .. n + x /\ k \in 1 .. n + x + n
    OBVIOUS
  <2>2. Main(i)[k] = F[k]
    BY <1>7, <1>8, <2>1
  <2>3. F[k] = E[k]
    BY <1>6, <2>1 DEF F
  <2>4. E[k] = A[k]
    BY <1>5 DEF E
  <2> QED
    BY <1>2, <2>2, <2>3, <2>4
<1>10. ASSUME NEW k \in n + 1 .. n + x
       PROVE  Main(i)[k] = Request(k - n, n)
  <2>1. k - n \in 1 .. x /\ k \in 1 .. n + x /\ k \in 1 .. n + x + n
    OBVIOUS
  <2>2. Main(i)[k] = F[k]
    BY <1>7, <1>8, <2>1
  <2>3. F[k] = E[k]
    BY <1>6, <2>1 DEF F
  <2>4. E[k] = B[k - n]
    BY <1>5 DEF E
  <2> QED
    BY <1>3, <2>1, <2>2, <2>3, <2>4, Zenon
<1>11. ASSUME NEW k \in n + x + 1 .. n + x + n
       PROVE  Main(i)[k] = Op("flush", k - (n + x))
  <2>1. k - (n + x) \in 1 .. n /\ k \in 1 .. n + x + n
    OBVIOUS
  <2>2. Main(i)[k] = F[k]
    BY <1>7, <1>8, <2>1
  <2>3. F[k] = C[k - (n + x)]
    BY <1>6 DEF F
  <2> QED
    BY <1>2, <2>1, <2>2, <2>3, Zenon
<1>12. Main(i)[n + x + n + 1] = Op("join", 0)
  <2>1. n + x + n + 1 \in n + x + n + 1 .. n + x + n + 1 /\ (n + x + n + 1) - (n + x + n) = 1
    OBVIOUS
  <2>2. Then(F, D)[n + x + n + 1] = D[(n + x + n + 1) - (n + x + n)]
    BY <1>7, <2>1, Zenon
  <2> QED
    BY <1>4, <1>8, <2>1, <2>2, Zenon
<1>13. Main(i) \in Seq(Ops(i)) /\ Len(Main(i)) = n + x + n + 1
  BY <1>7, <1>8
<1> QED
  BY <1>9, <1>10, <1>11, <1>12, <1>13, Zenon

LEMMA Tuple1 ==
  ASSUME NEW S, NEW a \in S
  PROVE  <<a>> \in Seq(S) /\ Len(<<a>>) = 1 /\ <<a>>[1] = a
OBVIOUS

LEMMA Tuple2 ==
  ASSUME NEW S, NEW a \in S, NEW b \in S
  PROVE  <<a, b>> \in Seq(S) /\ Len(<<a, b>>) = 2 /\ <<a, b>>[1] = a /\ <<a, b>>[2] = b
OBVIOUS

LEMMA Tuple3 ==
  ASSUME NEW S, NEW a \in S, NEW b \in S, NEW c \in S
  PROVE  /\ <<a, b, c>> \in Seq(S) /\ Len(<<a, b, c>>) = 3
         /\ <<a, b, c>>[1] = a /\ <<a, b, c>>[2] = b /\ <<a, b, c>>[3] = c
OBVIOUS

LEMMA Tuple4 ==
  ASSUME NEW S, NEW a \in S, NEW b \in S, NEW c \in S, NEW d \in S
  PROVE  /\ <<a, b, c, d>> \in Seq(S) /\ Len(<<a, b, c, d>>) = 4
         /\ <<a, b, c, d>>[1] = a /\ <<a, b, c, d>>[2] = b
         /\ <<a, b, c, d>>[3] = c /\ <<a, b, c, d>>[4] = d
OBVIOUS

LEMMA OtherMains ==
  ASSUME NEW i \in Instances, i.program \notin {"listen_socket", "socket"}
  PROVE  /\ Main(i) \in Seq(Ops(i))
         /\ i.program = "connect" =>
              Len(Main(i)) = 2 /\ Main(i)[1] = Op("connect", 1) /\ Main(i)[2] = Op("join", 0)
         /\ i.program = "unix_socket" =>
              /\ Len(Main(i)) = 4
              /\ Main(i)[1] = Op("write_line", 1) /\ Main(i)[2] = Op("connect", 1)
              /\ Main(i)[3] = Op("flush", 1) /\ Main(i)[4] = Op("join", 0)
         /\ i.program = "pipe" =>
              /\ Len(Main(i)) = 3 /\ Main(i)[1] = Op("write_line", 1)
              /\ Main(i)[2] = Op("flush", 1) /\ Main(i)[3] = Op("join", 0)
         /\ i.program = "filedescriptor" => Len(Main(i)) = 1 /\ Main(i)[1] = Op("join", 0)
<1>1. i.clients = 1 /\ i.program \in {"connect", "unix_socket", "pipe", "filedescriptor"}
  BY InstanceFacts DEF Programs
<1>0. /\ i.program = "connect" => Main(i) = <<Op("connect", 1), Op("join", 0)>>
      /\ i.program = "unix_socket" =>
           Main(i) = <<Op("write_line", 1), Op("connect", 1), Op("flush", 1), Op("join", 0)>>
      /\ i.program = "pipe" => Main(i) = <<Op("write_line", 1), Op("flush", 1), Op("join", 0)>>
      /\ i.program = "filedescriptor" => Main(i) = <<Op("join", 0)>>
  BY DEF Main, Connect_main, Unix_socket_main, Pipe_main, Filedescriptor_main
<1>2. /\ Op("connect", 1) \in Ops(i) /\ Op("write_line", 1) \in Ops(i)
      /\ Op("flush", 1) \in Ops(i) /\ Op("join", 0) \in Ops(i)
  BY <1>1 DEF Op, Ops
<1>3. CASE i.program = "connect"
  <2>0. PICK a \in Ops(i), b \in Ops(i) : a = Op("connect", 1) /\ b = Op("join", 0)
    BY <1>2
  <2>2. Main(i) = <<a, b>>
    BY <1>0, <1>3, <2>0
  <2>1. Main(i) \in Seq(Ops(i)) /\ Len(Main(i)) = 2
        /\ Main(i)[1] = Op("connect", 1) /\ Main(i)[2] = Op("join", 0)
    BY <2>0, <2>2, Tuple2
  <2> QED
    BY <1>3, <2>1
<1>4. CASE i.program = "unix_socket"
  <2>0. PICK a \in Ops(i), b \in Ops(i), c \in Ops(i), d \in Ops(i) :
          /\ a = Op("write_line", 1) /\ b = Op("connect", 1)
          /\ c = Op("flush", 1) /\ d = Op("join", 0)
    BY <1>2
  <2>2. Main(i) = <<a, b, c, d>>
    BY <1>0, <1>4, <2>0
  <2>1. /\ Main(i) \in Seq(Ops(i)) /\ Len(Main(i)) = 4
        /\ Main(i)[1] = Op("write_line", 1) /\ Main(i)[2] = Op("connect", 1)
        /\ Main(i)[3] = Op("flush", 1) /\ Main(i)[4] = Op("join", 0)
    BY <2>0, <2>2, Tuple4
  <2> QED
    BY <1>4, <2>1
<1>5. CASE i.program = "pipe"
  <2>0. PICK a \in Ops(i), b \in Ops(i), c \in Ops(i) :
          a = Op("write_line", 1) /\ b = Op("flush", 1) /\ c = Op("join", 0)
    BY <1>2
  <2>2. Main(i) = <<a, b, c>>
    BY <1>0, <1>5, <2>0
  <2>1. /\ Main(i) \in Seq(Ops(i)) /\ Len(Main(i)) = 3 /\ Main(i)[1] = Op("write_line", 1)
        /\ Main(i)[2] = Op("flush", 1) /\ Main(i)[3] = Op("join", 0)
    BY <2>0, <2>2, Tuple3
  <2> QED
    BY <1>5, <2>1
<1>6. CASE i.program = "filedescriptor"
  <2>0. PICK a \in Ops(i) : a = Op("join", 0)
    BY <1>2
  <2>2. Main(i) = <<a>>
    BY <1>0, <1>6, <2>0
  <2>1. Main(i) \in Seq(Ops(i)) /\ Len(Main(i)) = 1 /\ Main(i)[1] = Op("join", 0)
    BY <2>0, <2>2, Tuple1
  <2> QED
    BY <1>6, <2>1
<1> QED
  BY <1>1, <1>3, <1>4, <1>5, <1>6, Zenon

-----------------------------------------------------------------------------
(* What the next statement means for client d.                             *)

Bytes(i, op) == CASE op = "write_burst"   -> i.burst
                  [] op = "write_line"    -> i.len
                  [] op = "write_request" -> 1
                  [] OTHER                -> 0

Writes == {"write_burst", "write_line", "write_request"}

Increment(i, op, c, d) == IF c = d THEN Bytes(i, op) ELSE 0

\* Statement p + 1, op of client c, is the one that connects or flushes client d, or is
\* not; it comes before the flush if it writes; and it writes what it should.
Effect(i, p, op, c, d) ==
  /\ op = "connect" /\ c = d <=>
       i.program \notin {"pipe", "filedescriptor"} /\ p + 1 = ConnectAt(i, d)
  /\ op = "flush" /\ c = d <=> HasOutput(i.program) /\ p + 1 = FlushAt(i, d)
  /\ op \in Writes => HasOutput(i.program)
  /\ op \in Writes \cup {"connect"} /\ c = d /\ HasOutput(i.program) => p + 1 < FlushAt(i, d)

\* The statements of listen_socket.cxx and of socket.cxx, with n clients.
IsListenStatement(n, p, op, c) ==
  \/ op = "connect" /\ c \in 1 .. n /\ p + 1 = c
  \/ op = "write_burst" /\ c \in 1 .. n /\ p + 1 = n + c
  \/ op = "write_burst" /\ c \in 1 .. n /\ p + 1 = 2 * n + 2 * c - 1
  \/ op = "flush" /\ c \in 1 .. n /\ p + 1 = 2 * n + 2 * c
  \/ op = "join" /\ c = 0 /\ p = 4 * n

IsSocketStatement(n, x, p, op, c) ==
  \/ op = "connect" /\ c \in 1 .. n /\ p + 1 = c
  \/ /\ op = "write_request" /\ c \in 1 .. n /\ c = ((p - n) % n) + 1
     /\ p + 1 \in n + 1 .. n + x
  \/ op = "flush" /\ c \in 1 .. n /\ p + 1 = n + x + c
  \/ op = "join" /\ c = 0 /\ p = n + x + n

LEMMA ListenStatement ==
  ASSUME NEW i \in Instances, i.program = "listen_socket", NEW n \in Nat, n = i.clients,
         NEW p \in Nat, p < Len(Main(i)), NEW op, NEW c, Main(i)[p + 1] = Op(op, c)
  PROVE  IsListenStatement(n, p, op, c)
<1> DEFINE M == Main(i)
<1>1. /\ Len(M) = 4 * n + 1
      /\ \A k \in 1 .. n : M[k] = Op("connect", k)
      /\ \A k \in n + 1 .. 2 * n : M[k] = Op("write_burst", k - n)
      /\ \A k \in 2 * n + 1 .. 4 * n : M[k] = BurstOrFlush(k - 2 * n)
      /\ M[4 * n + 1] = Op("join", 0)
  BY ListenMain, Zenon
<1>2. p < Len(M) /\ M[p + 1] = Op(op, c)
  OBVIOUS
<1>3. PICK k \in Nat : k = p + 1 /\ M[k] = Op(op, c)
  BY <1>2
<1> HIDE DEF M
<1>4. CASE k \in 1 .. n
  <2>1. M[k] = Op("connect", k)
    BY <1>1, <1>4
  <2>2. op = "connect" /\ c = k
    BY <1>3, <2>1 DEF Op
  <2> QED
    BY <1>3, <1>4, <2>2 DEF IsListenStatement
<1>5. CASE k \in n + 1 .. 2 * n
  <2>1. M[k] = Op("write_burst", k - n)
    BY <1>1, <1>5
  <2>2. op = "write_burst" /\ c = k - n
    BY <1>3, <2>1 DEF Op
  <2>3. op = "write_burst" /\ c \in 1 .. n /\ p + 1 = n + c
    BY <1>3, <1>5, <2>2
  <2> QED
    BY <2>3 DEF IsListenStatement
<1>6. CASE k \in 2 * n + 1 .. 4 * n
  <2>1. PICK m \in 1 .. 2 * n : m = k - 2 * n
    BY <1>6
  <2>2. M[k] = BurstOrFlush(m)
    BY <1>1, <1>6, <2>1, Zenon
  <2>3. op = (IF m % 2 = 1 THEN "write_burst" ELSE "flush") /\ c = (m + 1) \div 2
    BY <1>3, <2>2 DEF Op, BurstOrFlush
  <2>4. c \in 1 .. n /\ (m % 2 = 1 => m = 2 * c - 1) /\ (m % 2 # 1 => m = 2 * c)
    BY <2>3
  <2>5. CASE m % 2 = 1
    <3>1. op = "write_burst"
      BY <2>3, <2>5
    <3>2. c \in 1 .. n /\ p + 1 = 2 * n + 2 * c - 1
      BY <1>3, <2>1, <2>4, <2>5
    <3> QED
      BY <3>1, <3>2 DEF IsListenStatement
  <2>6. CASE m % 2 # 1
    <3>1. op = "flush"
      BY <2>3, <2>6
    <3>2. c \in 1 .. n /\ p + 1 = 2 * n + 2 * c
      BY <1>3, <2>1, <2>4, <2>6
    <3> QED
      BY <3>1, <3>2 DEF IsListenStatement
  <2> QED
    BY <2>5, <2>6
<1>7. CASE k = 4 * n + 1
  <2>1. M[k] = Op("join", 0)
    BY <1>1, <1>7
  <2>2. op = "join" /\ c = 0
    BY <1>3, <2>1 DEF Op
  <2> QED
    BY <1>3, <1>7, <2>2 DEF IsListenStatement
<1>8. k >= 1 /\ k <= 4 * n + 1
  <2>1. Len(M) = 4 * n + 1
    BY <1>1
  <2> QED
    BY <1>2, <1>3, <2>1
<1>9. k \in 1 .. n \/ k \in n + 1 .. 2 * n \/ k \in 2 * n + 1 .. 4 * n \/ k = 4 * n + 1
  BY <1>8
<1> QED
  BY <1>4, <1>5, <1>6, <1>7, <1>9, Zenon

LEMMA SocketStatement ==
  ASSUME NEW i \in Instances, i.program = "socket", NEW n \in Nat, n # 0, n = i.clients,
         NEW x \in Nat, x = i.clients * i.lines,
         NEW p \in Nat, p < Len(Main(i)), NEW op, NEW c, Main(i)[p + 1] = Op(op, c)
  PROVE  IsSocketStatement(n, x, p, op, c)
<1> DEFINE M == Main(i)
<1>1. /\ Len(M) = n + x + n + 1
      /\ \A k \in 1 .. n : M[k] = Op("connect", k)
      /\ \A k \in n + 1 .. n + x : M[k] = Request(k - n, n)
      /\ \A k \in n + x + 1 .. n + x + n : M[k] = Op("flush", k - (n + x))
      /\ M[n + x + n + 1] = Op("join", 0)
  BY SocketMain
<1>2. p < Len(M) /\ M[p + 1] = Op(op, c)
  OBVIOUS
<1>3. PICK k \in Nat : k = p + 1 /\ M[k] = Op(op, c)
  BY <1>2
<1> HIDE DEF M
<1>4. CASE k \in 1 .. n
  <2>1. M[k] = Op("connect", k)
    BY <1>1, <1>4
  <2>2. op = "connect" /\ c = k
    BY <1>3, <2>1 DEF Op
  <2> QED
    BY <1>3, <1>4, <2>2 DEF IsSocketStatement
<1>5. CASE k \in n + 1 .. n + x
  <2>1. M[k] = Request(k - n, n)
    BY <1>1, <1>5, Zenon
  <2>2. op = "write_request" /\ c = (((k - n) - 1) % n) + 1
    BY <1>3, <2>1 DEF Op, Request
  <2>3. (k - n) - 1 = p - n /\ p - n \in Nat
    BY <1>3, <1>5
  <2>4. op = "write_request" /\ c = ((p - n) % n) + 1
    BY <2>2, <2>3
  <2>5. c \in 1 .. n
    <3>1. \A q \in Nat : (q % n) + 1 \in 1 .. n
      OBVIOUS
    <3> QED
      BY <2>3, <2>4, <3>1
  <2> QED
    BY <1>3, <1>5, <2>4, <2>5 DEF IsSocketStatement
<1>6. CASE k \in n + x + 1 .. n + x + n
  <2>1. M[k] = Op("flush", k - (n + x))
    BY <1>1, <1>6
  <2>2. op = "flush" /\ c = k - (n + x)
    BY <1>3, <2>1 DEF Op
  <2>3. op = "flush" /\ c \in 1 .. n /\ p + 1 = n + x + c
    BY <1>3, <1>6, <2>2
  <2> QED
    BY <2>3 DEF IsSocketStatement
<1>7. CASE k = n + x + n + 1
  <2>1. M[k] = Op("join", 0)
    BY <1>1, <1>7
  <2>2. op = "join" /\ c = 0
    BY <1>3, <2>1 DEF Op
  <2> QED
    BY <1>3, <1>7, <2>2 DEF IsSocketStatement
<1>8. k >= 1 /\ k <= n + x + n + 1
  <2>1. Len(M) = n + x + n + 1
    BY <1>1
  <2> QED
    BY <1>2, <1>3, <2>1
<1>9. k \in 1 .. n \/ k \in n + 1 .. n + x \/ k \in n + x + 1 .. n + x + n \/ k = n + x + n + 1
  BY <1>8
<1> QED
  BY <1>4, <1>5, <1>6, <1>7, <1>9, Zenon

Statement(i, p, op, c) == p < Len(Main(i)) /\ Main(i)[p + 1] = Op(op, c)

LEMMA ListenEffect ==
  ASSUME NEW i \in Instances, i.program = "listen_socket", NEW p \in Nat,
         NEW op, NEW c, Statement(i, p, op, c), NEW d \in 1 .. i.clients
  PROVE  /\ Effect(i, p, op, c, d)
         /\ \A w \in Nat : Written(i, p, d, w) => Written(i, p + 1, d, w + Increment(i, op, c, d))
<1>1. PICK n \in Nat : n = i.clients
  BY InstanceFacts
<1>2. IsListenStatement(n, p, op, c)
  BY <1>1, ListenStatement DEF Statement
<1>3. PICK b \in Nat : b = i.burst
  BY InstanceFacts
<1>4. d \in 1 .. n /\ d \in Nat
  BY <1>1
<1>5. Effect(i, p, op, c, d)
  <2>1. ConnectAt(i, d) = d /\ FlushAt(i, d) = 2 * n + 2 * d
    BY <1>1 DEF ConnectAt, FlushAt
  <2>2. HasOutput(i.program)
    BY DEF HasOutput
  <2> QED
    BY <1>2, <1>4, <2>1, <2>2 DEF Effect, IsListenStatement, Writes
<1>6. ASSUME NEW w \in Nat, Written(i, p, d, w)
      PROVE  Written(i, p + 1, d, w + Increment(i, op, c, d))
  <2>1. \A q, v : Written(i, q, d, v) <=>
                  v = (IF q >= n + d THEN b ELSE 0) + (IF q >= 2 * n + 2 * d - 1 THEN b ELSE 0)
    BY <1>1, <1>3 DEF Written
  <2>2. Increment(i, op, c, d) = IF op = "write_burst" /\ c = d THEN b ELSE 0
    BY <1>2, <1>3 DEF Increment, Bytes, IsListenStatement
  <2>3. w = (IF p >= n + d THEN b ELSE 0) + (IF p >= 2 * n + 2 * d - 1 THEN b ELSE 0)
    BY <1>6, <2>1
  <2>4. w + (IF op = "write_burst" /\ c = d THEN b ELSE 0) =
          (IF p + 1 >= n + d THEN b ELSE 0) + (IF p + 1 >= 2 * n + 2 * d - 1 THEN b ELSE 0)
    BY <1>2, <1>4, <2>3 DEF IsListenStatement
  <2> QED
    BY <2>1, <2>2, <2>4
<1> QED
  BY <1>5, <1>6

LEMMA SocketEffect ==
  ASSUME NEW i \in Instances, i.program = "socket", NEW p \in Nat,
         NEW op, NEW c, Statement(i, p, op, c), NEW d \in 1 .. i.clients
  PROVE  /\ Effect(i, p, op, c, d)
         /\ \A w \in Nat : Written(i, p, d, w) => Written(i, p + 1, d, w + Increment(i, op, c, d))
<1>1. PICK n \in Nat \ {0}, l \in Nat : n = i.clients /\ l = i.lines
  BY InstanceFacts
<1>2. PICK x \in Nat : x = n * l
  BY <1>1
<1>3. IsSocketStatement(n, x, p, op, c)
  <2>1. n \in Nat /\ n # 0 /\ n = i.clients /\ x = i.clients * i.lines
    BY <1>1, <1>2
  <2> QED
    BY <2>1, SocketStatement DEF Statement
<1>4. d \in 1 .. n /\ d \in Nat
  BY <1>1
<1>5. Effect(i, p, op, c, d)
  <2>1. ConnectAt(i, d) = d /\ FlushAt(i, d) = n + x + d
    BY <1>1, <1>2 DEF ConnectAt, FlushAt
  <2>2. HasOutput(i.program)
    BY DEF HasOutput
  <2> QED
    BY <1>3, <1>4, <2>1, <2>2 DEF Effect, IsSocketStatement, Writes
<1>6. ASSUME NEW w \in Nat, Written(i, p, d, w)
      PROVE  Written(i, p + 1, d, w + Increment(i, op, c, d))
  <2> DEFINE Done(q) == IF q <= n THEN 0 ELSE IF q <= n + x THEN q - n ELSE x
  <2>1. \A q, v : Written(i, q, d, v) <=> n * v + d - n <= Done(q) /\ Done(q) < n * v + d
    BY <1>1, <1>2 DEF Written
  <2>2. Increment(i, op, c, d) = IF op = "write_request" /\ c = d THEN 1 ELSE 0
    BY <1>3 DEF Increment, Bytes, IsSocketStatement
  <2>3. PICK z \in Nat : z = n * w
    OBVIOUS
  <2>4. n * (w + 1) = z + n
    BY <2>3
  <2>5. z + d - n <= Done(p) /\ Done(p) < z + d
    BY <1>6, <2>1, <2>3
  <2>6. CASE op = "write_request"
    <3>1. p + 1 \in n + 1 .. n + x /\ c = ((p - n) % n) + 1
      BY <1>3, <2>6 DEF IsSocketStatement
    <3>2. PICK k \in Nat : k = p - n /\ Done(p) = k /\ Done(p + 1) = k + 1
      BY <3>1
    <3>3. c = d <=> k + 1 = z + d
      <4>1. Shared(n, w, d, k)
        BY <2>3, <2>5, <3>2 DEF Shared
      <4>2. (k % n) + 1 = d <=> k + 1 = n * w + d
        <5> HIDE DEF Done
        <5> QED
          BY <1>4, <4>1, RoundRobin
      <4> QED
        <5>1. c = (k % n) + 1
          BY <3>1, <3>2
        <5>2. z + d = n * w + d
          BY <2>3
        <5> HIDE DEF Done
        <5> QED
          BY <4>2, <5>1, <5>2, Zenon
    <3>4. CASE c = d
      BY <1>4, <2>1, <2>2, <2>4, <2>6, <3>2, <3>3, <3>4
    <3>5. CASE c # d
      BY <1>4, <2>1, <2>2, <2>3, <2>5, <2>6, <3>2, <3>3, <3>5
    <3> QED
      BY <3>4, <3>5
  <2>7. CASE op # "write_request"
    <3>1. Done(p + 1) = Done(p)
      BY <1>3, <2>7 DEF IsSocketStatement
    <3>2. w + Increment(i, op, c, d) = w
      BY <2>2, <2>7
    <3> HIDE DEF Done
    <3> QED
      BY <1>6, <2>1, <3>1, <3>2
  <2> QED
    BY <2>6, <2>7
<1> QED
  BY <1>5, <1>6

LEMMA OtherEffect ==
  ASSUME NEW i \in Instances, i.program \notin {"listen_socket", "socket"}, NEW p \in Nat,
         NEW op, NEW c, Statement(i, p, op, c), NEW d \in 1 .. i.clients
  PROVE  /\ Effect(i, p, op, c, d)
         /\ \A w \in Nat : Written(i, p, d, w) => Written(i, p + 1, d, w + Increment(i, op, c, d))
<1>1. /\ i.program \in {"connect", "unix_socket", "pipe", "filedescriptor"}
      /\ d = 1 /\ i.len \in Nat /\ i.lines \in Nat
  BY InstanceFacts DEF Programs
<1>2. PICK l \in Nat : l = i.len
  BY <1>1
<1>3. CASE i.program = "connect"
  <2>1. \/ p = 0 /\ op = "connect" /\ c = 1
        \/ p = 1 /\ op = "join" /\ c = 0
    <3>1. Len(Main(i)) = 2 /\ Main(i)[1] = Op("connect", 1) /\ Main(i)[2] = Op("join", 0)
      BY <1>3, OtherMains
    <3>2. p \in {0, 1}
      BY <3>1 DEF Statement
    <3>3. CASE p = 0
      BY <3>1, <3>3 DEF Statement, Op
    <3>4. CASE p = 1
      BY <3>1, <3>4 DEF Statement, Op
    <3> QED
      BY <3>2, <3>3, <3>4
  <2>2. ConnectAt(i, d) = 1 /\ ~HasOutput(i.program)
    BY <1>1, <1>3 DEF ConnectAt, HasOutput
  <2>3. \A q, v : Written(i, q, d, v) <=> v = 0
    BY <1>3 DEF Written
  <2>4. Increment(i, op, c, d) = 0
    BY <2>1 DEF Increment, Bytes
  <2>5. Effect(i, p, op, c, d)
    BY <1>1, <1>3, <2>1, <2>2 DEF Effect, Writes
  <2> QED
    BY <2>3, <2>4, <2>5
<1>4. CASE i.program = "unix_socket"
  <2>1. \/ p = 0 /\ op = "write_line" /\ c = 1
        \/ p = 1 /\ op = "connect" /\ c = 1
        \/ p = 2 /\ op = "flush" /\ c = 1
        \/ p = 3 /\ op = "join" /\ c = 0
    <3>1. /\ Len(Main(i)) = 4
          /\ Main(i)[1] = Op("write_line", 1)
          /\ Main(i)[2] = Op("connect", 1)
          /\ Main(i)[3] = Op("flush", 1)
          /\ Main(i)[4] = Op("join", 0)
      BY <1>4, OtherMains
    <3>2. p \in {0, 1, 2, 3}
      BY <3>1 DEF Statement
    <3>3. CASE p = 0
      BY <3>1, <3>3 DEF Statement, Op
    <3>4. CASE p = 1
      BY <3>1, <3>4 DEF Statement, Op
    <3>5. CASE p = 2
      BY <3>1, <3>5 DEF Statement, Op
    <3>6. CASE p = 3
      BY <3>1, <3>6 DEF Statement, Op
    <3> QED
      BY <3>2, <3>3, <3>4, <3>5, <3>6
  <2>2. ConnectAt(i, d) = 2 /\ FlushAt(i, d) = 3 /\ HasOutput(i.program)
    BY <1>1, <1>4 DEF ConnectAt, FlushAt, HasOutput
  <2>3. \A q, v : Written(i, q, d, v) <=> v = IF q >= 1 THEN l ELSE 0
    BY <1>2, <1>4 DEF Written
  <2>4. Increment(i, op, c, d) = IF p = 0 THEN l ELSE 0
    BY <1>1, <1>2, <2>1 DEF Increment, Bytes
  <2>5. Effect(i, p, op, c, d)
    BY <1>1, <1>4, <2>1, <2>2 DEF Effect, Writes
  <2> QED
    BY <2>3, <2>4, <2>5
<1>5. CASE i.program = "pipe"
  <2>1. \/ p = 0 /\ op = "write_line" /\ c = 1
        \/ p = 1 /\ op = "flush" /\ c = 1
        \/ p = 2 /\ op = "join" /\ c = 0
    <3>1. /\ Len(Main(i)) = 3
          /\ Main(i)[1] = Op("write_line", 1)
          /\ Main(i)[2] = Op("flush", 1)
          /\ Main(i)[3] = Op("join", 0)
      BY <1>5, OtherMains
    <3>2. p \in {0, 1, 2}
      BY <3>1 DEF Statement
    <3>3. CASE p = 0
      BY <3>1, <3>3 DEF Statement, Op
    <3>4. CASE p = 1
      BY <3>1, <3>4 DEF Statement, Op
    <3>5. CASE p = 2
      BY <3>1, <3>5 DEF Statement, Op
    <3> QED
      BY <3>2, <3>3, <3>4, <3>5
  <2>2. FlushAt(i, d) = 2 /\ HasOutput(i.program)
    BY <1>1, <1>5 DEF FlushAt, HasOutput
  <2>3. \A q, v : Written(i, q, d, v) <=> v = IF q >= 1 THEN l ELSE 0
    BY <1>2, <1>5 DEF Written
  <2>4. Increment(i, op, c, d) = IF p = 0 THEN l ELSE 0
    BY <1>1, <1>2, <2>1 DEF Increment, Bytes
  <2>5. Effect(i, p, op, c, d)
    BY <1>1, <1>5, <2>1, <2>2 DEF Effect, Writes
  <2> QED
    BY <2>3, <2>4, <2>5
<1>6. CASE i.program = "filedescriptor"
  <2>1. p = 0 /\ op = "join" /\ c = 0
    BY <1>6, OtherMains DEF Statement, Op
  <2>2. ~HasOutput(i.program)
    BY <1>6 DEF HasOutput
  <2>3. \A q, v : Written(i, q, d, v) <=> v = i.lines * i.len
    BY <1>6 DEF Written
  <2>4. Increment(i, op, c, d) = 0
    BY <2>1 DEF Increment, Bytes
  <2>5. Effect(i, p, op, c, d)
    BY <1>1, <1>6, <2>1, <2>2 DEF Effect, Writes
  <2> QED
    BY <2>3, <2>4, <2>5
<1> QED
  BY <1>1, <1>3, <1>4, <1>5, <1>6

LEMMA NextStatement ==
  ASSUME NEW i \in Instances, NEW p \in Nat,
         NEW op, NEW c, Statement(i, p, op, c), NEW d \in 1 .. i.clients
  PROVE  /\ Effect(i, p, op, c, d)
         /\ \A w \in Nat : Written(i, p, d, w) => Written(i, p + 1, d, w + Increment(i, op, c, d))
BY ListenEffect, SocketEffect, OtherEffect

\* No more is written than what is expected; and that is written before the flush.
LEMMA WrittenBound ==
  ASSUME NEW i \in Instances, NEW p \in Nat, NEW d \in 1 .. i.clients,
         NEW w \in Nat, Written(i, p, d, w)
  PROVE  /\ w <= Total(i) /\ Total(i) \in Nat
         /\ HasOutput(i.program) /\ p >= FlushAt(i, d) => w = Total(i)
<1>1. PICK n \in Nat \ {0}, l \in Nat, m \in Nat, b \in Nat :
        n = i.clients /\ l = i.lines /\ m = i.len /\ b = i.burst
  BY InstanceFacts
<1>2. d \in 1 .. n /\ d \in Nat
  BY <1>1
<1>3. CASE i.program = "listen_socket"
  <2>1. w = (IF p >= n + d THEN b ELSE 0) + (IF p >= 2 * n + 2 * d - 1 THEN b ELSE 0)
    BY <1>1, <1>3 DEF Written
  <2>2. FlushAt(i, d) = 2 * n + 2 * d /\ Total(i) = 2 * b
    BY <1>1, <1>3 DEF FlushAt, Total
  <2> QED
    BY <1>2, <2>1, <2>2
<1>4. CASE i.program \in {"unix_socket", "pipe"}
  <2>1. w = IF p >= 1 THEN m ELSE 0
    BY <1>1, <1>4 DEF Written
  <2>2. FlushAt(i, d) \in {2, 3} /\ Total(i) = m
    BY <1>1, <1>4 DEF FlushAt, Total
  <2> QED
    BY <2>1, <2>2
<1>5. CASE i.program = "socket"
  <2>1. PICK x \in Nat, z \in Nat : x = n * l /\ z = n * w
    OBVIOUS
  <2> DEFINE q == IF p <= n THEN 0 ELSE IF p <= n + x THEN p - n ELSE x
  <2>2. q \in Nat /\ q <= x /\ (p >= n + x => q = x)
    OBVIOUS
  <2>3. z + d - n <= q /\ q < z + d
    BY <1>1, <1>5, <2>1 DEF Written
  <2> HIDE DEF q
  <2>4. FlushAt(i, d) = n + x + d /\ Total(i) = l
    BY <1>1, <1>5, <2>1 DEF FlushAt, Total
  <2>5. l < w => x + n <= z
    BY <2>1, MultStep
  <2>6. w < l => z + n <= x
    BY <2>1, MultStep
  <2> QED
    BY <1>2, <2>2, <2>3, <2>4, <2>5, <2>6
<1>6. CASE i.program = "filedescriptor"
  <2>1. w = l * m /\ Total(i) = l * m
    BY <1>1, <1>6 DEF Written, Total
  <2>2. ~HasOutput(i.program)
    BY <1>6 DEF HasOutput
  <2> QED
    BY <2>1, <2>2
<1>7. CASE i.program = "connect"
  BY <1>7 DEF Written, Total, HasOutput
<1> QED
  BY <1>3, <1>4, <1>5, <1>6, <1>7, InstanceFacts DEF Programs

-----------------------------------------------------------------------------
(* What the steps do to a connection.                                      *)

EndType == [in: DeviceState \ {"Flushing"}, out: DeviceState,
            buf: Nat, net: 0 .. Cap, got: Nat]

\* An output that was closed left nothing behind in its buffer.
Emptied(D) == D.out = "Closed" => D.buf = 0

Fields(D, in, out, buf, net, got) ==
  D.in = in /\ D.out = out /\ D.buf = buf /\ D.net = net /\ D.got = got

LEMMA EndFacts ==
  ASSUME NEW D \in EndType
  PROVE  /\ D.in \in DeviceState \ {"Flushing"} /\ D.out \in DeviceState
         /\ D.buf \in Nat /\ D.net \in 0 .. Cap /\ D.net \in Nat /\ D.got \in Nat
         /\ Cap \in Nat
BY InstanceFacts, EvioProgramsAssumption DEF EndType

LEMMA PositionFacts ==
  ASSUME NEW i \in Instances, NEW c \in 1 .. i.clients
  PROVE  ConnectAt(i, c) \in Nat /\ FlushAt(i, c) \in Nat
<1>1. PICK n \in Nat, l \in Nat : n = i.clients /\ l = i.lines
  BY InstanceFacts
<1>2. n * l \in Nat /\ c \in Nat
  BY <1>1
<1>3. FlushAt(i, c) = CASE i.program = "listen_socket" -> 2 * n + 2 * c
                        [] i.program = "unix_socket"   -> 3
                        [] i.program = "pipe"          -> 2
                        [] i.program = "socket"        -> n + n * l + c
                        [] OTHER                       -> 1
  BY <1>1 DEF FlushAt
<1> QED
  BY <1>2, <1>3 DEF ConnectAt

\* A statement about another client.
LEMMA LinkPasses ==
  ASSUME NEW i \in Instances, NEW p \in Nat, NEW op, NEW c, Statement(i, p, op, c),
         NEW d \in 1 .. i.clients, c # d, NEW k, NEW t, NEW y,
         NEW C \in EndType, NEW S \in EndType, LinkOf(i, p, d, k, t, y, C, S)
  PROVE  LinkOf(i, p + 1, d, k, t, y, C, S)
<1>1. Effect(i, p, op, c, d)
  BY NextStatement
<1>2. ASSUME NEW w \in Nat, Written(i, p, d, w) PROVE Written(i, p + 1, d, w)
  <2>1. Written(i, p + 1, d, w + Increment(i, op, c, d))
    BY <1>2, NextStatement
  <2>2. w + Increment(i, op, c, d) = w
    BY DEF Increment
  <2> QED
    BY <2>1, <2>2
<1>3. ConnectAt(i, d) \in Nat /\ FlushAt(i, d) \in Nat
  BY PositionFacts
<1>4. Connecting(i, p + 1, d, k, t)
  BY <1>1, <1>3 DEF LinkOf, Connecting, Effect
<1>5. ClientDevices(i, p + 1, d, k, C)
  BY <1>1, <1>3 DEF LinkOf, ClientDevices, Effect
<1>6. Forward(i, p + 1, d, k, y, C, S)
  <2>1. C.buf + C.net + S.got \in Nat
    BY EndFacts
  <2> QED
    BY <1>2, <2>1 DEF LinkOf, Forward
<1> QED
  BY <1>4, <1>5, <1>6 DEF LinkOf

\* Another client is told, or flushed early.
LEMMA LinkSame ==
  ASSUME NEW i, NEW p, NEW d, NEW k, NEW t, NEW y, NEW C, NEW S,
         NEW t2, NEW y2, d \in t <=> d \in t2, d \in y <=> d \in y2,
         LinkOf(i, p, d, k, t, y, C, S)
  PROVE  LinkOf(i, p, d, k, t2, y2, C, S)
<1>1. Connecting(i, p, d, k, t2)
  BY DEF LinkOf, Connecting
<1>2. Forward(i, p, d, k, y2, C, S)
  BY DEF LinkOf, Forward
<1>3. Closing(i, d, k, y2, C, S)
  BY DEF LinkOf, Closing
<1> QED
  BY <1>1, <1>2, <1>3 DEF LinkOf

LEMMA LinkConnect ==
  ASSUME NEW i \in Instances, NEW p \in Nat, NEW c \in 1 .. i.clients,
         Statement(i, p, "connect", c), NEW k, NEW t, NEW y,
         NEW C \in EndType, NEW S \in EndType, LinkOf(i, p, c, k, t, y, C, S),
         NEW k2, NEW t2, NEW C2 \in EndType,
         k2 = IF i.program = "unix_socket" THEN "backlog" ELSE "connecting",
         c \in t2 => c \in t \/ i.program = "unix_socket",
         Fields(C2, Start(C.in), IF i.program = "unix_socket" THEN Start(C.out) ELSE C.out,
                C.buf, C.net, C.got)
  PROVE  /\ k = "none" /\ i.program \notin {"pipe", "filedescriptor"}
         /\ LinkOf(i, p + 1, c, k2, t2, y, C2, S)
<1>1. Effect(i, p, "connect", c, c)
  BY NextStatement
<1>2. ConnectAt(i, c) \in Nat /\ FlushAt(i, c) \in Nat
  BY PositionFacts
<1>3. k = "none" /\ i.program \notin {"pipe", "filedescriptor"} /\ p + 1 = ConnectAt(i, c)
  BY <1>1, <1>2 DEF Effect, LinkOf, Connecting
<1>4. ~(c \in t)
  BY <1>3 DEF LinkOf, Connecting
<1>5. Connecting(i, p + 1, c, k2, t2)
  BY <1>2, <1>3, <1>4 DEF Connecting
<1>6. ClientDevices(i, p + 1, c, k2, C2)
  <2>1. HasOutput(i.program) => p + 1 < FlushAt(i, c)
    BY <1>1 DEF Effect
  <2> QED
    BY <1>2, <1>3, <2>1 DEF LinkOf, ClientDevices, Fields, Start
<1>7. ServerDevices(i, k2, S)
  BY <1>3, InstanceFacts DEF LinkOf, ServerDevices, HasListener, Programs
<1>8. Forward(i, p + 1, c, k2, y, C2, S)
  <2>1. C.buf + C.net + S.got \in Nat
    BY EndFacts
  <2>2. Increment(i, "connect", c, c) = 0
    BY DEF Increment, Bytes
  <2>3. ASSUME NEW w \in Nat, Written(i, p, c, w) PROVE Written(i, p + 1, c, w)
    <3>1. Written(i, p + 1, c, w + Increment(i, "connect", c, c))
      BY <2>3, NextStatement
    <3> QED
      BY <2>2, <3>1
  <2> QED
    BY <1>3, <2>1, <2>3 DEF LinkOf, Forward, Fields
<1>9. Backward(i, k2, C2, S)
  BY <1>3 DEF LinkOf, Backward, Fields
<1>10. Closing(i, c, k2, y, C2, S)
  BY DEF Closing
<1> QED
  BY <1>3, <1>5, <1>6, <1>7, <1>8, <1>9, <1>10 DEF LinkOf

LEMMA LinkWrite ==
  ASSUME NEW i \in Instances, NEW p \in Nat, NEW c \in 1 .. i.clients, NEW op \in Writes,
         Statement(i, p, op, c), NEW k, NEW t, NEW y,
         NEW C \in EndType, NEW S \in EndType, LinkOf(i, p, c, k, t, y, C, S),
         NEW C2 \in EndType, NEW out \in {C.out, Start(C.out)},
         Fields(C2, C.in, out, IF out = "Closed" THEN C.buf ELSE C.buf + Bytes(i, op),
                C.net, C.got)
  PROVE  LinkOf(i, p + 1, c, k, t, y, C2, S)
<1>1. Effect(i, p, op, c, c)
  BY NextStatement
<1>2. ConnectAt(i, c) \in Nat /\ FlushAt(i, c) \in Nat
  BY PositionFacts
<1>3. HasOutput(i.program) /\ p + 1 < FlushAt(i, c)
  BY <1>1 DEF Effect
<1>4. op # "connect"
  BY DEF Writes
<1>5. Connecting(i, p + 1, c, k, t)
  BY <1>1, <1>2, <1>4 DEF LinkOf, Connecting, Effect
<1>6. ClientDevices(i, p + 1, c, k, C2)
  BY <1>2, <1>3 DEF LinkOf, ClientDevices, Fields, Start
<1>7. ServerDevices(i, k, S)
  BY DEF LinkOf
<1>8. Forward(i, p + 1, c, k, y, C2, S)
  <2>1. i.program \notin {"connect", "filedescriptor"}
    BY <1>3 DEF HasOutput
  <2>2. SUFFICES ASSUME k # "reset", c \notin y
                 PROVE  Written(i, p + 1, c, C2.buf + C2.net + S.got)
    BY <2>1 DEF Forward
  <2>3. Written(i, p, c, C.buf + C.net + S.got)
    BY <2>2 DEF LinkOf, Forward
  <2>4. C.buf \in Nat /\ C.net \in Nat /\ S.got \in Nat
    BY EndFacts
  <2>5. Bytes(i, op) \in Nat /\ Increment(i, op, c, c) = Bytes(i, op)
    BY InstanceFacts DEF Bytes, Increment, Writes
  <2>6. out # "Closed"
    BY <1>2, <1>3, <2>2 DEF LinkOf, ClientDevices, Start
  <2>7. C2.buf + C2.net + S.got = C.buf + C.net + S.got + Bytes(i, op)
    BY <2>4, <2>5, <2>6 DEF Fields
  <2>8. C.buf + C.net + S.got \in Nat
    BY <2>4
  <2>9. Written(i, p + 1, c, (C.buf + C.net + S.got) + Increment(i, op, c, c))
    BY <2>3, <2>8, NextStatement
  <2> QED
    BY <2>5, <2>7, <2>9
<1>9. Backward(i, k, C2, S)
  BY DEF LinkOf, Backward, Fields
<1>10. Closing(i, c, k, y, C2, S)
  BY DEF LinkOf, Closing, Fields
<1> QED
  BY <1>5, <1>6, <1>7, <1>8, <1>9, <1>10 DEF LinkOf

LEMMA LinkFlush ==
  ASSUME NEW i \in Instances, NEW p \in Nat, NEW c \in 1 .. i.clients,
         Statement(i, p, "flush", c), NEW k, NEW t, NEW y,
         NEW C \in EndType, NEW S \in EndType, LinkOf(i, p, c, k, t, y, C, S),
         NEW C2 \in EndType, NEW y2,
         Flush(C.out) = "Closed" /\ C.buf > 0 => c \in y2,
         c \in y => c \in y2,
         Fields(C2, C.in, Flush(C.out), IF Flush(C.out) = "Closed" THEN 0 ELSE C.buf,
                C.net, C.got)
  PROVE  LinkOf(i, p + 1, c, k, t, y2, C2, S)
<1>1. Effect(i, p, "flush", c, c)
  BY NextStatement
<1>2. ConnectAt(i, c) \in Nat /\ FlushAt(i, c) \in Nat
  BY PositionFacts
<1>3. HasOutput(i.program) /\ p + 1 = FlushAt(i, c)
  BY <1>1 DEF Effect
<1>4. C.buf \in Nat /\ C.net \in Nat /\ S.got \in Nat /\ C.out \in DeviceState
  BY EndFacts
<1>5. Connecting(i, p + 1, c, k, t)
  BY <1>1, <1>2 DEF LinkOf, Connecting, Effect
<1>6. ClientDevices(i, p + 1, c, k, C2)
  <2>1. C.out \in DeviceState \ {"None"}
    BY <1>3, <1>4 DEF LinkOf, ClientDevices
  <2>2. Flush(C.out) \in {"Flushing", "Closed"}
    BY <2>1 DEF Flush, DeviceState
  <2> QED
    BY <1>2, <1>3, <2>2 DEF LinkOf, ClientDevices, Fields
<1>7. ServerDevices(i, k, S)
  BY DEF LinkOf
<1>8. Forward(i, p + 1, c, k, y2, C2, S)
  <2>1. i.program \notin {"connect", "filedescriptor"}
    BY <1>3 DEF HasOutput
  <2>2. SUFFICES ASSUME k # "reset", c \notin y2
                 PROVE  Written(i, p + 1, c, C2.buf + C2.net + S.got)
    BY <2>1 DEF Forward
  <2>3. Written(i, p, c, C.buf + C.net + S.got)
    BY <2>2 DEF LinkOf, Forward
  <2>4. Increment(i, "flush", c, c) = 0
    BY DEF Bytes, Increment
  <2>5. C2.buf + C2.net + S.got = C.buf + C.net + S.got
    BY <1>4, <2>2 DEF Fields
  <2>6. C.buf + C.net + S.got \in Nat
    BY <1>4
  <2>7. Written(i, p + 1, c, (C.buf + C.net + S.got) + Increment(i, "flush", c, c))
    BY <2>3, <2>6, NextStatement
  <2> QED
    BY <2>4, <2>5, <2>6, <2>7
<1>9. Backward(i, k, C2, S)
  BY DEF LinkOf, Backward, Fields
<1>10. Closing(i, c, k, y2, C2, S)
  BY DEF LinkOf, Closing, Fields
<1> QED
  BY <1>5, <1>6, <1>7, <1>8, <1>9, <1>10 DEF LinkOf

\* The kernel makes or refuses the connection, or it is reset when the listen socket is
\* closed.
LEMMA LinkResolved ==
  ASSUME NEW i \in Instances, NEW p \in Nat, NEW c \in 1 .. i.clients, NEW k, NEW t, NEW y,
         NEW C \in EndType, NEW S \in EndType, LinkOf(i, p, c, k, t, y, C, S),
         k \in {"connecting", "backlog"},
         NEW k2, k2 \in {"backlog", "reset"} \/ (i.program = "socket" /\ k2 = "accepted")
  PROVE  LinkOf(i, p, c, k2, t, y, C, S)
<1>1. i.program \notin {"pipe", "filedescriptor"}
  BY DEF LinkOf, Connecting
<1>2. Connecting(i, p, c, k2, t)
  BY <1>1 DEF LinkOf, Connecting
<1>3. ClientDevices(i, p, c, k2, C)
  BY <1>1 DEF LinkOf, ClientDevices
<1>4. ServerDevices(i, k2, S)
  BY <1>1 DEF LinkOf, ServerDevices, HasListener
<1>5. Forward(i, p, c, k2, y, C, S)
  BY DEF LinkOf, Forward
<1>6. Backward(i, k2, C, S)
  BY DEF LinkOf, Backward
<1>7. Closing(i, c, k2, y, C, S)
  BY DEF LinkOf, Closing, ClientDevices
<1> QED
  BY <1>2, <1>3, <1>4, <1>5, <1>6, <1>7 DEF LinkOf

\* new_connection() of listen_socket.cxx.
LEMMA LinkAnswered ==
  ASSUME NEW i \in Instances, NEW p \in Nat, NEW c \in 1 .. i.clients, NEW t, NEW y,
         NEW C \in EndType, NEW S \in EndType, LinkOf(i, p, c, "backlog", t, y, C, S),
         i.program = "listen_socket", NEW S2 \in EndType,
         Fields(S2, Start(S.in), Flush(Start(S.out)), i.lines * i.len, 0, 0)
  PROVE  LinkOf(i, p, c, "accepted", t, y, C, S2)
<1>1. /\ S.in = "Removed" /\ S.out = "Removed" /\ S.got = 0
      /\ C.in = "Active" /\ C.got = 0
  BY DEF LinkOf, ServerDevices, ClientDevices, HasListener, Backward
<1>2. S2.in = "Active" /\ S2.out = "Flushing" /\ S2.net = 0 /\ S2.got = 0
  BY <1>1 DEF Fields, Start, Flush
<1>3. PICK x \in Nat : x = i.lines * i.len /\ S2.buf = x
  BY EndFacts DEF Fields
<1>4. Connecting(i, p, c, "accepted", t)
  BY DEF LinkOf, Connecting
<1>5. ClientDevices(i, p, c, "accepted", C)
  BY DEF LinkOf, ClientDevices
<1>6. ServerDevices(i, "accepted", S2)
  BY <1>2 DEF ServerDevices
<1>7. Forward(i, p, c, "accepted", y, C, S2)
  BY <1>1, <1>2 DEF LinkOf, Forward
<1>8. Backward(i, "accepted", C, S2)
  BY <1>1, <1>2, <1>3 DEF Backward
<1>9. Closing(i, c, "accepted", y, C, S2)
  BY <1>1, <1>2 DEF Closing
<1> QED
  BY <1>4, <1>5, <1>6, <1>7, <1>8, <1>9 DEF LinkOf

\* new_connection() of connect.cxx and unix_socket.cxx.
LEMMA LinkAccepted ==
  ASSUME NEW i \in Instances, NEW p \in Nat, NEW c \in 1 .. i.clients, NEW t, NEW y,
         NEW C \in EndType, NEW S \in EndType, LinkOf(i, p, c, "backlog", t, y, C, S),
         i.program \in {"connect", "unix_socket"}, NEW S2 \in EndType,
         Fields(S2, Start(S.in), Start(S.out), S.buf, S.net, S.got)
  PROVE  LinkOf(i, p, c, "accepted", t, y, C, S2)
<1>1. S.in = "Removed" /\ S.out = "Removed" /\ S.buf = 0 /\ S.net = 0
  BY DEF LinkOf, ServerDevices, HasListener
<1>2. S2.in = "Active" /\ S2.out = "Active" /\ S2.buf = 0 /\ S2.net = 0 /\ S2.got = S.got
  BY <1>1 DEF Fields, Start
<1>3. Connecting(i, p, c, "accepted", t)
  BY DEF LinkOf, Connecting
<1>4. ClientDevices(i, p, c, "accepted", C)
  BY DEF LinkOf, ClientDevices
<1>5. ServerDevices(i, "accepted", S2)
  BY <1>2 DEF ServerDevices
<1>6. Forward(i, p, c, "accepted", y, C, S2)
  BY <1>2 DEF LinkOf, Forward
<1>7. Backward(i, "accepted", C, S2)
  BY DEF Backward
<1>8. Closing(i, c, "accepted", y, C, S2)
  BY <1>2 DEF Closing
<1> QED
  BY <1>3, <1>4, <1>5, <1>6, <1>7, <1>8 DEF LinkOf

LEMMA LinkConnected ==
  ASSUME NEW i \in Instances, NEW p \in Nat, NEW c \in 1 .. i.clients, NEW k, NEW t, NEW y,
         NEW C \in EndType, NEW S \in EndType, LinkOf(i, p, c, k, t, y, C, S),
         k \in {"backlog", "accepted"}, NEW t2, NEW C2 \in EndType,
         IF i.program = "connect"
         THEN Fields(C2, Close(C.in), C.out, C.buf, C.net, C.got)
         ELSE Fields(C2, C.in, IF C.buf > 0 THEN Start(C.out) ELSE C.out, C.buf, C.net, C.got)
  PROVE  LinkOf(i, p, c, k, t2, y, C2, S)
<1>1. /\ i.program # "connect" => C2.in = C.in /\ C2.out \in {C.out, Start(C.out)}
      /\ i.program = "connect" => C2.out = C.out
      /\ C2.buf = C.buf /\ C2.net = C.net /\ C2.got = C.got
  BY DEF Fields
<1>2. Connecting(i, p, c, k, t2)
  BY DEF LinkOf, Connecting
<1>3. ClientDevices(i, p, c, k, C2)
  <2>1. CASE i.program = "connect"
    BY <1>1, <2>1 DEF LinkOf, ClientDevices, HasOutput
  <2>2. CASE i.program # "connect"
    BY <1>1, <2>2 DEF LinkOf, ClientDevices, Start
  <2> QED
    BY <2>1, <2>2
<1>4. Forward(i, p, c, k, y, C2, S)
  BY <1>1 DEF LinkOf, Forward
<1>5. Backward(i, k, C2, S)
  BY <1>1 DEF LinkOf, Backward
<1>6. Closing(i, c, k, y, C2, S)
  BY <1>1 DEF LinkOf, Closing
<1> QED
  BY <1>2, <1>3, <1>4, <1>5, <1>6 DEF LinkOf

LEMMA LinkFailed ==
  ASSUME NEW i \in Instances, NEW p \in Nat, NEW c \in 1 .. i.clients, NEW t, NEW y,
         NEW C \in EndType, NEW S \in EndType, LinkOf(i, p, c, "reset", t, y, C, S),
         NEW t2, NEW C2 \in EndType,
         Fields(C2, Close(C.in), Close(C.out), 0, C.net, C.got)
  PROVE  LinkOf(i, p, c, "reset", t2, y, C2, S)
<1>1. i.program \notin {"pipe", "filedescriptor"}
  BY DEF LinkOf, Connecting
<1>2. Connecting(i, p, c, "reset", t2)
  BY DEF LinkOf, Connecting
<1>3. ClientDevices(i, p, c, "reset", C2)
  BY DEF LinkOf, ClientDevices, Fields, Close
<1>4. Forward(i, p, c, "reset", y, C2, S)
  BY <1>1 DEF LinkOf, Forward, Fields
<1>5. Backward(i, "reset", C2, S)
  BY DEF LinkOf, Backward, Fields
<1>6. Closing(i, c, "reset", y, C2, S)
  BY DEF Closing
<1> QED
  BY <1>2, <1>3, <1>4, <1>5, <1>6 DEF LinkOf

\* Bytes move between the parts of a connection, devices stop or are closed.
LEMMA LinkMoves ==
  ASSUME NEW i \in Instances, NEW p \in Nat, NEW c \in 1 .. i.clients, NEW k, NEW t, NEW y,
         NEW C \in EndType, NEW S \in EndType, LinkOf(i, p, c, k, t, y, C, S),
         NEW C2 \in EndType, NEW S2 \in EndType,
         ClientDevices(i, p, c, k, C2), ServerDevices(i, k, S2),
         C2.buf + C2.net + S2.got = C.buf + C.net + S.got,
         i.program = "connect" => C2.buf = 0 /\ C2.net = 0,
         i.program = "filedescriptor" =>
           \E a, b \in Nat : C2.buf = a * i.len /\ C2.net = b * i.len,
         Backward(i, k, C2, S2), Closing(i, c, k, y, C2, S2)
  PROVE  LinkOf(i, p, c, k, t, y, C2, S2)
<1>1. Forward(i, p, c, k, y, C2, S2)
  BY DEF LinkOf, Forward
<1> QED
  BY <1>1 DEF LinkOf

LEMMA LinkReplies ==
  ASSUME NEW i \in Instances, NEW p \in Nat, NEW c \in 1 .. i.clients, NEW k, NEW t, NEW y,
         NEW C \in EndType, NEW S \in EndType, LinkOf(i, p, c, k, t, y, C, S),
         i.program = "socket", C.net > 0, NEW C2 \in EndType, NEW S2 \in EndType,
         Fields(C2, C.in, C.out, C.buf, C.net - 1, C.got),
         Fields(S2, S.in, S.out, S.buf, S.net + i.len, S.got + 1)
  PROVE  LinkOf(i, p, c, k, t, y, C2, S2)
<1>1. /\ C.buf \in Nat /\ C.net \in Nat /\ C.got \in Nat /\ S.net \in Nat /\ S.got \in Nat
      /\ i.len \in Nat
  BY EndFacts, InstanceFacts
<1>2. ClientDevices(i, p, c, k, C2)
  BY DEF LinkOf, ClientDevices, Fields
<1>3. ServerDevices(i, k, S2)
  BY DEF LinkOf, ServerDevices, Fields, HasListener
<1>4. C2.buf + C2.net + S2.got = C.buf + C.net + S.got
  BY <1>1 DEF Fields
<1>5. Backward(i, k, C2, S2)
  <2>1. PICK l \in Nat, g \in Nat, m \in Nat, r \in Nat :
          l = i.len /\ g = S.got /\ m = S.net /\ r = C.got
    BY <1>1
  <2>2. m + r = l * g
    BY <2>1 DEF LinkOf, Backward
  <2>3. (m + l) + r = l * (g + 1)
    BY <2>2
  <2> QED
    BY <2>1, <2>3 DEF Backward, Fields
<1>6. Closing(i, c, k, y, C2, S2)
  BY DEF LinkOf, Closing, Fields
<1> QED
  BY <1>2, <1>3, <1>4, <1>5, <1>6, LinkMoves

LEMMA LinkTypes ==
  ASSUME NEW i \in Instances, NEW p \in Nat, NEW c \in 1 .. i.clients, NEW k, NEW t, NEW y,
         NEW C \in EndType, NEW S \in EndType, LinkOf(i, p, c, k, t, y, C, S),
         i.program = "filedescriptor", NEW C2 \in EndType,
         Fields(C2, C.in, C.out, C.buf - i.len, C.net + i.len, C.got)
  PROVE  LinkOf(i, p, c, k, t, y, C2, S)
<1>1. PICK b \in Nat, m \in Nat, g \in Nat, l \in Nat \ {0} :
        b = C.buf /\ m = C.net /\ g = S.got /\ l = i.len
  BY EndFacts, InstanceFacts
<1>2. C2.buf = b - l /\ C2.net = m + l /\ C2.buf \in Nat
  BY <1>1, EndFacts DEF Fields
<1>3. \E x, z \in Nat : C2.buf = x * i.len /\ C2.net = z * i.len
  <2>1. PICK x \in Nat, z \in Nat : b = x * l /\ m = z * l
    BY <1>1 DEF LinkOf, Forward
  <2>2. x # 0
    BY <1>2, <2>1
  <2>3. x - 1 \in Nat /\ z + 1 \in Nat
    BY <2>2
  <2>4. b - l = (x - 1) * l /\ m + l = (z + 1) * l
    BY <2>1, <2>3
  <2> QED
    BY <1>1, <1>2, <2>3, <2>4
<1>4. C2.buf + C2.net + S.got = C.buf + C.net + S.got
  BY <1>1, <1>2
<1>5. ClientDevices(i, p, c, k, C2)
  BY DEF LinkOf, ClientDevices, Fields
<1>6. ServerDevices(i, k, S) /\ Backward(i, k, C2, S)
  BY DEF LinkOf, Backward
<1>7. Closing(i, c, k, y, C2, S)
  BY DEF LinkOf, Closing
<1> QED
  BY <1>3, <1>4, <1>5, <1>6, <1>7, LinkMoves

LEMMA LinkClientWrites ==
  ASSUME NEW i \in Instances, NEW p \in Nat, NEW c \in 1 .. i.clients, NEW k, NEW t, NEW y,
         NEW C \in EndType, NEW S \in EndType, LinkOf(i, p, c, k, t, y, C, S),
         i.program # "filedescriptor", IsActive(C.out), k # "reset",
         NEW j \in 0 .. C.buf, NEW C2 \in EndType,
         Fields(C2, C.in, IF C.buf = j THEN Stop(C.out) ELSE C.out, C.buf - j, C.net + j, C.got)
  PROVE  LinkOf(i, p, c, k, t, y, C2, S)
<1>1. C.buf \in Nat /\ C.net \in Nat /\ S.got \in Nat
  BY EndFacts
<1>2. C2.out \in {C.out, Stop(C.out)} /\ C2.in = C.in /\ C2.got = C.got
  BY DEF Fields
<1>3. C2.buf + C2.net + S.got = C.buf + C.net + S.got
  BY <1>1 DEF Fields
<1>4. i.program # "connect"
  BY DEF LinkOf, ClientDevices, HasOutput, IsActive
<1>5. ClientDevices(i, p, c, k, C2)
  <2>1. \/ C.out = "Active" /\ C2.out \in {"Active", "Added"}
        \/ C.out = "Flushing" /\ C2.out \in {"Flushing", "Closed"}
    BY <1>2 DEF IsActive, Stop
  <2> QED
    BY <1>2, <2>1 DEF LinkOf, ClientDevices
<1>6. ServerDevices(i, k, S) /\ Backward(i, k, C2, S)
  BY <1>2 DEF LinkOf, Backward
<1>7. Closing(i, c, k, y, C2, S)
  BY <1>2 DEF LinkOf, Closing
<1> QED
  BY <1>3, <1>4, <1>5, <1>6, <1>7, LinkMoves

LEMMA LinkServerWrites ==
  ASSUME NEW i \in Instances, NEW p \in Nat, NEW c \in 1 .. i.clients, NEW k, NEW t, NEW y,
         NEW C \in EndType, NEW S \in EndType, LinkOf(i, p, c, k, t, y, C, S),
         i.program # "filedescriptor", IsActive(S.out),
         NEW j \in 0 .. S.buf, NEW S2 \in EndType,
         Fields(S2, S.in, IF S.buf = j THEN Stop(S.out) ELSE S.out, S.buf - j, S.net + j, S.got)
  PROVE  LinkOf(i, p, c, k, t, y, C, S2)
<1>1. S.buf \in Nat /\ S.net \in Nat /\ C.got \in Nat
  BY EndFacts
<1>2. S2.out \in {S.out, Stop(S.out)} /\ S2.in = S.in /\ S2.got = S.got
  BY DEF Fields
<1>3. i.program \in {"listen_socket", "connect", "unix_socket"} /\ k = "accepted"
  BY InstanceFacts DEF LinkOf, ServerDevices, HasListener, IsActive, Programs
<1>4. ServerDevices(i, k, S2)
  <2>1. CASE i.program = "listen_socket"
    BY <1>2, <1>3, <2>1 DEF LinkOf, ServerDevices, Stop, IsActive
  <2>2. CASE i.program \in {"connect", "unix_socket"}
    <3>1. S.buf = 0 /\ S.net = 0 /\ j = 0
      BY <2>2 DEF LinkOf, ServerDevices
    <3>2. S2.buf = 0 /\ S2.net = 0
      BY <3>1 DEF Fields
    <3> QED
      BY <1>2, <1>3, <2>2, <3>2 DEF LinkOf, ServerDevices
  <2> QED
    BY <1>3, <2>1, <2>2
<1>5. Backward(i, k, C, S2)
  <2>1. S2.buf + S2.net + C.got = S.buf + S.net + C.got
    BY <1>1 DEF Fields
  <2> QED
    BY <1>3, <2>1 DEF LinkOf, Backward
<1>6. ClientDevices(i, p, c, k, C) /\ Closing(i, c, k, y, C, S2)
  BY <1>2 DEF LinkOf, Closing
<1>7. i.program = "connect" => C.buf = 0 /\ C.net = 0
  BY DEF LinkOf, Forward
<1>8. C.buf + C.net + S2.got = C.buf + C.net + S.got
  BY <1>2
<1> QED
  BY <1>4, <1>5, <1>6, <1>7, <1>8, LinkMoves

LEMMA LinkTestOutput ==
  ASSUME NEW i \in Instances, NEW p \in Nat, NEW c \in 1 .. i.clients, NEW k, NEW t, NEW y,
         NEW C \in EndType, NEW S \in EndType, LinkOf(i, p, c, k, t, y, C, S),
         i.program = "filedescriptor", IsActive(S.out), NEW S2 \in EndType,
         Fields(S2, S.in, Stop(S.out), 0, 1, S.got)
  PROVE  LinkOf(i, p, c, k, t, y, C, S2)
<1>1. S.out = "Active" /\ S2.out = "Added" /\ S2.buf = 0 /\ S2.in = S.in /\ S2.got = S.got
  BY DEF LinkOf, ServerDevices, IsActive, Stop, Fields
<1>2. ServerDevices(i, k, S2)
  BY <1>1 DEF LinkOf, ServerDevices, HasListener
<1>3. ClientDevices(i, p, c, k, C) /\ Backward(i, k, C, S2) /\ Closing(i, c, k, y, C, S2)
  BY <1>1 DEF LinkOf, Backward, Closing
<1>4. \E a, b \in Nat : C.buf = a * i.len /\ C.net = b * i.len
  BY DEF LinkOf, Forward
<1>5. C.buf + C.net + S2.got = C.buf + C.net + S.got
  BY <1>1
<1> QED
  BY <1>2, <1>3, <1>4, <1>5, LinkMoves

\* The client reads j bytes, and closes when the last line ends in them.
LEMMA LinkClientReads ==
  ASSUME NEW i \in Instances, NEW p \in Nat, NEW c \in 1 .. i.clients, NEW t, NEW y,
         NEW C \in EndType, NEW S \in EndType, LinkOf(i, p, c, "accepted", t, y, C, S),
         i.program # "filedescriptor", C.in = "Active",
         NEW j \in 1 .. S.net, NEW C2 \in EndType, NEW S2 \in EndType,
         Fields(C2, C2.in, C.out, C.buf, C.net, C.got + j), C2.in \in {"Active", "Closed"},
         i.program \in {"listen_socket", "socket"} /\ C2.in = "Closed" =>
           i.lines * i.len \in C.got + 1 .. C.got + j,
         Fields(S2, S.in, S.out, S.buf, S.net - j, S.got)
  PROVE  LinkOf(i, p, c, "accepted", t, y, C2, S2)
<1>1. i.program \in {"listen_socket", "socket"}
  <2>1. i.program \notin {"unix_socket", "pipe"}
    BY DEF LinkOf, ClientDevices
  <2>2. i.program # "connect"
    <3>1. S.net \in Nat /\ S.net # 0
      BY EndFacts
    <3> QED
      BY <3>1 DEF LinkOf, ServerDevices
  <2> QED
    BY <2>1, <2>2, InstanceFacts DEF Programs
<1>2. PICK b \in Nat, m \in Nat, g \in Nat, x \in Nat, r \in Nat :
        b = S.buf /\ m = S.net /\ g = C.got /\ x = i.lines * i.len /\ r = S.got
  <2>1. i.lines \in Nat /\ i.len \in Nat
    BY InstanceFacts
  <2>2. i.lines * i.len \in Nat
    BY <2>1
  <2> QED
    BY <2>2, EndFacts
<1>3. S2.buf = b /\ S2.net = m - j /\ C2.got = g + j /\ S2.got = r
  BY <1>2 DEF Fields
<1>4. C2.buf + C2.net + S2.got = C.buf + C.net + S.got
  BY DEF Fields
<1>5. ClientDevices(i, p, c, "accepted", C2)
  BY <1>1 DEF LinkOf, ClientDevices, Fields
<1>6. ServerDevices(i, "accepted", S2)
  BY <1>1 DEF LinkOf, ServerDevices, Fields
<1>7. Backward(i, "accepted", C2, S2)
  <2>1. i.program = "listen_socket" => b + m + g = x
    BY <1>2 DEF LinkOf, Backward
  <2>2. i.program = "socket" => m + g = i.len * r
    BY <1>2 DEF LinkOf, Backward
  <2>3. (m - j) + (g + j) = m + g /\ b + (m - j) + (g + j) = b + m + g
    BY <1>2
  <2> QED
    BY <1>2, <1>3, <2>1, <2>2, <2>3 DEF Backward
<1>8. Closing(i, c, "accepted", y, C2, S2)
  <2>1. ASSUME C2.in = "Closed", i.program = "listen_socket" \/ c \notin y
        PROVE  C2.got = x
    <3>1. g + 1 <= x /\ x <= g + j
      BY <1>1, <1>2, <2>1
    <3>2. g + m <= x
      <4>1. CASE i.program = "listen_socket"
        BY <1>2, <4>1 DEF LinkOf, Backward
      <4>2. CASE i.program = "socket"
        <5>1. PICK w \in Nat : w = C.buf + C.net + S.got /\ r <= w
          BY <1>2, EndFacts
        <5>2. Written(i, p, c, w)
          BY <2>1, <4>2, <5>1 DEF LinkOf, Forward
        <5>3. r <= i.lines
          <6>1. w <= Total(i)
            BY <5>2, WrittenBound
          <6>2. Total(i) = i.lines /\ i.lines \in Nat
            BY <4>2, InstanceFacts DEF Total
          <6> QED
            BY <5>1, <6>1, <6>2
        <5>4. i.len * r <= i.len * i.lines
          BY <5>3, InstanceFacts, MultMono
        <5>5. i.len * i.lines = x
          BY <1>2, InstanceFacts
        <5>6. m + g = i.len * r
          BY <1>2, <4>2 DEF LinkOf, Backward
        <5> QED
          BY <5>4, <5>5, <5>6
      <4> QED
        BY <1>1, <4>1, <4>2
    <3> QED
      BY <1>2, <1>3, <3>1, <3>2
  <2>2. i.program = "listen_socket" /\ S2.in = "Closed" /\ c \notin y => S2.got = Total(i)
    BY DEF LinkOf, Closing, Fields
  <2> QED
    BY <1>1, <1>2, <2>1, <2>2 DEF Closing
<1> QED
  BY <1>1, <1>4, <1>5, <1>6, <1>7, <1>8, LinkMoves

\* The server reads j bytes, and closes when it has all, or when the line ends in them.
LEMMA LinkServerReads ==
  ASSUME NEW i \in Instances, NEW p \in Nat, NEW c \in 1 .. i.clients, NEW t, NEW y,
         NEW C \in EndType, NEW S \in EndType, LinkOf(i, p, c, "accepted", t, y, C, S),
         i.program # "filedescriptor", S.in = "Active",
         NEW j \in 1 .. C.net, NEW C2 \in EndType, NEW S2 \in EndType,
         Fields(S2, S2.in, S.out, S.buf, S.net, S.got + j), S2.in \in {"Active", "Closed"},
         i.program = "listen_socket" /\ S2.in = "Closed" => S.got + j = 2 * i.burst,
         i.program \in {"unix_socket", "pipe"} /\ S2.in = "Closed" => i.len <= S.got + j,
         Fields(C2, C.in, C.out, C.buf, C.net - j, C.got)
  PROVE  LinkOf(i, p, c, "accepted", t, y, C2, S2)
<1>1. PICK b \in Nat, m \in Nat, g \in Nat : b = C.buf /\ m = C.net /\ g = S.got
  BY EndFacts
<1>2. C2.buf = b /\ C2.net = m - j /\ S2.got = g + j
  BY <1>1 DEF Fields
<1>3. i.program \in {"listen_socket", "unix_socket", "pipe"}
  <2>1. i.program # "socket"
    BY DEF LinkOf, ServerDevices
  <2>2. i.program # "connect"
    BY <1>1 DEF LinkOf, Forward
  <2> QED
    BY <2>1, <2>2, InstanceFacts DEF Programs
<1>4. C2.buf + C2.net + S2.got = C.buf + C.net + S.got
  BY <1>1, <1>2
<1>5. ClientDevices(i, p, c, "accepted", C2)
  BY DEF LinkOf, ClientDevices, Fields
<1>6. ServerDevices(i, "accepted", S2)
  BY <1>3 DEF LinkOf, ServerDevices, Fields
<1>7. Backward(i, "accepted", C2, S2)
  BY <1>3 DEF LinkOf, Backward, Fields
<1>8. Closing(i, c, "accepted", y, C2, S2)
  <2>1. i.program = "listen_socket" /\ C2.in = "Closed" => C2.got = i.lines * i.len
    BY DEF LinkOf, Closing, Fields
  <2>2. ASSUME S2.in = "Closed", c \notin y PROVE S2.got = Total(i)
    <3>1. CASE i.program = "listen_socket"
      BY <2>2, <3>1 DEF Total, Fields
    <3>2. CASE i.program \in {"unix_socket", "pipe"}
      <4>1. PICK w \in Nat : w = b + m + g
        BY <1>1
      <4>2. Written(i, p, c, w)
        BY <1>1, <2>2, <4>1 DEF LinkOf, Forward
      <4>3. w <= Total(i)
        BY <4>2, WrittenBound
      <4>4. Total(i) = i.len /\ i.len \in Nat
        BY <3>2, InstanceFacts DEF Total
      <4>5. i.len <= g + j /\ j <= m
        BY <1>1, <2>2, <3>2
      <4>6. g + j = i.len
        BY <4>1, <4>3, <4>4, <4>5
      <4> QED
        BY <1>2, <4>4, <4>6
    <3> QED
      BY <1>3, <3>1, <3>2
  <2> QED
    BY <1>3, <2>1, <2>2 DEF Closing
<1> QED
  BY <1>3, <1>4, <1>5, <1>6, <1>7, <1>8, LinkMoves

\* A line is read from standard input; the last one closes it.
LEMMA LinkTestInput ==
  ASSUME NEW i \in Instances, NEW p \in Nat, NEW c \in 1 .. i.clients, NEW k, NEW t, NEW y,
         NEW C \in EndType, NEW S \in EndType, LinkOf(i, p, c, k, t, y, C, S),
         i.program = "filedescriptor", S.in = "Active", NEW C2 \in EndType, NEW S2 \in EndType,
         Fields(S2, S2.in, S.out, S.buf, S.net, S.got + i.len), S2.in \in {"Active", "Closed"},
         S2.in = "Closed" => S.got + i.len = i.lines * i.len,
         Fields(C2, C.in, C.out, C.buf, C.net - i.len, C.got)
  PROVE  LinkOf(i, p, c, k, t, y, C2, S2)
<1>1. PICK b \in Nat, m \in Nat, g \in Nat, l \in Nat \ {0} :
        b = C.buf /\ m = C.net /\ g = S.got /\ l = i.len
  BY EndFacts, InstanceFacts
<1>2. C2.buf = b /\ C2.net = m - l /\ C2.net \in Nat /\ S2.got = g + l
  BY <1>1, EndFacts DEF Fields
<1>3. \E x, z \in Nat : C2.buf = x * i.len /\ C2.net = z * i.len
  <2>1. PICK x \in Nat, z \in Nat : b = x * l /\ m = z * l
    BY <1>1 DEF LinkOf, Forward
  <2>2. z # 0
    BY <1>2, <2>1
  <2>3. z - 1 \in Nat
    BY <2>2
  <2>4. m - l = (z - 1) * l
    BY <2>1, <2>3
  <2> QED
    BY <1>1, <1>2, <2>1, <2>3, <2>4
<1>4. C2.buf + C2.net + S2.got = C.buf + C.net + S.got
  BY <1>1, <1>2
<1>5. ClientDevices(i, p, c, k, C2)
  BY DEF LinkOf, ClientDevices, Fields
<1>6. ServerDevices(i, k, S2)
  BY DEF LinkOf, ServerDevices, Fields, HasListener
<1>7. Backward(i, k, C2, S2)
  BY DEF Backward
<1>8. Closing(i, c, k, y, C2, S2)
  BY DEF Closing, Fields, Total
<1> QED
  BY <1>3, <1>4, <1>5, <1>6, <1>7, <1>8, LinkMoves

\* The client sees the end of file: the server was closed after it wrote everything.
LEMMA LinkClientEof ==
  ASSUME NEW i \in Instances, NEW p \in Nat, NEW c \in 1 .. i.clients, NEW t, NEW y,
         NEW C \in EndType, NEW S \in EndType, LinkOf(i, p, c, "accepted", t, y, C, S),
         Emptied(S), i.program # "socket", C.in = "Active",
         S.net = 0, S.out \in {"None", "Closed"}, NEW C2 \in EndType,
         Fields(C2, "Closed", C.out, C.buf, C.net, C.got)
  PROVE  LinkOf(i, p, c, "accepted", t, y, C2, S)
<1>1. i.program \in {"listen_socket", "connect"}
  BY InstanceFacts DEF LinkOf, ClientDevices, Programs
<1>2. ClientDevices(i, p, c, "accepted", C2)
  BY <1>1 DEF LinkOf, ClientDevices, Fields
<1>3. Backward(i, "accepted", C2, S) /\ ServerDevices(i, "accepted", S)
  BY DEF LinkOf, Backward, Fields
<1>4. Closing(i, c, "accepted", y, C2, S)
  <2>1. i.program = "listen_socket" => C.got = i.lines * i.len
    <3>1. SUFFICES ASSUME i.program = "listen_socket" PROVE C.got = i.lines * i.len
      OBVIOUS
    <3>2. S.buf = 0
      BY <3>1 DEF LinkOf, ServerDevices, Emptied
    <3>3. S.buf + S.net + C.got = i.lines * i.len
      BY <3>1 DEF LinkOf, Backward
    <3>4. C.got \in Nat
      BY EndFacts
    <3> QED
      BY <3>2, <3>3, <3>4
  <2> QED
    BY <1>1, <2>1 DEF LinkOf, Closing, Fields
<1>5. C2.buf = C.buf /\ C2.net = C.net
  BY DEF Fields
<1>6. C2.buf + C2.net + S.got = C.buf + C.net + S.got
  BY <1>5
<1>7. i.program = "connect" => C2.buf = 0 /\ C2.net = 0
  BY <1>5 DEF LinkOf, Forward
<1> QED
  BY <1>1, <1>2, <1>3, <1>4, <1>6, <1>7, LinkMoves

\* The server sees the end of file: the client was closed after it was flushed.
LEMMA LinkServerEof ==
  ASSUME NEW i \in Instances, NEW p \in Nat, NEW c \in 1 .. i.clients, NEW t, NEW y,
         NEW C \in EndType, NEW S \in EndType, LinkOf(i, p, c, "accepted", t, y, C, S),
         Emptied(C), i.program # "filedescriptor", S.in = "Active",
         C.net = 0, C.out \in {"None", "Closed"}, NEW S2 \in EndType,
         Fields(S2, "Closed", S.out, S.buf, S.net, S.got)
  PROVE  LinkOf(i, p, c, "accepted", t, y, C, S2)
<1>1. i.program # "socket"
  BY DEF LinkOf, ServerDevices
<1>2. ServerDevices(i, "accepted", S2)
  BY <1>1 DEF LinkOf, ServerDevices, Fields
<1>3. Backward(i, "accepted", C, S2) /\ ClientDevices(i, p, c, "accepted", C)
  BY <1>1 DEF LinkOf, Backward, Fields
<1>4. ASSUME i.program # "connect", c \notin y
      PROVE  S.got = Total(i)
  <2>1. HasOutput(i.program)
    BY <1>1, <1>4, InstanceFacts DEF HasOutput, Programs
  <2>2. C.out = "Closed" /\ C.buf = 0
    BY <2>1 DEF LinkOf, ClientDevices, Emptied
  <2>3. p >= FlushAt(i, c)
    BY <2>1, <2>2 DEF LinkOf, ClientDevices
  <2>4. S.got \in Nat
    BY EndFacts
  <2>5. Written(i, p, c, S.got)
    BY <1>4, <2>2, <2>4 DEF LinkOf, Forward
  <2> QED
    BY <2>1, <2>3, <2>4, <2>5, WrittenBound
<1>5. Closing(i, c, "accepted", y, C, S2)
  BY <1>1, <1>4 DEF LinkOf, Closing, Fields
<1>6. C.buf + C.net + S2.got = C.buf + C.net + S.got
  BY DEF Fields
<1>7. i.program = "connect" => C.buf = 0 /\ C.net = 0
  BY DEF LinkOf, Forward
<1> QED
  BY <1>2, <1>3, <1>5, <1>6, <1>7, LinkMoves

-----------------------------------------------------------------------------
(* The connection at the end of the program, and at the start.             *)

LEMMA MainIsScript ==
  ASSUME NEW i \in Instances
  PROVE  Main(i) \in Seq(Ops(i)) /\ Len(Main(i)) \in Nat
<1>1. PICK n \in Nat, l \in Nat, x \in Nat : n = i.clients /\ l = i.lines /\ x = n * l
  BY InstanceFacts
<1>2. Main(i) \in Seq(Ops(i))
  BY <1>1, ListenMain, SocketMain, OtherMains
<1> QED
  BY <1>2

LEMMA AllExecuted ==
  ASSUME NEW i \in Instances, NEW c \in 1 .. i.clients
  PROVE  /\ i.program \notin {"pipe", "filedescriptor"} => ConnectAt(i, c) <= Len(Main(i))
         /\ HasOutput(i.program) => FlushAt(i, c) <= Len(Main(i))
<1>1. PICK n \in Nat, l \in Nat : n = i.clients /\ l = i.lines
  BY InstanceFacts
<1>2. PICK x \in Nat : x = n * l
  OBVIOUS
<1>3. c \in 1 .. n
  BY <1>1
<1>4. CASE i.program = "listen_socket"
  <2>1. Len(Main(i)) = 4 * n + 1
    BY <1>1, <1>4, ListenMain
  <2>2. ConnectAt(i, c) = c /\ FlushAt(i, c) = 2 * n + 2 * c
    BY <1>1, <1>4 DEF ConnectAt, FlushAt
  <2> QED
    BY <1>3, <2>1, <2>2
<1>5. CASE i.program = "socket"
  <2>1. Len(Main(i)) = n + x + n + 1
    BY <1>1, <1>2, <1>5, SocketMain
  <2>2. ConnectAt(i, c) = c /\ FlushAt(i, c) = n + x + c
    BY <1>1, <1>2, <1>5 DEF ConnectAt, FlushAt
  <2> QED
    BY <1>3, <2>1, <2>2
<1>6. CASE i.program \in {"connect", "unix_socket", "pipe", "filedescriptor"}
  <2>1. c = 1
    BY <1>6, InstanceFacts
  <2> QED
    BY <1>6, <2>1, OtherMains DEF ConnectAt, FlushAt, HasOutput
<1> QED
  BY <1>4, <1>5, <1>6, InstanceFacts DEF Programs

\* All that EverythingExchanged says of a connection that was accepted, when main() has
\* executed all statements and no device is active.
Exchanged(i, c, C, S) ==
  /\ C.buf = 0 /\ S.buf = 0
  /\ i.program # "socket" => C.net = 0
  /\ i.program # "filedescriptor" => S.net = 0
  /\ i.program = "listen_socket" =>
       /\ C.in = "Closed" => C.got = i.lines * i.len
       /\ S.in = "Closed" => S.got = 2 * i.burst
  /\ i.program \in {"unix_socket", "pipe"} =>
       /\ C.in # "Closed"
       /\ S.in = "Closed" => S.got = i.len
  /\ i.program = "socket" /\ C.in = "Closed" => C.got = i.lines * i.len
  /\ i.program = "filedescriptor" /\ S.in = "Closed" => S.got = i.lines * i.len

LEMMA LinkFinal ==
  ASSUME NEW i \in Instances, NEW p \in Nat, p = Len(Main(i)), NEW c \in 1 .. i.clients,
         NEW t, NEW y, NEW C \in EndType, NEW S \in EndType, Emptied(C), Emptied(S),
         LinkOf(i, p, c, "accepted", t, y, C, S), c \notin y,
         ~IsActive(C.in), ~IsActive(C.out), ~IsActive(S.in), ~IsActive(S.out)
  PROVE  Exchanged(i, c, C, S)
<1>1. PICK cb \in Nat, cn \in Nat, cg \in Nat, sb \in Nat, sn \in Nat, sg \in Nat :
        cb = C.buf /\ cn = C.net /\ cg = C.got /\ sb = S.buf /\ sn = S.net /\ sg = S.got
  BY EndFacts
<1>2. PICK w \in Nat : w = cb + cn + sg /\ Written(i, p, c, w)
  BY <1>1 DEF LinkOf, Forward
<1>3. w <= Total(i) /\ Total(i) \in Nat
  BY <1>2, WrittenBound
<1>4. HasOutput(i.program) => C.out = "Closed" /\ C.buf = 0
  <2>1. HasOutput(i.program) => p >= FlushAt(i, c)
    <3>1. FlushAt(i, c) \in Nat
      BY PositionFacts
    <3> QED
      BY <3>1, AllExecuted
  <2> QED
    BY <2>1 DEF LinkOf, ClientDevices, IsActive, Emptied
<1>5. i.program \notin {"socket", "connect"} => S.in = "Closed" /\ sg = Total(i)
  BY <1>1 DEF LinkOf, ServerDevices, IsActive, Closing
<1>6. i.program \notin {"socket", "connect"} => cb = 0 /\ cn = 0
  BY <1>2, <1>3, <1>5
<1>7. CASE i.program = "listen_socket"
  <2>1. C.in = "Closed" /\ cg = i.lines * i.len
    BY <1>1, <1>7 DEF LinkOf, ClientDevices, Closing, IsActive
  <2>2. sb + sn + cg = cg
    BY <1>1, <1>7, <2>1 DEF LinkOf, Backward
  <2>3. sb = 0 /\ sn = 0
    BY <2>2
  <2> QED
    BY <1>1, <1>5, <1>6, <1>7, <2>1, <2>3 DEF Exchanged, Total
<1>8. CASE i.program \in {"unix_socket", "pipe"}
  BY <1>1, <1>5, <1>6, <1>8 DEF Exchanged, Total, LinkOf, ServerDevices, ClientDevices
<1>9. CASE i.program = "connect"
  BY <1>9 DEF Exchanged, LinkOf, ServerDevices, Forward
<1>10. CASE i.program = "filedescriptor"
  BY <1>1, <1>5, <1>6, <1>10 DEF Exchanged, Total, LinkOf, ServerDevices, IsActive
<1>11. CASE i.program = "socket"
  <2>1. C.in = "Closed" /\ cg = i.lines * i.len
    BY <1>1, <1>11 DEF LinkOf, ClientDevices, Closing, IsActive
  <2>2. sg <= i.lines /\ i.lines \in Nat /\ i.len \in Nat
    <3>1. Total(i) = i.lines
      BY <1>11 DEF Total
    <3> QED
      BY <1>2, <1>3, <3>1, InstanceFacts
  <2>3. PICK x \in Nat, z \in Nat : x = i.len * sg /\ z = i.len * i.lines /\ x <= z
    BY <2>2, MultMono
  <2>4. i.lines * i.len = z
    BY <2>2, <2>3
  <2>5. sn + cg = x
    BY <1>1, <1>11, <2>3 DEF LinkOf, Backward
  <2>6. sn = 0
    BY <2>1, <2>3, <2>4, <2>5
  <2> QED
    BY <1>1, <1>4, <1>11, <2>1, <2>6 DEF Exchanged, LinkOf, ServerDevices, HasOutput
<1> QED
  BY <1>7, <1>8, <1>9, <1>10, <1>11, InstanceFacts DEF Programs

LEMMA LinkInitially ==
  ASSUME NEW i \in Instances, NEW c \in 1 .. i.clients, NEW k, NEW t,
         NEW C \in EndType, NEW S \in EndType, C = Client_constructed(i), S = Server_constructed(i),
         k = IF i.program \in {"pipe", "filedescriptor"} THEN "accepted" ELSE "none",
         c \in t => i.program \in {"pipe", "filedescriptor"}
  PROVE  LinkOf(i, 0, c, k, t, {}, C, S)
<1>1. PICK n \in Nat \ {0}, l \in Nat, m \in Nat, b \in Nat :
        n = i.clients /\ l = i.lines /\ m = i.len /\ b = i.burst
  BY InstanceFacts
<1>2. c \in 1 .. n /\ c \in Nat /\ l * m \in Nat
  BY <1>1
<1>3. /\ i.program \in {"listen_socket", "socket"} => C = End("Removed", "Removed", 0)
      /\ i.program = "connect" => C = End("Removed", "None", 0)
      /\ i.program \in {"unix_socket", "pipe"} => C = End("None", "Removed", 0)
      /\ i.program = "filedescriptor" => C = End("None", "None", l * m)
  BY <1>1 DEF Client_constructed, BurstSocket, Socket_MySocket, Connect_MySocket, OutputOnly, Typed
<1>4. /\ HasListener(i.program) => S = End("Removed", "Removed", 0)
      /\ i.program = "pipe" => S = End("Active", "None", 0)
      /\ i.program = "filedescriptor" => S = End("Active", "Active", 1)
      /\ i.program = "socket" => S = End("None", "None", 0)
  BY DEF Server_constructed, TestDevices, HasListener, Start
<1>5. Connecting(i, 0, c, k, t)
  BY <1>2, InstanceFacts DEF Connecting, ConnectAt, Programs
<1>6. ClientDevices(i, 0, c, k, C)
  <2>1. HasOutput(i.program) => FlushAt(i, c) > 0
    <3>1. n * l \in Nat
      BY <1>1
    <3> QED
      BY <1>1, <1>2, <3>1 DEF FlushAt, HasOutput
  <2>2. FlushAt(i, c) \in Nat
    BY PositionFacts
  <2> QED
    BY <1>3, <2>1, <2>2, InstanceFacts DEF ClientDevices, End, HasOutput, Programs
<1>7. ServerDevices(i, k, S)
  BY <1>4, InstanceFacts DEF ServerDevices, End, HasListener, Programs
<1>8. Forward(i, 0, c, k, {}, C, S)
  <2>1. CASE i.program = "filedescriptor"
    <3>1. C.buf = l * m /\ C.net = 0 /\ S.got = 0
      BY <1>3, <1>4, <2>1 DEF End
    <3>2. C.buf + C.net + S.got = l * m
      BY <1>2, <3>1
    <3>3. Written(i, 0, c, l * m)
      BY <1>1, <2>1 DEF Written
    <3>4. 0 = 0 * m
      OBVIOUS
    <3> QED
      BY <1>1, <2>1, <3>1, <3>2, <3>3, <3>4 DEF Forward
  <2>2. CASE i.program # "filedescriptor"
    <3>1. C.buf = 0 /\ C.net = 0 /\ S.got = 0
      BY <1>3, <1>4, <2>2, InstanceFacts DEF End, HasListener, Programs
    <3>2. Written(i, 0, c, 0)
      <4>1. CASE i.program = "listen_socket"
        BY <1>1, <1>2, <4>1 DEF Written
      <4>2. CASE i.program = "socket"
        <5>1. n * 0 = 0
          OBVIOUS
        <5>2. n * 0 + c - n <= 0 /\ 0 < n * 0 + c
          BY <1>2, <5>1
        <5>3. 0 <= n
          OBVIOUS
        <5> QED
          BY <1>1, <4>2, <5>2, <5>3 DEF Written
      <4>3. CASE i.program \in {"unix_socket", "pipe"}
        <5>1. Written(i, 0, c, 0) <=> 0 = IF 0 >= 1 THEN m ELSE 0
          BY <1>1, <4>3 DEF Written
        <5> QED
          BY <5>1
      <4>4. CASE i.program = "connect"
        BY <4>4 DEF Written
      <4> QED
        BY <2>2, <4>1, <4>2, <4>3, <4>4, InstanceFacts DEF Programs
    <3> QED
      BY <2>2, <3>1, <3>2 DEF Forward
  <2> QED
    BY <2>1, <2>2
<1>9. Backward(i, k, C, S)
  <2>1. CASE i.program = "listen_socket"
    BY <1>3, <2>1 DEF Backward, End
  <2>2. CASE i.program = "socket"
    BY <1>1, <1>3, <1>4, <2>2 DEF Backward, End
  <2> QED
    BY <2>1, <2>2 DEF Backward
<1>10. Closing(i, c, k, {}, C, S)
  BY <1>4 DEF Closing, End
<1> QED
  BY <1>5, <1>6, <1>7, <1>8, <1>9, <1>10 DEF LinkOf

-----------------------------------------------------------------------------
(* The devices of the program.                                             *)

SideOK == /\ side \in [Clients -> [Ends -> EndType]]
          /\ \A c \in Clients, e \in Ends : Emptied(side[c][e])

\* Only client c changes: its ends become C2 and S2.
OneSide(c, C2, S2) ==
  /\ side' \in [Clients -> [Ends -> EndType]]
  /\ side'[c]["client"] = C2 /\ side'[c]["server"] = S2
  /\ \A d \in Clients \ {c} : side'[d] = side[d]

LEMMA TypeIsSideOK ==
  ASSUME TypeOK
  PROVE  SideOK
BY DEF TypeOK, SideOK, EndType, Emptied

LEMMA OneClient ==
  ASSUME SideOK, NEW c \in Clients, NEW C2 \in EndType,
         side' = [side EXCEPT ![c]["client"] = C2]
  PROVE  OneSide(c, C2, side[c]["server"])
<1>1. "client" \in Ends /\ "server" \in Ends /\ "client" # "server"
  BY DEF Ends
<1> QED
  BY <1>1 DEF SideOK, OneSide

LEMMA OneServer ==
  ASSUME SideOK, NEW c \in Clients, NEW S2 \in EndType,
         side' = [side EXCEPT ![c]["server"] = S2]
  PROVE  OneSide(c, side[c]["client"], S2)
<1>1. "client" \in Ends /\ "server" \in Ends /\ "client" # "server"
  BY DEF Ends
<1> QED
  BY <1>1 DEF SideOK, OneSide

LEMMA TwoEnds ==
  ASSUME SideOK, NEW c \in Clients, NEW C2 \in EndType, NEW S2 \in EndType,
         side' = [side EXCEPT ![c]["client"] = C2, ![c]["server"] = S2]
  PROVE  OneSide(c, C2, S2)
<1>1. "client" \in Ends /\ "server" \in Ends /\ "client" # "server"
  BY DEF Ends
<1> QED
  BY <1>1 DEF SideOK, OneSide

\* The types after a step that changes one client.
LEMMA OneSideOK ==
  ASSUME SideOK, inst' = inst, NEW c \in Clients, NEW C2 \in EndType, NEW S2 \in EndType,
         OneSide(c, C2, S2), Emptied(C2), Emptied(S2)
  PROVE  SideOK'
<1>1. Clients' = Clients
  BY DEF Clients
<1>2. \A d \in Clients, e \in Ends : Emptied(side'[d][e])
  <2>1. \A e \in Ends : e = "client" \/ e = "server"
    BY DEF Ends
  <2> QED
    BY <2>1 DEF OneSide, SideOK
<1> QED
  BY <1>1, <1>2 DEF OneSide, SideOK

-----------------------------------------------------------------------------
(* The connections after a step.                                           *)

LEMMA PosIsNat ==
  ASSUME TypeOK, ScriptInv
  PROVE  Pos \in Nat /\ Len(script) \in Nat /\ inst \in Instances
<1>1. inst \in Instances /\ Len(script) \in Nat
  BY DEF TypeOK
<1>2. Len(Main(inst)) \in Nat
  BY <1>1, MainIsScript
<1> QED
  BY <1>1, <1>2 DEF ScriptInv, Pos

\* main() executes a statement.
LEMMA MainDoes ==
  ASSUME TypeOK, ScriptInv, NEW op, NEW c, Main_does(op, c), inst' = inst
  PROVE  /\ Statement(inst, Pos, op, c) /\ Pos' = Pos + 1 /\ ScriptInv'
         /\ script' \in Seq(Ops(inst)) /\ script # <<>>
<1> PICK M : M = Main(inst)
  OBVIOUS
<1>1. PICK n \in Nat, m \in Nat : n = Len(script) /\ M = Main(inst) /\ m = Len(M)
  BY MainIsScript DEF TypeOK
<1>2. script \in Seq(Ops(inst)) /\ script # <<>> /\ script' = Tail(script) /\ script[1] = Op(op, c)
  BY DEF TypeOK, Ops, Main_does
<1>3. /\ n >= 1 /\ Len(script') = n - 1 /\ script' \in Seq(Ops(inst))
      /\ \A k \in 1 .. n - 1 : script'[k] = script[k + 1]
  <2>1. n >= 1
    BY <1>1, <1>2
  <2>2. /\ Len(Tail(script)) = n - 1 /\ Tail(script) \in Seq(Ops(inst))
        /\ \A k \in 1 .. n - 1 : Tail(script)[k] = script[k + 1]
    BY <1>1, <1>2, <2>1
  <2> QED
    BY <1>2, <2>1, <2>2
<1>4. n <= m /\ \A k \in 1 .. n : script[k] = M[(m - n) + k]
  BY <1>1 DEF ScriptInv, Pos
<1>5. Pos = m - n /\ Pos' = m - (n - 1)
  BY <1>1, <1>3 DEF Pos
<1>6. Statement(inst, Pos, op, c)
  <2>1. script[1] = M[(m - n) + 1]
    BY <1>3, <1>4
  <2> QED
    BY <1>1, <1>2, <1>3, <1>4, <1>5, <2>1 DEF Statement
<1>7. ScriptInv'
  <2>1. \A k \in 1 .. n - 1 : script'[k] = M[(m - (n - 1)) + k]
    <3>1. TAKE k \in 1 .. n - 1
    <3>2. k + 1 \in 1 .. n /\ (m - n) + (k + 1) = (m - (n - 1)) + k
      OBVIOUS
    <3>3. script'[k] = script[k + 1] /\ script[k + 1] = M[(m - n) + (k + 1)]
      BY <1>3, <1>4, <3>2
    <3> QED
      BY <3>2, <3>3
  <2>2. Main(inst)' = M
    BY <1>1
  <2> QED
    BY <1>1, <1>3, <1>4, <1>5, <2>1, <2>2 DEF ScriptInv
<1> QED
  BY <1>2, <1>3, <1>5, <1>6, <1>7

\* The other connections keep their state when main() works on client c.
LEMMA LinksAfterMain ==
  ASSUME TypeOK, ScriptInv, \A d \in Clients : Link(d),
         NEW op, NEW c, Statement(inst, Pos, op, c), Pos' = Pos + 1, inst' = inst,
         \A d \in Clients \ {c} :
           /\ side'[d] = side[d] /\ conn'[d] = conn[d]
           /\ (d \in told' <=> d \in told) /\ (d \in early' <=> d \in early),
         c \in Clients =>
           LinkOf(inst, Pos + 1, c, conn'[c], told', early', side'[c]["client"], side'[c]["server"])
  PROVE  (\A d \in Clients : Link(d))'
<1>1. Pos \in Nat /\ inst \in Instances
  BY PosIsNat
<1>2. Clients' = Clients
  BY DEF Clients
<1>3. ASSUME NEW d \in Clients
      PROVE  LinkOf(inst, Pos + 1, d, conn'[d], told', early', side'[d]["client"], side'[d]["server"])
  <2>1. CASE d = c
    BY <2>1
  <2>2. CASE d # c
    <3>1. PICK C \in EndType, S \in EndType : C = side[d]["client"] /\ S = side[d]["server"]
      BY TypeIsSideOK DEF SideOK, Ends
    <3>2. LinkOf(inst, Pos, d, conn[d], told, early, C, S)
      BY <3>1 DEF Link
    <3>3. LinkOf(inst, Pos + 1, d, conn[d], told, early, C, S)
      BY <1>1, <2>2, <3>2, LinkPasses DEF Clients
    <3>4. LinkOf(inst, Pos + 1, d, conn[d], told', early', C, S)
      BY <2>2, <3>3, LinkSame
    <3> QED
      BY <2>2, <3>1, <3>4
  <2> QED
    BY <2>1, <2>2
<1> QED
  BY <1>2, <1>3 DEF Link

\* A step of the event loop, the timer or the kernel changes connection c; others may be
\* reset because the listen socket is closed.
LEMMA LinksAfter ==
  ASSUME TypeOK, ScriptInv, \A d \in Clients : Link(d),
         NEW c, UNCHANGED <<inst, script, early>>,
         \A d \in Clients \ {c} :
           /\ side'[d] = side[d] /\ (d \in told' <=> d \in told)
           /\ conn'[d] = conn[d] \/ (conn[d] = "backlog" /\ conn'[d] = "reset"),
         c \in Clients =>
           LinkOf(inst, Pos, c, conn'[c], told', early, side'[c]["client"], side'[c]["server"])
  PROVE  (\A d \in Clients : Link(d))' /\ ScriptInv'
<1>1. Pos \in Nat /\ inst \in Instances
  BY PosIsNat
<1>2. Clients' = Clients /\ Pos' = Pos
  BY DEF Clients, Pos
<1>3. ASSUME NEW d \in Clients
      PROVE  LinkOf(inst, Pos, d, conn'[d], told', early, side'[d]["client"], side'[d]["server"])
  <2>1. CASE d = c
    BY <2>1
  <2>2. CASE d # c
    <3>1. PICK C \in EndType, S \in EndType : C = side[d]["client"] /\ S = side[d]["server"]
      BY TypeIsSideOK DEF SideOK, Ends
    <3>2. LinkOf(inst, Pos, d, conn[d], told, early, C, S)
      BY <3>1 DEF Link
    <3>3. LinkOf(inst, Pos, d, conn'[d], told, early, C, S)
      <4>1. CASE conn'[d] = conn[d]
        BY <3>2, <4>1
      <4>2. CASE conn[d] = "backlog" /\ conn'[d] = "reset"
        BY <1>1, <3>2, <4>2, LinkResolved DEF Clients
      <4> QED
        BY <2>2, <4>1, <4>2
    <3>4. LinkOf(inst, Pos, d, conn'[d], told', early, C, S)
      BY <2>2, <3>3, LinkSame
    <3> QED
      BY <2>2, <3>1, <3>4
  <2> QED
    BY <2>1, <2>2
<1>4. ScriptInv'
  BY <1>2 DEF ScriptInv
<1> QED
  BY <1>2, <1>3, <1>4 DEF Link

-----------------------------------------------------------------------------
(* The steps of main().                                                    *)

LEMMA EndsOf ==
  ASSUME TypeOK, NEW c \in Clients
  PROVE  /\ side[c]["client"] \in EndType /\ side[c]["server"] \in EndType
         /\ Emptied(side[c]["client"]) /\ Emptied(side[c]["server"])
BY TypeIsSideOK DEF SideOK, Ends

\* The types that side, conn and told have in the next state.
LEMMA TypeAfter ==
  ASSUME TypeOK, inst' = inst, SideOK', script' \in Seq(Ops(inst)),
         listening' \in {"None", "Active", "Closed"},
         timer' \in Seq({"close", "release_callback", "bump_terminate", "dangling"}),
         conn' \in [Clients -> {"none", "connecting", "backlog", "accepted", "reset"}],
         told' \subseteq Clients, early' \subseteq Clients,
         loop' \in {"blocked", "awake", "ended"}
  PROVE  TypeOK'
<1>1. Clients' = Clients
  BY DEF Clients
<1>2. inst' \in Instances
  BY DEF TypeOK
<1> QED
  BY <1>1, <1>2 DEF TypeOK, SideOK, EndType, Emptied, Ops

LEMMA StepJoin ==
  ASSUME IndInv, Main_join
  PROVE  IndInv'
<1>1. TypeOK /\ ScriptInv /\ inst' = inst /\ Main_does("join", 0)
  BY DEF IndInv, Main_join
<1>2. /\ Statement(inst, Pos, "join", 0) /\ Pos' = Pos + 1 /\ ScriptInv'
      /\ script' \in Seq(Ops(inst))
  BY <1>1, MainDoes
<1>3. SideOK'
  BY <1>1, TypeIsSideOK DEF Main_join, SideOK, Clients
<1>4. TypeOK'
  <2>1. /\ listening' = listening /\ timer' = timer /\ conn' = conn /\ told' = told
        /\ early' = early /\ loop' = "awake"
    BY DEF Main_join
  <2>2. /\ listening \in {"None", "Active", "Closed"}
        /\ timer \in Seq({"close", "release_callback", "bump_terminate", "dangling"})
        /\ conn \in [Clients -> {"none", "connecting", "backlog", "accepted", "reset"}]
        /\ told \subseteq Clients /\ early \subseteq Clients
    BY <1>1 DEF TypeOK
  <2> QED
    BY <1>1, <1>2, <1>3, <2>1, <2>2, TypeAfter
<1>5. (\A d \in Clients : Link(d))'
  <2>1. 0 \notin Clients
    BY DEF Clients
  <2>2. \A d \in Clients : Link(d)
    BY DEF IndInv
  <2> QED
    BY <1>1, <1>2, <2>1, <2>2, LinksAfterMain DEF Main_join
<1>6. TimerInv' /\ ListenInv'
  BY DEF IndInv, Main_join, TimerInv, ListenInv, Clients, program
<1>7. Ended'
  BY DEF Main_join, Ended
<1> QED
  BY <1>2, <1>4, <1>5, <1>6, <1>7 DEF IndInv

LEMMA DeviceFacts ==
  ASSUME NEW s \in DeviceState
  PROVE  /\ Start(s) \in DeviceState /\ Stop(s) \in DeviceState
         /\ Flush(s) \in DeviceState /\ Close(s) \in DeviceState \ {"Flushing"}
         /\ s # "Flushing" => Start(s) # "Flushing"
         /\ Start(s) = "Closed" => s = "Closed"
BY DEF DeviceState, Start, Stop, Flush, Close

\* What is left to show after a statement of main() that works on client c.
LEMMA AfterMain ==
  ASSUME IndInv, NEW c \in Clients, NEW op, Main_does(op, c), inst' = inst,
         NEW C2 \in EndType, NEW S2 \in EndType, OneSide(c, C2, S2), Emptied(C2), Emptied(S2),
         conn' \in [Clients -> {"none", "connecting", "backlog", "accepted", "reset"}],
         told' \subseteq Clients, early' \subseteq Clients,
         \A d \in Clients \ {c} : /\ conn'[d] = conn[d] /\ (d \in told' <=> d \in told)
                                  /\ (d \in early' <=> d \in early),
         UNCHANGED <<listening, timer, loop>>,
         LinkOf(inst, Pos + 1, c, conn'[c], told', early', C2, S2),
         conn'[c] = "backlog" \/ (program = "unix_socket" /\ conn'[c] = "none")
           => listening = "Active"
  PROVE  IndInv'
<1>1. TypeOK /\ ScriptInv /\ inst \in Instances /\ c \in 1 .. inst.clients
  BY DEF IndInv, TypeOK, Clients
<1>2. /\ Statement(inst, Pos, op, c) /\ Pos' = Pos + 1 /\ ScriptInv'
      /\ script' \in Seq(Ops(inst)) /\ script # <<>>
  BY <1>1, MainDoes
<1>3. SideOK'
  BY <1>1, OneSideOK, TypeIsSideOK
<1>4. TypeOK'
  <2>1. /\ listening \in {"None", "Active", "Closed"}
        /\ timer \in Seq({"close", "release_callback", "bump_terminate", "dangling"})
        /\ loop \in {"blocked", "awake", "ended"}
    BY <1>1 DEF TypeOK
  <2> QED
    BY <1>1, <1>2, <1>3, <2>1, TypeAfter
<1>5. (\A d \in Clients : Link(d))'
  <2>1. \A d \in Clients : Link(d)
    BY DEF IndInv
  <2>2. \A d \in Clients \ {c} :
           /\ side'[d] = side[d] /\ conn'[d] = conn[d]
           /\ (d \in told' <=> d \in told) /\ (d \in early' <=> d \in early)
    BY DEF OneSide
  <2>3. LinkOf(inst, Pos + 1, c, conn'[c], told', early', side'[c]["client"], side'[c]["server"])
    BY DEF OneSide
  <2> QED
    BY <1>1, <1>2, <2>1, <2>2, <2>3, LinksAfterMain
<1>6. TimerInv'
  BY DEF IndInv, TimerInv, program
<1>7. ListenInv'
  <2>1. Clients' = Clients /\ program' = program
    BY DEF Clients, program
  <2> QED
    BY <2>1 DEF IndInv, ListenInv
<1>8. Ended'
  BY <1>2 DEF IndInv, Ended
<1> QED
  BY <1>2, <1>4, <1>5, <1>6, <1>7, <1>8 DEF IndInv

\* And before it.
LEMMA BeforeMain ==
  ASSUME IndInv, NEW c \in Clients, NEW op, Main_does(op, c), inst' = inst
  PROVE  /\ TypeOK /\ SideOK /\ inst \in Instances /\ c \in 1 .. inst.clients /\ Pos \in Nat
         /\ Statement(inst, Pos, op, c)
         /\ LinkOf(inst, Pos, c, conn[c], told, early, side[c]["client"], side[c]["server"])
<1>1. TypeOK /\ ScriptInv /\ inst \in Instances /\ c \in 1 .. inst.clients /\ Link(c)
  BY DEF IndInv, TypeOK, Clients
<1>2. Statement(inst, Pos, op, c)
  BY <1>1, MainDoes
<1> QED
  BY <1>1, <1>2, PosIsNat, TypeIsSideOK DEF Link

LEMMA StepConnect ==
  ASSUME IndInv, NEW c \in Clients, Main_connect(c)
  PROVE  IndInv'
<1>1. /\ Main_does("connect", c)
      /\ inst' = inst /\ early' = early /\ UNCHANGED <<listening, timer, loop>>
  BY DEF Main_connect
<1>2. PICK C \in EndType, S \in EndType :
        C = side[c]["client"] /\ S = side[c]["server"] /\ Emptied(C) /\ Emptied(S)
  BY EndsOf DEF IndInv
<1>3. /\ TypeOK /\ SideOK /\ inst \in Instances /\ c \in 1 .. inst.clients /\ Pos \in Nat
      /\ Statement(inst, Pos, "connect", c)
      /\ LinkOf(inst, Pos, c, conn[c], told, early, C, S)
  BY <1>1, <1>2, BeforeMain
<1>4. PICK a \in DeviceState \ {"Flushing"}, b \in DeviceState :
        /\ a = Start(C.in) /\ b = IF program = "unix_socket" THEN Start(C.out) ELSE C.out
        /\ b = "Closed" => C.out = "Closed"
  BY DeviceFacts, EndFacts
<1> DEFINE C2 == [C EXCEPT !.in = a, !.out = b]
<1>5. C2 \in EndType /\ Emptied(C2) /\ Fields(C2, a, b, C.buf, C.net, C.got)
  BY <1>2, <1>4 DEF EndType, Emptied, Fields
<1>6. OneSide(c, C2, S)
  <2>1. side' = [side EXCEPT ![c]["client"].in = a, ![c]["client"].out = b]
    BY <1>2, <1>4 DEF Main_connect
  <2>2. side' = [side EXCEPT ![c]["client"] = C2]
    BY <1>2, <1>3, <2>1 DEF SideOK, Ends
  <2> HIDE DEF C2
  <2> QED
    BY <1>2, <1>3, <1>5, <2>2, OneClient
<1> HIDE DEF C2
<1>7. /\ conn'[c] = IF inst.program = "unix_socket" THEN "backlog" ELSE "connecting"
      /\ told' = IF inst.program = "unix_socket" THEN told \cup {c} ELSE told
      /\ \A d \in Clients \ {c} : conn'[d] = conn[d] /\ (d \in told' <=> d \in told)
      /\ conn' \in [Clients -> {"none", "connecting", "backlog", "accepted", "reset"}]
      /\ told' \subseteq Clients /\ early' \subseteq Clients
  BY <1>1, <1>3 DEF Main_connect, TypeOK, program
<1>8. /\ conn[c] = "none" /\ inst.program \notin {"pipe", "filedescriptor"}
      /\ LinkOf(inst, Pos + 1, c, conn'[c], told', early, C2, S)
  <2>1. PICK k2, t2 : k2 = conn'[c] /\ t2 = told'
    OBVIOUS
  <2>2. c \in t2 => c \in told \/ inst.program = "unix_socket"
    BY <1>7, <2>1
  <2>3. Fields(C2, Start(C.in), IF inst.program = "unix_socket" THEN Start(C.out) ELSE C.out,
               C.buf, C.net, C.got)
    BY <1>4, <1>5 DEF program
  <2>4. k2 = IF inst.program = "unix_socket" THEN "backlog" ELSE "connecting"
    BY <1>7, <2>1
  <2>5. /\ conn[c] = "none" /\ inst.program \notin {"pipe", "filedescriptor"}
        /\ LinkOf(inst, Pos + 1, c, k2, t2, early, C2, S)
    BY <1>3, <1>5, <2>2, <2>3, <2>4, LinkConnect
  <2> QED
    BY <2>1, <2>5
<1>9. conn'[c] = "backlog" \/ (program = "unix_socket" /\ conn'[c] = "none")
        => listening = "Active"
  BY <1>7, <1>8 DEF IndInv, ListenInv, program
<1> QED
  BY <1>1, <1>2, <1>5, <1>6, <1>7, <1>8, <1>9, AfterMain

LEMMA StepWrite ==
  ASSUME IndInv, NEW c \in Clients, NEW op \in Writes, Main_write(op, c, Bytes(inst, op))
  PROVE  IndInv'
<1>1. /\ Main_does(op, c) /\ inst' = inst /\ UNCHANGED <<listening, timer, loop>>
      /\ conn' = conn /\ told' = told /\ early' = early
  BY DEF Main_write
<1>2. PICK C \in EndType, S \in EndType :
        C = side[c]["client"] /\ S = side[c]["server"] /\ Emptied(C) /\ Emptied(S)
  BY EndsOf DEF IndInv
<1>3. /\ TypeOK /\ SideOK /\ inst \in Instances /\ c \in 1 .. inst.clients /\ Pos \in Nat
      /\ Statement(inst, Pos, op, c)
      /\ LinkOf(inst, Pos, c, conn[c], told, early, C, S)
  BY <1>1, <1>2, BeforeMain
<1>4. Bytes(inst, op) \in Nat
  BY <1>3, InstanceFacts DEF Bytes, Writes
<1>5. PICK out \in {C.out, Start(C.out)} :
        side' = [side EXCEPT ![c]["client"].out = out,
                             ![c]["client"].buf = IF out = "Closed" THEN @ ELSE @ + Bytes(inst, op)]
  BY <1>2 DEF Main_write
<1>6. out \in DeviceState /\ (out = "Closed" => C.out = "Closed") /\ C.buf \in Nat
  BY DeviceFacts, EndFacts
<1>7. PICK x \in Nat : x = IF out = "Closed" THEN C.buf ELSE C.buf + Bytes(inst, op)
  BY <1>4, <1>6
<1> DEFINE C2 == [C EXCEPT !.out = out, !.buf = x]
<1>8. C2 \in EndType /\ Emptied(C2) /\ Fields(C2, C.in, out, x, C.net, C.got)
  BY <1>2, <1>6, <1>7 DEF EndType, Emptied, Fields
<1>9. OneSide(c, C2, S)
  <2>1. side' = [side EXCEPT ![c]["client"].out = out, ![c]["client"].buf = x]
    BY <1>2, <1>3, <1>5, <1>7 DEF SideOK, Ends
  <2>2. side' = [side EXCEPT ![c]["client"] = C2]
    BY <1>2, <1>3, <2>1 DEF SideOK, Ends
  <2> HIDE DEF C2
  <2> QED
    BY <1>2, <1>3, <1>8, <2>2, OneClient
<1> HIDE DEF C2
<1>10. LinkOf(inst, Pos + 1, c, conn[c], told, early, C2, S)
  BY <1>3, <1>7, <1>8, LinkWrite
<1>11. conn[c] = "backlog" \/ (program = "unix_socket" /\ conn[c] = "none")
         => listening = "Active"
  BY DEF IndInv, ListenInv
<1>12. /\ conn \in [Clients -> {"none", "connecting", "backlog", "accepted", "reset"}]
       /\ told \subseteq Clients /\ early \subseteq Clients
  BY <1>3 DEF TypeOK
<1> QED
  BY <1>1, <1>2, <1>8, <1>9, <1>10, <1>11, <1>12, AfterMain

LEMMA StepFlush ==
  ASSUME IndInv, NEW c \in Clients, Main_flush(c)
  PROVE  IndInv'
<1>1. /\ Main_does("flush", c) /\ inst' = inst /\ UNCHANGED <<listening, timer, loop>>
      /\ conn' = conn /\ told' = told
  BY DEF Main_flush
<1>2. PICK C \in EndType, S \in EndType :
        C = side[c]["client"] /\ S = side[c]["server"] /\ Emptied(C) /\ Emptied(S)
  BY EndsOf DEF IndInv
<1>3. /\ TypeOK /\ SideOK /\ inst \in Instances /\ c \in 1 .. inst.clients /\ Pos \in Nat
      /\ Statement(inst, Pos, "flush", c)
      /\ LinkOf(inst, Pos, c, conn[c], told, early, C, S)
  BY <1>1, <1>2, BeforeMain
<1>4. PICK out \in DeviceState, x \in Nat :
        out = Flush(C.out) /\ x = IF out = "Closed" THEN 0 ELSE C.buf
  BY DeviceFacts, EndFacts
<1> DEFINE C2 == [C EXCEPT !.out = out, !.buf = x]
<1>5. C2 \in EndType /\ Emptied(C2) /\ Fields(C2, C.in, out, x, C.net, C.got)
  BY <1>2, <1>4 DEF EndType, Emptied, Fields
<1>6. OneSide(c, C2, S)
  <2>1. side' = [side EXCEPT ![c]["client"].out = out, ![c]["client"].buf = x]
    BY <1>2, <1>3, <1>4 DEF Main_flush, SideOK, Ends
  <2>2. side' = [side EXCEPT ![c]["client"] = C2]
    BY <1>2, <1>3, <2>1 DEF SideOK, Ends
  <2> HIDE DEF C2
  <2> QED
    BY <1>2, <1>3, <1>5, <2>2, OneClient
<1> HIDE DEF C2
<1>7. /\ Flush(C.out) = "Closed" /\ C.buf > 0 => c \in early'
      /\ c \in early => c \in early'
      /\ \A d \in Clients \ {c} : d \in early' <=> d \in early
      /\ early' \subseteq Clients
  BY <1>2, <1>3 DEF Main_flush, TypeOK
<1>8. LinkOf(inst, Pos + 1, c, conn[c], told, early', C2, S)
  <2>1. PICK y2 : y2 = early'
    OBVIOUS
  <2>2. /\ Flush(C.out) = "Closed" /\ C.buf > 0 => c \in y2
        /\ c \in early => c \in y2
    BY <1>7, <2>1
  <2>3. Fields(C2, C.in, Flush(C.out), IF Flush(C.out) = "Closed" THEN 0 ELSE C.buf, C.net, C.got)
    BY <1>4, <1>5
  <2>4. LinkOf(inst, Pos + 1, c, conn[c], told, y2, C2, S)
    BY <1>3, <1>5, <2>2, <2>3, LinkFlush
  <2> QED
    BY <2>1, <2>4
<1>9. conn[c] = "backlog" \/ (program = "unix_socket" /\ conn[c] = "none")
         => listening = "Active"
  BY DEF IndInv, ListenInv
<1>10. /\ conn \in [Clients -> {"none", "connecting", "backlog", "accepted", "reset"}]
       /\ told \subseteq Clients
  BY <1>3 DEF TypeOK
<1> QED
  BY <1>1, <1>2, <1>5, <1>6, <1>7, <1>8, <1>9, <1>10, AfterMain

LEMMA StepMain ==
  ASSUME IndInv, Main_step
  PROVE  IndInv'
<1>1. CASE Main_join
  BY <1>1, StepJoin
<1>2. ASSUME NEW c \in Clients,
             Main_connect(c) \/ Main_flush(c) \/ BurstSocket_write_burst(c)
               \/ Write_hello_world(c) \/ Write_request(c)
      PROVE  IndInv'
  <2>1. CASE Main_connect(c)
    BY <2>1, StepConnect
  <2>2. CASE Main_flush(c)
    BY <2>2, StepFlush
  <2>3. CASE BurstSocket_write_burst(c)
    <3>1. Bytes(inst, "write_burst") = inst.burst /\ "write_burst" \in Writes
      BY DEF Bytes, Writes
    <3>2. Main_write("write_burst", c, Bytes(inst, "write_burst"))
      BY <2>3, <3>1 DEF BurstSocket_write_burst
    <3> QED
      BY <3>1, <3>2, StepWrite
  <2>4. CASE Write_hello_world(c)
    <3>1. Bytes(inst, "write_line") = inst.len /\ "write_line" \in Writes
      BY DEF Bytes, Writes
    <3>2. Main_write("write_line", c, Bytes(inst, "write_line"))
      BY <2>4, <3>1 DEF Write_hello_world
    <3> QED
      BY <3>1, <3>2, StepWrite
  <2>5. CASE Write_request(c)
    <3>1. Bytes(inst, "write_request") = 1 /\ "write_request" \in Writes
      BY DEF Bytes, Writes
    <3>2. Main_write("write_request", c, Bytes(inst, "write_request"))
      BY <2>5, <3>1 DEF Write_request
    <3> QED
      BY <3>1, <3>2, StepWrite
  <2> QED
    BY <1>2, <2>1, <2>2, <2>3, <2>4, <2>5
<1> QED
  BY <1>1, <1>2 DEF Main_step

-----------------------------------------------------------------------------
(* The steps of the kernel, the server and the user, and of the timer.     *)

LEMMA BeforeStep ==
  ASSUME IndInv, NEW c \in Clients
  PROVE  /\ TypeOK /\ SideOK /\ ScriptInv /\ inst \in Instances /\ c \in 1 .. inst.clients
         /\ Pos \in Nat /\ \A d \in Clients : Link(d)
         /\ conn \in [Clients -> {"none", "connecting", "backlog", "accepted", "reset"}]
         /\ listening \in {"None", "Active", "Closed"}
         /\ timer \in Seq({"close", "release_callback", "bump_terminate", "dangling"})
         /\ told \subseteq Clients /\ early \subseteq Clients
         /\ loop \in {"blocked", "awake", "ended"} /\ script \in Seq(Ops(inst))
<1>1. TypeOK /\ ScriptInv /\ \A d \in Clients : Link(d)
  BY DEF IndInv
<1>2. Pos \in Nat /\ inst \in Instances
  BY <1>1, PosIsNat
<1> QED
  BY <1>1, <1>2, TypeIsSideOK DEF TypeOK, Ops, Clients

\* What is left to show after a step that is not of main(), on the connection of client c.
LEMMA AfterStep ==
  ASSUME IndInv, NEW c \in Clients, UNCHANGED <<inst, script, timer, early>>,
         NEW C2 \in EndType, NEW S2 \in EndType, OneSide(c, C2, S2), Emptied(C2), Emptied(S2),
         conn' \in [Clients -> {"none", "connecting", "backlog", "accepted", "reset"}],
         told' \subseteq Clients,
         \A d \in Clients \ {c} :
           /\ d \in told' <=> d \in told
           /\ conn'[d] = conn[d] \/ (conn[d] = "backlog" /\ conn'[d] = "reset"),
         LinkOf(inst, Pos, c, conn'[c], told', early, C2, S2),
         listening' \in {"None", "Active", "Closed"}, ListenInv',
         loop' \in {"blocked", "awake", "ended"}, Ended'
  PROVE  IndInv'
<1>1. TypeOK /\ SideOK /\ ScriptInv /\ inst \in Instances /\ (\A d \in Clients : Link(d))
      /\ timer \in Seq({"close", "release_callback", "bump_terminate", "dangling"})
      /\ early \subseteq Clients /\ script \in Seq(Ops(inst))
  BY BeforeStep
<1>2. SideOK'
  BY <1>1, OneSideOK
<1>3. TypeOK'
  BY <1>1, <1>2, TypeAfter
<1>4. (\A d \in Clients : Link(d))' /\ ScriptInv'
  <2>1. \A d \in Clients \ {c} :
          /\ side'[d] = side[d] /\ (d \in told' <=> d \in told)
          /\ conn'[d] = conn[d] \/ (conn[d] = "backlog" /\ conn'[d] = "reset")
    BY DEF OneSide
  <2>2. LinkOf(inst, Pos, c, conn'[c], told', early, side'[c]["client"], side'[c]["server"])
    BY DEF OneSide
  <2> QED
    BY <1>1, <2>1, <2>2, LinksAfter
<1>5. TimerInv'
  BY DEF IndInv, TimerInv, program
<1> QED
  BY <1>3, <1>4, <1>5 DEF IndInv

\* A step that keeps the connections.
LEMMA AfterTransfer ==
  ASSUME IndInv, NEW c \in Clients, UNCHANGED <<inst, script, timer, early, conn, listening>>,
         NEW C2 \in EndType, NEW S2 \in EndType, OneSide(c, C2, S2), Emptied(C2), Emptied(S2),
         told' \subseteq Clients, \A d \in Clients \ {c} : d \in told' <=> d \in told,
         LinkOf(inst, Pos, c, conn[c], told', early, C2, S2),
         loop' \in {"blocked", "awake", "ended"}, Ended'
  PROVE  IndInv'
<1>1. /\ conn \in [Clients -> {"none", "connecting", "backlog", "accepted", "reset"}]
      /\ listening \in {"None", "Active", "Closed"}
  BY BeforeStep
<1>2. ListenInv'
  <2>1. Clients' = Clients /\ program' = program
    BY DEF Clients, program
  <2> QED
    BY <2>1 DEF IndInv, ListenInv
<1> QED
  BY <1>1, <1>2, AfterStep

LEMMA StepKernel ==
  ASSUME IndInv, NEW c \in Clients, Kernel_connect(c)
  PROVE  IndInv'
<1>1. /\ UNCHANGED <<inst, script, timer, early>>
      /\ told' = told /\ side' = side /\ loop' = loop /\ listening' = listening
      /\ conn[c] = "connecting"
  BY DEF Kernel_connect
<1>2. PICK C \in EndType, S \in EndType :
        C = side[c]["client"] /\ S = side[c]["server"] /\ Emptied(C) /\ Emptied(S)
  BY EndsOf DEF IndInv
<1>3. /\ TypeOK /\ SideOK /\ inst \in Instances /\ c \in 1 .. inst.clients /\ Pos \in Nat
      /\ LinkOf(inst, Pos, c, conn[c], told, early, C, S)
      /\ conn \in [Clients -> {"none", "connecting", "backlog", "accepted", "reset"}]
      /\ listening \in {"None", "Active", "Closed"} /\ told \subseteq Clients
      /\ loop \in {"blocked", "awake", "ended"}
  BY <1>2, BeforeStep DEF Link
<1>4. OneSide(c, C, S)
  BY <1>1, <1>2, <1>3 DEF OneSide, SideOK
<1>5. /\ conn'[c] \in {"backlog", "reset"} \/ (inst.program = "socket" /\ conn'[c] = "accepted")
      /\ conn'[c] = "backlog" => listening = "Active"
      /\ \A d \in Clients \ {c} : conn'[d] = conn[d]
      /\ conn' \in [Clients -> {"none", "connecting", "backlog", "accepted", "reset"}]
  BY <1>3 DEF Kernel_connect, program
<1>6. LinkOf(inst, Pos, c, conn'[c], told, early, C, S)
  <2>1. PICK k2 : k2 = conn'[c]
    OBVIOUS
  <2>2. LinkOf(inst, Pos, c, k2, told, early, C, S)
    BY <1>1, <1>3, <1>5, <2>1, LinkResolved
  <2> QED
    BY <2>1, <2>2
<1>7. ListenInv'
  <2>1. Clients' = Clients /\ program' = program
    BY <1>1 DEF Clients, program
  <2>2. conn'[c] # "none"
    BY <1>5
  <2> QED
    BY <1>1, <1>5, <2>1, <2>2 DEF IndInv, ListenInv
<1>8. Ended'
  <2>1. loop # "ended"
    <3>1. c \notin told
      BY <1>1, <1>3 DEF LinkOf, Connecting
    <3> QED
      BY <1>1, <3>1 DEF IndInv, Ended, AnyActive
  <2> QED
    BY <1>1, <2>1 DEF Ended
<1> QED
  BY <1>1, <1>2, <1>3, <1>4, <1>5, <1>6, <1>7, <1>8, AfterStep

\* The devices keep the states that they have.
LEMMA StillEnded ==
  ASSUME Ended, UNCHANGED <<inst, script, listening, conn, told, loop>>,
         \A d \in Clients, e \in Ends :
           side'[d][e].in = side[d][e].in /\ side'[d][e].out = side[d][e].out
  PROVE  Ended'
<1>1. Clients' = Clients
  BY DEF Clients
<1>2. loop = "ended" => script = <<>> /\ ~AnyActive
  BY DEF Ended
<1>3. AnyActive' => AnyActive
  BY <1>1 DEF AnyActive, IsActive
<1> QED
  BY <1>2, <1>3 DEF Ended

LEMMA StepReplies ==
  ASSUME IndInv, NEW c \in Clients, Server_replies(c)
  PROVE  IndInv'
<1>1. /\ UNCHANGED <<inst, script, timer, early, conn, listening>>
      /\ told' = told /\ loop' = loop /\ inst.program = "socket"
  BY DEF Server_replies, program
<1>2. PICK C \in EndType, S \in EndType :
        C = side[c]["client"] /\ S = side[c]["server"] /\ Emptied(C) /\ Emptied(S)
  BY EndsOf DEF IndInv
<1>3. /\ TypeOK /\ SideOK /\ inst \in Instances /\ c \in 1 .. inst.clients /\ Pos \in Nat
      /\ LinkOf(inst, Pos, c, conn[c], told, early, C, S) /\ told \subseteq Clients
      /\ loop \in {"blocked", "awake", "ended"}
  BY <1>2, BeforeStep DEF Link
<1>4. C.net > 0 /\ S.net + inst.len <= Cap
  BY <1>2 DEF Server_replies
<1>5. PICK m \in 0 .. Cap, n \in 0 .. Cap, g \in Nat :
        m = C.net - 1 /\ n = S.net + inst.len /\ g = S.got + 1
  <2>1. C.net - 1 \in 0 .. Cap /\ S.got + 1 \in Nat
    BY <1>4, EndFacts
  <2>2. S.net + inst.len \in 0 .. Cap
    <3>1. inst.len \in Nat
      BY <1>3, InstanceFacts
    <3> QED
      BY <1>4, <3>1, EndFacts
  <2> QED
    BY <2>1, <2>2
<1> DEFINE C2 == [C EXCEPT !.net = m]
           S2 == [S EXCEPT !.got = g, !.net = n]
<1>6. /\ C2 \in EndType /\ Emptied(C2) /\ Fields(C2, C.in, C.out, C.buf, m, C.got)
      /\ S2 \in EndType /\ Emptied(S2) /\ Fields(S2, S.in, S.out, S.buf, n, g)
  BY <1>2 DEF EndType, Emptied, Fields
<1>7. OneSide(c, C2, S2)
  <2>1. side' = [side EXCEPT ![c]["client"].net = m,
                             ![c]["server"].got = g, ![c]["server"].net = n]
    BY <1>2, <1>3, <1>5 DEF Server_replies, SideOK, Ends
  <2>2. side' = [side EXCEPT ![c]["client"] = C2, ![c]["server"] = S2]
    BY <1>2, <1>3, <2>1 DEF SideOK, Ends
  <2> HIDE DEF C2, S2
  <2> QED
    BY <1>2, <1>3, <1>6, <2>2, TwoEnds
<1> HIDE DEF C2, S2
<1>8. LinkOf(inst, Pos, c, conn[c], told, early, C2, S2)
  BY <1>1, <1>3, <1>4, <1>5, <1>6, LinkReplies
<1>9. Ended'
  <2>1. C2.in = C.in /\ C2.out = C.out /\ S2.in = S.in /\ S2.out = S.out
    BY <1>6 DEF Fields
  <2>2. \A d \in Clients, e \in Ends :
           side'[d][e].in = side[d][e].in /\ side'[d][e].out = side[d][e].out
    BY <1>2, <1>7, <2>1 DEF OneSide, Ends
  <2> QED
    BY <1>1, <2>2, StillEnded DEF IndInv
<1> QED
  BY <1>1, <1>3, <1>6, <1>7, <1>8, <1>9, AfterTransfer

LEMMA StepTypes ==
  ASSUME IndInv, NEW c \in Clients, User_types(c)
  PROVE  IndInv'
<1>1. /\ UNCHANGED <<inst, script, timer, early, conn, listening>>
      /\ told' = told /\ loop' = loop /\ inst.program = "filedescriptor"
  BY DEF User_types, program
<1>2. PICK C \in EndType, S \in EndType :
        C = side[c]["client"] /\ S = side[c]["server"] /\ Emptied(C) /\ Emptied(S)
  BY EndsOf DEF IndInv
<1>3. /\ TypeOK /\ SideOK /\ inst \in Instances /\ c \in 1 .. inst.clients /\ Pos \in Nat
      /\ LinkOf(inst, Pos, c, conn[c], told, early, C, S) /\ told \subseteq Clients
      /\ loop \in {"blocked", "awake", "ended"}
  BY <1>2, BeforeStep DEF Link
<1>4. C.buf > 0 /\ C.net + inst.len <= Cap
  BY <1>2 DEF User_types
<1>5. PICK x \in Nat, m \in 0 .. Cap : x = C.buf - inst.len /\ m = C.net + inst.len
  <2>1. inst.len \in Nat /\ C.buf \in Nat /\ C.net \in Nat
    BY <1>3, InstanceFacts, EndFacts
  <2>2. PICK a \in Nat : C.buf = a * inst.len
    BY <1>1, <1>3 DEF LinkOf, Forward
  <2>3. a # 0
    BY <1>4, <2>1, <2>2
  <2>4. inst.len * 1 <= inst.len * a
    BY <2>1, <2>3, MultMono
  <2>5. inst.len <= C.buf
    BY <2>1, <2>2, <2>4
  <2> QED
    BY <1>4, <2>1, <2>5
<1> DEFINE C2 == [C EXCEPT !.buf = x, !.net = m]
<1>6. C.out = "None"
  BY <1>1, <1>3 DEF LinkOf, ClientDevices, HasOutput
<1>7. C2 \in EndType /\ Emptied(C2) /\ Fields(C2, C.in, C.out, x, m, C.got)
  BY <1>2, <1>6 DEF EndType, Emptied, Fields
<1>8. OneSide(c, C2, S)
  <2>1. side' = [side EXCEPT ![c]["client"].buf = x, ![c]["client"].net = m]
    BY <1>2, <1>3, <1>5 DEF User_types, SideOK, Ends
  <2>2. side' = [side EXCEPT ![c]["client"] = C2]
    BY <1>2, <1>3, <2>1 DEF SideOK, Ends
  <2> HIDE DEF C2
  <2> QED
    BY <1>2, <1>3, <1>7, <2>2, OneClient
<1> HIDE DEF C2
<1>9. LinkOf(inst, Pos, c, conn[c], told, early, C2, S)
  BY <1>1, <1>3, <1>5, <1>7, LinkTypes
<1>10. Ended'
  <2>1. C2.in = C.in /\ C2.out = C.out
    BY <1>7 DEF Fields
  <2>2. \A d \in Clients, e \in Ends :
           side'[d][e].in = side[d][e].in /\ side'[d][e].out = side[d][e].out
    BY <1>2, <1>8, <2>1 DEF OneSide, Ends
  <2> QED
    BY <1>1, <2>2, StillEnded DEF IndInv
<1> QED
  BY <1>1, <1>2, <1>3, <1>7, <1>8, <1>9, <1>10, AfterTransfer

LEMMA AfterTimer ==
  ASSUME IndInv, timer # <<>>, UNCHANGED <<inst, script, told, side, early>>,
         timer' \in Seq({"close", "release_callback", "bump_terminate", "dangling"}),
         conn' \in [Clients -> {"none", "connecting", "backlog", "accepted", "reset"}],
         \A d \in Clients : conn'[d] = conn[d] \/ (conn[d] = "backlog" /\ conn'[d] = "reset"),
         listening' \in {"None", "Active", "Closed"}, ListenInv',
         loop' \in {"blocked", "awake", "ended"}, Ended'
  PROVE  IndInv'
<1>1. /\ TypeOK /\ ScriptInv /\ inst \in Instances /\ (\A d \in Clients : Link(d))
      /\ told \subseteq Clients /\ early \subseteq Clients /\ script \in Seq(Ops(inst))
  BY DEF IndInv, TypeOK, Ops
<1>2. SideOK'
  BY <1>1, TypeIsSideOK DEF SideOK, Clients
<1>3. TypeOK'
  BY <1>1, <1>2, TypeAfter
<1>4. (\A d \in Clients : Link(d))' /\ ScriptInv'
  <2>1. 0 \notin Clients
    BY DEF Clients
  <2> QED
    BY <1>1, <2>1, LinksAfter
<1>5. TimerInv'
  BY DEF IndInv, TimerInv, program
<1> QED
  BY <1>3, <1>4, <1>5 DEF IndInv

LEMMA StepTimer ==
  ASSUME IndInv, Timer
  PROVE  IndInv'
<1>1. /\ timer # <<>> /\ UNCHANGED <<inst, script, told, side, early>>
      /\ TypeOK /\ Clients' = Clients /\ program' = program
  BY DEF IndInv, Timer, Timer_close, Timer_release_callback, Timer_bump_terminate, Clients, program
<1>2. /\ timer \in Seq({"close", "release_callback", "bump_terminate", "dangling"})
      /\ conn \in [Clients -> {"none", "connecting", "backlog", "accepted", "reset"}]
      /\ listening \in {"None", "Active", "Closed"} /\ loop \in {"blocked", "awake", "ended"}
  BY <1>1 DEF TypeOK
<1>3. Tail(timer) \in Seq({"close", "release_callback", "bump_terminate", "dangling"})
  BY <1>1, <1>2
<1>4. CASE listening' = listening /\ conn' = conn
  <2>1. ListenInv'
    BY <1>1, <1>4 DEF IndInv, ListenInv
  <2>2. /\ timer' \in Seq({"close", "release_callback", "bump_terminate", "dangling"})
        /\ loop' \in {"blocked", "awake", "ended"}
        /\ loop' = "ended" => loop = "ended"
    <3>1. <<"dangling">> \in Seq({"close", "release_callback", "bump_terminate", "dangling"})
      OBVIOUS
    <3>2. timer' \in {Tail(timer), <<"dangling">>}
      BY DEF Timer, Timer_close, Timer_release_callback, Timer_bump_terminate
    <3>3. loop' \in {loop, "awake"} /\ (loop' = "ended" => loop = "ended")
      BY DEF Timer, Timer_close, Timer_release_callback, Timer_bump_terminate
    <3> QED
      BY <1>2, <1>3, <3>1, <3>2, <3>3
  <2>3. Ended'
    BY <1>1, <1>4, <2>2 DEF IndInv, Ended, AnyActive
  <2> QED
    BY <1>1, <1>2, <1>4, <2>1, <2>2, <2>3, AfterTimer
<1>5. CASE timer' = Tail(timer) /\ Close_listen(0) /\ loop' = loop
  <2>1. program \in {"listen_socket", "connect"}
    BY <1>1 DEF IndInv, TimerInv
  <2>2. listening' = "Closed"
    BY <1>5, <2>1 DEF IndInv, ListenInv, HasListener, Close_listen, Close
  <2>3. \A d \in Clients : conn'[d] = IF conn[d] = "backlog" THEN "reset" ELSE conn[d]
    BY <1>5 DEF Close_listen, Clients
  <2>4. conn' \in [Clients -> {"none", "connecting", "backlog", "accepted", "reset"}]
    BY <1>2, <1>5 DEF Close_listen
  <2>5. ListenInv'
    BY <1>1, <2>1, <2>2, <2>3 DEF ListenInv, HasListener
  <2>6. Ended'
    BY <1>1, <1>5, <2>2, <2>3 DEF IndInv, Ended, AnyActive, IsActive
  <2> QED
    BY <1>1, <1>2, <1>3, <1>5, <2>2, <2>3, <2>4, <2>5, <2>6, AfterTimer
<1> QED
  BY <1>4, <1>5 DEF Timer, Timer_close, Timer_release_callback, Timer_bump_terminate

LEMMA StepExternal ==
  ASSUME IndInv, External_step
  PROVE  IndInv'
BY StepKernel, StepReplies, StepTypes DEF External_step

LEMMA StepTests ==
  ASSUME IndInv, Loop_tests
  PROVE  IndInv'
<1>1. UNCHANGED <<inst, script, listening, timer, conn, told, side, early>>
  BY DEF Loop_tests
<1>2. Clients' = Clients /\ program' = program /\ Pos' = Pos /\ (AnyActive' <=> AnyActive)
  BY <1>1 DEF Clients, program, Pos, AnyActive
<1>3. TypeOK' /\ ScriptInv' /\ TimerInv' /\ ListenInv'
  <2>1. loop' \in {"blocked", "awake", "ended"}
    BY DEF Loop_tests
  <2> QED
    BY <1>1, <1>2, <2>1 DEF IndInv, TypeOK, ScriptInv, TimerInv, ListenInv
<1>4. (\A d \in Clients : Link(d))'
  BY <1>1, <1>2 DEF IndInv, Link
<1>5. Ended'
  BY <1>1, <1>2 DEF Loop_tests, Ended
<1> QED
  BY <1>3, <1>4, <1>5 DEF IndInv

-----------------------------------------------------------------------------
(* The handlers of the event loop.                                         *)

LEMMA HandlerFacts ==
  ASSUME Handler
  PROVE  UNCHANGED <<inst, script, timer, early>> /\ loop' \in {"blocked", "awake", "ended"} /\ Ended'
BY DEF Handler, Ended

LEMMA StepConnected ==
  ASSUME IndInv, NEW c \in Clients, Connected(c)
  PROVE  IndInv'
<1>1. /\ UNCHANGED <<inst, script, timer, early, conn, listening>>
      /\ loop' \in {"blocked", "awake", "ended"} /\ Ended'
      /\ told' = told \cup {c} /\ conn[c] \in {"backlog", "accepted"}
  BY HandlerFacts DEF Connected
<1>2. PICK C \in EndType, S \in EndType :
        C = side[c]["client"] /\ S = side[c]["server"] /\ Emptied(C) /\ Emptied(S)
  BY EndsOf DEF IndInv
<1>3. /\ TypeOK /\ SideOK /\ inst \in Instances /\ c \in 1 .. inst.clients /\ Pos \in Nat
      /\ LinkOf(inst, Pos, c, conn[c], told, early, C, S) /\ told \subseteq Clients
  BY <1>2, BeforeStep DEF Link
<1>4. PICK a \in DeviceState \ {"Flushing"}, b \in DeviceState :
        /\ a = IF inst.program = "connect" THEN Close(C.in) ELSE C.in
        /\ b = IF inst.program # "connect" /\ C.buf > 0 THEN Start(C.out) ELSE C.out
        /\ b = "Closed" => C.out = "Closed"
  BY DeviceFacts, EndFacts
<1> DEFINE C2 == [C EXCEPT !.in = a, !.out = b]
<1>5. C2 \in EndType /\ Emptied(C2) /\ Fields(C2, a, b, C.buf, C.net, C.got)
  BY <1>2, <1>4 DEF EndType, Emptied, Fields
<1>6. OneSide(c, C2, S)
  <2>1. side' = [side EXCEPT ![c]["client"] = C2]
    <3>1. CASE inst.program = "connect"
      <4>1. side' = [side EXCEPT ![c]["client"].in = a] /\ b = C.out
        BY <1>2, <1>3, <1>4, <3>1 DEF Connected, program
      <4>2. C2 = [C EXCEPT !.in = a]
        BY <4>1 DEF EndType
      <4> HIDE DEF C2
      <4> QED
        BY <1>2, <1>3, <4>1, <4>2 DEF SideOK, Ends
    <3>2. CASE inst.program # "connect"
      <4>1. side' = [side EXCEPT ![c]["client"].out = b] /\ a = C.in
        BY <1>2, <1>3, <1>4, <3>2 DEF Connected, program
      <4>2. C2 = [C EXCEPT !.out = b]
        BY <4>1 DEF EndType
      <4> HIDE DEF C2
      <4> QED
        BY <1>2, <1>3, <4>1, <4>2 DEF SideOK, Ends
    <3> QED
      BY <3>1, <3>2
  <2> HIDE DEF C2
  <2> QED
    BY <1>2, <1>3, <1>5, <2>1, OneClient
<1> HIDE DEF C2
<1>7. LinkOf(inst, Pos, c, conn[c], told', early, C2, S)
  <2>1. PICK t2 : t2 = told'
    OBVIOUS
  <2>2. IF inst.program = "connect"
        THEN Fields(C2, Close(C.in), C.out, C.buf, C.net, C.got)
        ELSE Fields(C2, C.in, IF C.buf > 0 THEN Start(C.out) ELSE C.out, C.buf, C.net, C.got)
    BY <1>4, <1>5
  <2>3. LinkOf(inst, Pos, c, conn[c], t2, early, C2, S)
    BY <1>1, <1>3, <1>5, <2>2, LinkConnected
  <2> QED
    BY <2>1, <2>3
<1>8. told' \subseteq Clients /\ \A d \in Clients \ {c} : d \in told' <=> d \in told
  BY <1>1, <1>3
<1> QED
  BY <1>1, <1>2, <1>5, <1>6, <1>7, <1>8, AfterTransfer

LEMMA StepFailed ==
  ASSUME IndInv, NEW c \in Clients, Connection_failed(c)
  PROVE  IndInv'
<1>1. /\ UNCHANGED <<inst, script, timer, early, conn, listening>>
      /\ loop' \in {"blocked", "awake", "ended"} /\ Ended'
      /\ told' = told \cup {c} /\ conn[c] = "reset"
  BY HandlerFacts DEF Connection_failed
<1>2. PICK C \in EndType, S \in EndType :
        C = side[c]["client"] /\ S = side[c]["server"] /\ Emptied(C) /\ Emptied(S)
  BY EndsOf DEF IndInv
<1>3. /\ TypeOK /\ SideOK /\ inst \in Instances /\ c \in 1 .. inst.clients /\ Pos \in Nat
      /\ LinkOf(inst, Pos, c, conn[c], told, early, C, S) /\ told \subseteq Clients
  BY <1>2, BeforeStep DEF Link
<1>4. PICK a \in DeviceState \ {"Flushing"}, b \in DeviceState :
        a = Close(C.in) /\ b = Close(C.out)
  BY DeviceFacts, EndFacts
<1> DEFINE C2 == [C EXCEPT !.in = a, !.out = b, !.buf = 0]
<1>5. C2 \in EndType /\ Emptied(C2) /\ Fields(C2, a, b, 0, C.net, C.got)
  BY <1>2, <1>4 DEF EndType, Emptied, Fields
<1>6. OneSide(c, C2, S)
  <2>1. side' = [side EXCEPT ![c]["client"].in = a, ![c]["client"].out = b,
                             ![c]["client"].buf = 0]
    BY <1>2, <1>4 DEF Connection_failed
  <2>2. side' = [side EXCEPT ![c]["client"] = C2]
    BY <1>2, <1>3, <2>1 DEF SideOK, Ends
  <2> HIDE DEF C2
  <2> QED
    BY <1>2, <1>3, <1>5, <2>2, OneClient
<1> HIDE DEF C2
<1>7. LinkOf(inst, Pos, c, conn[c], told', early, C2, S)
  <2>1. PICK t2 : t2 = told'
    OBVIOUS
  <2>2. LinkOf(inst, Pos, c, "reset", t2, early, C2, S)
    BY <1>1, <1>3, <1>4, <1>5, LinkFailed
  <2> QED
    BY <1>1, <2>1, <2>2
<1>8. told' \subseteq Clients /\ \A d \in Clients \ {c} : d \in told' <=> d \in told
  BY <1>1, <1>3
<1> QED
  BY <1>1, <1>2, <1>5, <1>6, <1>7, <1>8, AfterTransfer

LEMMA StepAnswered ==
  ASSUME IndInv, NEW c \in Clients, Listen_socket_new_connection(c)
  PROVE  IndInv'
<1>1. /\ UNCHANGED <<inst, script, timer, early>>
      /\ loop' \in {"blocked", "awake", "ended"} /\ Ended'
      /\ listening' = listening /\ told' = told /\ conn[c] = "backlog"
      /\ inst.program = "listen_socket"
  BY HandlerFacts DEF Listen_socket_new_connection, program
<1>2. PICK C \in EndType, S \in EndType :
        C = side[c]["client"] /\ S = side[c]["server"] /\ Emptied(C) /\ Emptied(S)
  BY EndsOf DEF IndInv
<1>3. /\ TypeOK /\ SideOK /\ inst \in Instances /\ c \in 1 .. inst.clients /\ Pos \in Nat
      /\ LinkOf(inst, Pos, c, conn[c], told, early, C, S) /\ told \subseteq Clients
      /\ conn \in [Clients -> {"none", "connecting", "backlog", "accepted", "reset"}]
      /\ listening \in {"None", "Active", "Closed"}
  BY <1>2, BeforeStep DEF Link
<1>4. PICK a \in DeviceState \ {"Flushing"}, b \in DeviceState, x \in Nat :
        /\ a = Start(S.in) /\ b = Flush(Start(S.out)) /\ x = inst.lines * inst.len
        /\ b # "Closed"
  <2>1. inst.lines \in Nat /\ inst.len \in Nat
    BY <1>3, InstanceFacts
  <2>2. inst.lines * inst.len \in Nat
    BY <2>1
  <2>3. S.out = "Removed"
    BY <1>1, <1>3 DEF LinkOf, ServerDevices, HasListener
  <2>4. Flush(Start(S.out)) = "Flushing"
    BY <2>3 DEF Flush, Start
  <2> QED
    BY <2>2, <2>4, DeviceFacts, EndFacts DEF DeviceState
<1> DEFINE S2 == End(a, b, x)
<1>5. S2 \in EndType /\ Emptied(S2) /\ Fields(S2, a, b, x, 0, 0)
  <2>1. 0 \in 0 .. Cap
    BY EndFacts
  <2> QED
    BY <1>4, <2>1 DEF EndType, Emptied, Fields, End
<1>6. OneSide(c, C, S2)
  <2>1. side' = [side EXCEPT ![c]["server"] = S2]
    BY <1>2, <1>4 DEF Listen_socket_new_connection, End
  <2> HIDE DEF S2
  <2> QED
    BY <1>2, <1>3, <1>5, <2>1, OneServer
<1> HIDE DEF S2
<1>7. /\ conn'[c] = "accepted" /\ \A d \in Clients \ {c} : conn'[d] = conn[d]
      /\ conn' \in [Clients -> {"none", "connecting", "backlog", "accepted", "reset"}]
  BY <1>3 DEF Listen_socket_new_connection
<1>8. LinkOf(inst, Pos, c, conn'[c], told', early, C, S2)
  <2>1. LinkOf(inst, Pos, c, "accepted", told, early, C, S2)
    BY <1>1, <1>3, <1>4, <1>5, LinkAnswered
  <2> QED
    BY <1>1, <1>7, <2>1
<1>9. ListenInv'
  <2>1. Clients' = Clients /\ program' = program
    BY <1>1 DEF Clients, program
  <2> QED
    BY <1>1, <1>7, <2>1 DEF IndInv, ListenInv
<1> QED
  BY <1>1, <1>2, <1>3, <1>5, <1>6, <1>7, <1>8, <1>9, AfterStep

LEMMA StepAccepted ==
  ASSUME IndInv, NEW c \in Clients, New_connection_closes(c),
         program \in {"connect", "unix_socket"}
  PROVE  IndInv'
<1>1. /\ UNCHANGED <<inst, script, timer, early>>
      /\ loop' \in {"blocked", "awake", "ended"} /\ Ended'
      /\ told' = told /\ conn[c] = "backlog" /\ listening' = "Closed"
      /\ inst.program \in {"connect", "unix_socket"}
  BY HandlerFacts DEF New_connection_closes, program, Close_listen, Close
<1>2. PICK C \in EndType, S \in EndType :
        C = side[c]["client"] /\ S = side[c]["server"] /\ Emptied(C) /\ Emptied(S)
  BY EndsOf DEF IndInv
<1>3. /\ TypeOK /\ SideOK /\ inst \in Instances /\ c \in 1 .. inst.clients /\ Pos \in Nat
      /\ LinkOf(inst, Pos, c, conn[c], told, early, C, S) /\ told \subseteq Clients
      /\ conn \in [Clients -> {"none", "connecting", "backlog", "accepted", "reset"}]
  BY <1>2, BeforeStep DEF Link
<1>4. PICK a \in DeviceState \ {"Flushing"}, b \in DeviceState :
        a = Start(S.in) /\ b = Start(S.out) /\ (b = "Closed" => S.out = "Closed")
  BY DeviceFacts, EndFacts
<1> DEFINE S2 == [S EXCEPT !.in = a, !.out = b]
<1>5. S2 \in EndType /\ Emptied(S2) /\ Fields(S2, a, b, S.buf, S.net, S.got)
  BY <1>2, <1>4 DEF EndType, Emptied, Fields
<1>6. OneSide(c, C, S2)
  <2>1. side' = [side EXCEPT ![c]["server"].in = a, ![c]["server"].out = b]
    BY <1>2, <1>4 DEF New_connection_closes
  <2>2. side' = [side EXCEPT ![c]["server"] = S2]
    BY <1>2, <1>3, <2>1 DEF SideOK, Ends
  <2> HIDE DEF S2
  <2> QED
    BY <1>2, <1>3, <1>5, <2>2, OneServer
<1> HIDE DEF S2
<1>7. /\ conn'[c] = "accepted"
      /\ \A d \in Clients \ {c} : conn'[d] = IF conn[d] = "backlog" THEN "reset" ELSE conn[d]
      /\ conn' \in [Clients -> {"none", "connecting", "backlog", "accepted", "reset"}]
  BY <1>3 DEF New_connection_closes, Close_listen
<1>8. LinkOf(inst, Pos, c, conn'[c], told', early, C, S2)
  <2>1. LinkOf(inst, Pos, c, "accepted", told, early, C, S2)
    BY <1>1, <1>3, <1>4, <1>5, LinkAccepted
  <2> QED
    BY <1>1, <1>7, <2>1
<1>9. ListenInv'
  <2>1. Clients' = Clients /\ program' = program
    BY <1>1 DEF Clients, program
  <2>2. \A d \in Clients : d = c
    BY <1>1, <1>3, InstanceFacts DEF Clients
  <2> QED
    BY <1>1, <1>7, <2>1, <2>2 DEF ListenInv, HasListener
<1> QED
  BY <1>1, <1>2, <1>3, <1>5, <1>6, <1>7, <1>8, <1>9, AfterStep

LEMMA StepTestOutput ==
  ASSUME IndInv, NEW c \in Clients, TestOutputDevice_write_to_fd(c)
  PROVE  IndInv'
<1>1. /\ UNCHANGED <<inst, script, timer, early, conn, listening>>
      /\ loop' \in {"blocked", "awake", "ended"} /\ Ended'
      /\ told' = told /\ inst.program = "filedescriptor"
  BY HandlerFacts DEF TestOutputDevice_write_to_fd, program
<1>2. PICK C \in EndType, S \in EndType :
        C = side[c]["client"] /\ S = side[c]["server"] /\ Emptied(C) /\ Emptied(S)
  BY EndsOf DEF IndInv
<1>3. /\ TypeOK /\ SideOK /\ inst \in Instances /\ c \in 1 .. inst.clients /\ Pos \in Nat
      /\ LinkOf(inst, Pos, c, conn[c], told, early, C, S) /\ told \subseteq Clients
  BY <1>2, BeforeStep DEF Link
<1>4. PICK b \in DeviceState : b = Stop(S.out)
  BY DeviceFacts, EndFacts
<1> DEFINE S2 == [S EXCEPT !.buf = 0, !.net = 1, !.out = b]
<1>5. S2 \in EndType /\ Emptied(S2) /\ Fields(S2, S.in, b, 0, 1, S.got)
  <2>1. 1 \in 0 .. Cap
    BY <1>3, InstanceFacts
  <2> QED
    BY <2>1 DEF EndType, Emptied, Fields
<1>6. OneSide(c, C, S2)
  <2>1. side' = [side EXCEPT ![c]["server"].buf = 0, ![c]["server"].net = 1,
                             ![c]["server"].out = b]
    BY <1>2, <1>3, <1>4 DEF TestOutputDevice_write_to_fd, SideOK, Ends
  <2>2. side' = [side EXCEPT ![c]["server"] = S2]
    BY <1>2, <1>3, <2>1 DEF SideOK, Ends
  <2> HIDE DEF S2
  <2> QED
    BY <1>2, <1>3, <1>5, <2>2, OneServer
<1> HIDE DEF S2
<1>7. LinkOf(inst, Pos, c, conn[c], told, early, C, S2)
  <2>1. IsActive(S.out)
    BY <1>2 DEF TestOutputDevice_write_to_fd
  <2> QED
    BY <1>1, <1>3, <1>4, <1>5, <2>1, LinkTestOutput
<1> QED
  BY <1>1, <1>2, <1>3, <1>5, <1>6, <1>7, AfterTransfer

LEMMA StepTestInput ==
  ASSUME IndInv, NEW c \in Clients, TestInputDevice_read_from_fd(c)
  PROVE  IndInv'
<1>1. /\ UNCHANGED <<inst, script, timer, early, conn, listening>>
      /\ loop' \in {"blocked", "awake", "ended"} /\ Ended'
      /\ told' = told /\ inst.program = "filedescriptor"
  BY HandlerFacts DEF TestInputDevice_read_from_fd, program
<1>2. PICK C \in EndType, S \in EndType :
        C = side[c]["client"] /\ S = side[c]["server"] /\ Emptied(C) /\ Emptied(S)
  BY EndsOf DEF IndInv
<1>3. /\ TypeOK /\ SideOK /\ inst \in Instances /\ c \in 1 .. inst.clients /\ Pos \in Nat
      /\ LinkOf(inst, Pos, c, conn[c], told, early, C, S) /\ told \subseteq Clients
  BY <1>2, BeforeStep DEF Link
<1>4. C.net > 0 /\ S.in = "Active"
  BY <1>2 DEF TestInputDevice_read_from_fd
<1>5. PICK m \in 0 .. Cap, g \in Nat : m = C.net - inst.len /\ g = S.got + inst.len
  <2>1. inst.len \in Nat /\ C.net \in 0 .. Cap /\ C.net \in Nat /\ S.got \in Nat
        /\ Cap \in Nat
    BY <1>3, InstanceFacts, EndFacts
  <2>2. PICK a \in Nat : C.net = a * inst.len
    BY <1>1, <1>3 DEF LinkOf, Forward
  <2>3. a # 0
    BY <1>4, <2>1, <2>2
  <2>4. inst.len * 1 <= inst.len * a
    BY <2>1, <2>3, MultMono
  <2>5. inst.len <= C.net
    BY <2>1, <2>2, <2>4
  <2>6. C.net - inst.len \in 0 .. Cap /\ S.got + inst.len \in Nat
    BY <2>1, <2>5
  <2> QED
    BY <2>6
<1>6. PICK b \in DeviceState \ {"Flushing"} :
        b = IF Closes("server", g) THEN Close(S.in) ELSE S.in
  BY <1>4 DEF Close, DeviceState
<1> DEFINE C2 == [C EXCEPT !.net = m]
           S2 == [S EXCEPT !.got = g, !.in = b]
<1>7. /\ C2 \in EndType /\ Emptied(C2) /\ Fields(C2, C.in, C.out, C.buf, m, C.got)
      /\ S2 \in EndType /\ Emptied(S2) /\ Fields(S2, b, S.out, S.buf, S.net, g)
  BY <1>2 DEF EndType, Emptied, Fields
<1>8. OneSide(c, C2, S2)
  <2>1. side' = [side EXCEPT ![c]["client"].net = m,
                             ![c]["server"].got = g, ![c]["server"].in = b]
    BY <1>2, <1>3, <1>5, <1>6 DEF TestInputDevice_read_from_fd, SideOK, Ends
  <2>2. side' = [side EXCEPT ![c]["client"] = C2, ![c]["server"] = S2]
    BY <1>2, <1>3, <2>1 DEF SideOK, Ends
  <2> HIDE DEF C2, S2
  <2> QED
    BY <1>2, <1>3, <1>7, <2>2, TwoEnds
<1> HIDE DEF C2, S2
<1>9. LinkOf(inst, Pos, c, conn[c], told, early, C2, S2)
  <2>1. b \in {"Active", "Closed"} /\ (b = "Closed" => g = inst.lines * inst.len)
    BY <1>1, <1>4, <1>6 DEF Closes, Close, program
  <2>2. Fields(S2, S2.in, S.out, S.buf, S.net, S.got + inst.len) /\ S2.in = b
    BY <1>5, <1>7 DEF Fields
  <2>3. Fields(C2, C.in, C.out, C.buf, C.net - inst.len, C.got)
    BY <1>5, <1>7
  <2> QED
    BY <1>1, <1>3, <1>4, <1>5, <1>7, <2>1, <2>2, <2>3, LinkTestInput
<1> QED
  BY <1>1, <1>3, <1>7, <1>8, <1>9, AfterTransfer

LEMMA StepWriteToFd ==
  ASSUME IndInv, NEW c \in Clients, NEW e \in Ends, Write_to_fd(c, e)
  PROVE  IndInv'
<1>1. /\ UNCHANGED <<inst, script, timer, early, conn, listening>>
      /\ loop' \in {"blocked", "awake", "ended"} /\ Ended'
      /\ told' = told /\ inst.program # "filedescriptor" /\ conn[c] # "reset"
  BY HandlerFacts DEF Write_to_fd, program
<1>2. PICK C \in EndType, S \in EndType :
        C = side[c]["client"] /\ S = side[c]["server"] /\ Emptied(C) /\ Emptied(S)
  BY EndsOf DEF IndInv
<1>3. /\ TypeOK /\ SideOK /\ inst \in Instances /\ c \in 1 .. inst.clients /\ Pos \in Nat
      /\ LinkOf(inst, Pos, c, conn[c], told, early, C, S) /\ told \subseteq Clients
  BY <1>2, BeforeStep DEF Link
<1>4. PICK D \in EndType : D = side[c][e] /\ Emptied(D)
  BY <1>3 DEF SideOK
<1>5. PICK j \in 0 .. D.buf :
        /\ IsActive(D.out) /\ D.net + j <= Cap
        /\ side' = [side EXCEPT ![c][e].buf = @ - j, ![c][e].net = @ + j,
                                ![c][e].out = IF D.buf = j THEN Stop(@) ELSE @]
  <2>1. D.buf \in Nat
    BY EndFacts
  <2>2. PICK j \in IF D.buf = 0 THEN {0} ELSE 1 .. D.buf :
          /\ IsActive(D.out) /\ D.net + j <= Cap
          /\ side' = [side EXCEPT ![c][e].buf = @ - j, ![c][e].net = @ + j,
                                  ![c][e].out = IF D.buf = j THEN Stop(@) ELSE @]
    BY <1>4 DEF Write_to_fd
  <2>3. j \in 0 .. D.buf
    BY <2>1, <2>2
  <2> QED
    BY <2>2, <2>3
<1>6. PICK x \in Nat, m \in 0 .. Cap, b \in DeviceState :
        /\ x = D.buf - j /\ m = D.net + j /\ b = IF D.buf = j THEN Stop(D.out) ELSE D.out
        /\ b = "Closed" => x = 0
  <2>1. D.buf \in Nat /\ D.net \in Nat /\ D.out \in DeviceState /\ Cap \in Nat
    BY EndFacts
  <2>2. D.buf - j \in Nat /\ D.net + j \in 0 .. Cap
    BY <1>5, <2>1
  <2>3. D.buf = j => D.buf - j = 0
    BY <2>1
  <2>4. Stop(D.out) \in DeviceState /\ D.out # "Closed"
    BY <1>5, <2>1, DeviceFacts DEF IsActive
  <2> QED
    BY <2>1, <2>2, <2>3, <2>4
<1> DEFINE D2 == [D EXCEPT !.buf = x, !.net = m, !.out = b]
<1>7. D2 \in EndType /\ Emptied(D2) /\ Fields(D2, D.in, b, x, m, D.got)
  BY <1>6 DEF EndType, Emptied, Fields
<1>8. side' = [side EXCEPT ![c][e] = D2]
  <2>1. side' = [side EXCEPT ![c][e].buf = x, ![c][e].net = m, ![c][e].out = b]
    BY <1>3, <1>4, <1>5, <1>6 DEF SideOK
  <2> QED
    BY <1>3, <1>4, <2>1 DEF SideOK
<1> HIDE DEF D2
<1>9. Fields(D2, D.in, IF D.buf = j THEN Stop(D.out) ELSE D.out, D.buf - j, D.net + j, D.got)
  BY <1>6, <1>7
<1>10. CASE e = "client"
  <2>1. D = C
    BY <1>2, <1>4, <1>10
  <2>2. OneSide(c, D2, S)
    BY <1>2, <1>3, <1>7, <1>8, <1>10, OneClient
  <2>3. LinkOf(inst, Pos, c, conn[c], told, early, D2, S)
    BY <1>1, <1>3, <1>5, <1>7, <1>9, <2>1, LinkClientWrites
  <2> QED
    BY <1>1, <1>2, <1>3, <1>7, <2>2, <2>3, AfterTransfer
<1>11. CASE e = "server"
  <2>1. D = S
    BY <1>2, <1>4, <1>11
  <2>2. OneSide(c, C, D2)
    BY <1>2, <1>3, <1>7, <1>8, <1>11, OneServer
  <2>3. LinkOf(inst, Pos, c, conn[c], told, early, C, D2)
    BY <1>1, <1>3, <1>5, <1>7, <1>9, <2>1, LinkServerWrites
  <2> QED
    BY <1>1, <1>2, <1>3, <1>7, <2>2, <2>3, AfterTransfer
<1> QED
  BY <1>10, <1>11 DEF Ends

\* What a read of j bytes is, by end.
LEMMA ReadFacts ==
  ASSUME IndInv, NEW c \in Clients, NEW e \in Ends, Read_from_fd(c, e)
  PROVE  /\ UNCHANGED <<inst, script, timer, early, conn, listening>>
         /\ loop' \in {"blocked", "awake", "ended"} /\ Ended'
         /\ told' = told /\ inst.program # "filedescriptor" /\ conn[c] = "accepted"
         /\ side[c][e].in = "Active" /\ side[c][Other(e)].net > 0
BY HandlerFacts DEF Read_from_fd, program

LEMMA StepClientReads ==
  ASSUME IndInv, NEW c \in Clients, Read_from_fd(c, "client")
  PROVE  IndInv'
<1>1. /\ UNCHANGED <<inst, script, timer, early, conn, listening>>
      /\ loop' \in {"blocked", "awake", "ended"} /\ Ended'
      /\ told' = told /\ inst.program # "filedescriptor" /\ conn[c] = "accepted"
  BY ReadFacts DEF Ends
<1>2. PICK C \in EndType, S \in EndType :
        C = side[c]["client"] /\ S = side[c]["server"] /\ Emptied(C) /\ Emptied(S)
  BY EndsOf DEF IndInv
<1>3. /\ TypeOK /\ SideOK /\ inst \in Instances /\ c \in 1 .. inst.clients /\ Pos \in Nat
      /\ LinkOf(inst, Pos, c, conn[c], told, early, C, S) /\ told \subseteq Clients
  BY <1>2, BeforeStep DEF Link
<1>4. C.in = "Active" /\ Other("client") = "server"
  BY <1>2 DEF Read_from_fd, Other
<1>5. PICK j \in 1 .. S.net :
        side' = [side EXCEPT
          ![c]["server"].net = @ - j, ![c]["client"].got = @ + j,
          ![c]["client"].in = IF \E v \in Decodes("client", C.got, C.got + j) : Closes("client", v)
                              THEN Close(@) ELSE @]
  BY <1>2, <1>4 DEF Read_from_fd
<1>6. PICK m \in 0 .. Cap, g \in Nat : m = S.net - j /\ g = C.got + j
  <2>1. S.net \in 0 .. Cap /\ S.net \in Nat /\ C.got \in Nat /\ Cap \in Nat
    BY EndFacts
  <2>2. S.net - j \in 0 .. Cap /\ C.got + j \in Nat
    BY <1>5, <2>1
  <2> QED
    BY <2>2
<1>7. PICK b \in DeviceState \ {"Flushing"} :
        b = IF \E v \in Decodes("client", C.got, C.got + j) : Closes("client", v)
            THEN "Closed" ELSE C.in
  BY <1>4 DEF DeviceState
<1> DEFINE C2 == [C EXCEPT !.got = g, !.in = b]
           S2 == [S EXCEPT !.net = m]
<1>8. /\ C2 \in EndType /\ Emptied(C2) /\ Fields(C2, b, C.out, C.buf, C.net, g)
      /\ S2 \in EndType /\ Emptied(S2) /\ Fields(S2, S.in, S.out, S.buf, m, S.got)
  BY <1>2 DEF EndType, Emptied, Fields
<1>9. OneSide(c, C2, S2)
  <2>1. Close(C.in) = "Closed"
    BY <1>4 DEF Close
  <2>2. side' = [side EXCEPT ![c]["server"].net = m,
                             ![c]["client"].got = g, ![c]["client"].in = b]
    BY <1>2, <1>3, <1>5, <1>6, <1>7, <2>1 DEF SideOK, Ends
  <2>3. side' = [side EXCEPT ![c]["client"] = C2, ![c]["server"] = S2]
    BY <1>2, <1>3, <2>2 DEF SideOK, Ends
  <2> HIDE DEF C2, S2
  <2> QED
    BY <1>2, <1>3, <1>8, <2>3, TwoEnds
<1> HIDE DEF C2, S2
<1>10. LinkOf(inst, Pos, c, conn[c], told, early, C2, S2)
  <2>1. b \in {"Active", "Closed"}
    BY <1>4, <1>7
  <2>2. ASSUME inst.program \in {"listen_socket", "socket"}, b = "Closed"
        PROVE  inst.lines * inst.len \in C.got + 1 .. C.got + j
    <3>1. PICK v \in Decodes("client", C.got, C.got + j) : Closes("client", v)
      BY <1>4, <1>7, <2>2
    <3>2. v = inst.lines * inst.len
      BY <2>2, <3>1 DEF Closes, MyDecoder_decode, InputPrinter_decode, program
    <3>3. v \in C.got + 1 .. C.got + j
      BY <2>2, <3>1 DEF Decodes, program
    <3> QED
      BY <3>2, <3>3
  <2>3. /\ Fields(C2, C2.in, C.out, C.buf, C.net, C.got + j) /\ C2.in = b
        /\ Fields(S2, S.in, S.out, S.buf, S.net - j, S.got)
    BY <1>6, <1>8 DEF Fields
  <2>4. LinkOf(inst, Pos, c, "accepted", told, early, C2, S2)
    BY <1>1, <1>3, <1>4, <1>5, <1>8, <2>1, <2>2, <2>3, LinkClientReads
  <2> QED
    BY <1>1, <2>4
<1> QED
  BY <1>1, <1>3, <1>8, <1>9, <1>10, AfterTransfer

LEMMA StepServerReads ==
  ASSUME IndInv, NEW c \in Clients, Read_from_fd(c, "server")
  PROVE  IndInv'
<1>1. /\ UNCHANGED <<inst, script, timer, early, conn, listening>>
      /\ loop' \in {"blocked", "awake", "ended"} /\ Ended'
      /\ told' = told /\ inst.program # "filedescriptor" /\ conn[c] = "accepted"
  BY ReadFacts DEF Ends
<1>2. PICK C \in EndType, S \in EndType :
        C = side[c]["client"] /\ S = side[c]["server"] /\ Emptied(C) /\ Emptied(S)
  BY EndsOf DEF IndInv
<1>3. /\ TypeOK /\ SideOK /\ inst \in Instances /\ c \in 1 .. inst.clients /\ Pos \in Nat
      /\ LinkOf(inst, Pos, c, conn[c], told, early, C, S) /\ told \subseteq Clients
  BY <1>2, BeforeStep DEF Link
<1>4. S.in = "Active" /\ Other("server") = "client"
  BY <1>2 DEF Read_from_fd, Other
<1>5. PICK j \in 1 .. C.net :
        side' = [side EXCEPT
          ![c]["client"].net = @ - j, ![c]["server"].got = @ + j,
          ![c]["server"].in = IF \E v \in Decodes("server", S.got, S.got + j) : Closes("server", v)
                              THEN Close(@) ELSE @]
  BY <1>2, <1>4 DEF Read_from_fd
<1>6. PICK m \in 0 .. Cap, g \in Nat : m = C.net - j /\ g = S.got + j
  <2>1. C.net \in 0 .. Cap /\ C.net \in Nat /\ S.got \in Nat /\ Cap \in Nat
    BY EndFacts
  <2>2. C.net - j \in 0 .. Cap /\ S.got + j \in Nat
    BY <1>5, <2>1
  <2> QED
    BY <2>2
<1>7. PICK b \in DeviceState \ {"Flushing"} :
        b = IF \E v \in Decodes("server", S.got, S.got + j) : Closes("server", v)
            THEN "Closed" ELSE S.in
  BY <1>4 DEF DeviceState
<1> DEFINE C2 == [C EXCEPT !.net = m]
           S2 == [S EXCEPT !.got = g, !.in = b]
<1>8. /\ C2 \in EndType /\ Emptied(C2) /\ Fields(C2, C.in, C.out, C.buf, m, C.got)
      /\ S2 \in EndType /\ Emptied(S2) /\ Fields(S2, b, S.out, S.buf, S.net, g)
  BY <1>2 DEF EndType, Emptied, Fields
<1>9. OneSide(c, C2, S2)
  <2>1. Close(S.in) = "Closed"
    BY <1>4 DEF Close
  <2>2. side' = [side EXCEPT ![c]["client"].net = m,
                             ![c]["server"].got = g, ![c]["server"].in = b]
    BY <1>2, <1>3, <1>5, <1>6, <1>7, <2>1 DEF SideOK, Ends
  <2>3. side' = [side EXCEPT ![c]["client"] = C2, ![c]["server"] = S2]
    BY <1>2, <1>3, <2>2 DEF SideOK, Ends
  <2> HIDE DEF C2, S2
  <2> QED
    BY <1>2, <1>3, <1>8, <2>3, TwoEnds
<1> HIDE DEF C2, S2
<1>10. LinkOf(inst, Pos, c, conn[c], told, early, C2, S2)
  <2>1. b \in {"Active", "Closed"}
    BY <1>4, <1>7
  <2>2. ASSUME inst.program = "listen_socket", b = "Closed"
        PROVE  S.got + j = 2 * inst.burst
    <3>1. PICK v \in Decodes("server", S.got, S.got + j) : Closes("server", v)
      BY <1>4, <1>7, <2>2
    <3> QED
      BY <2>2, <3>1 DEF Closes, Decodes, MyAcceptedSocketDecoder_decode, program
  <2>3. ASSUME inst.program \in {"unix_socket", "pipe"}, b = "Closed"
        PROVE  inst.len <= S.got + j
    <3>1. PICK v \in Decodes("server", S.got, S.got + j) : Closes("server", v)
      BY <1>4, <1>7, <2>3
    <3>2. v = inst.len
      BY <2>3, <3>1 DEF Closes, Unix_socket_decode, Pipe_decode, program
    <3>3. v \in S.got + 1 .. S.got + j
      BY <2>3, <3>1 DEF Decodes, program
    <3> QED
      BY <3>2, <3>3
  <2>4. /\ Fields(S2, S2.in, S.out, S.buf, S.net, S.got + j) /\ S2.in = b
        /\ Fields(C2, C.in, C.out, C.buf, C.net - j, C.got)
    BY <1>6, <1>8 DEF Fields
  <2>5. LinkOf(inst, Pos, c, "accepted", told, early, C2, S2)
    BY <1>1, <1>3, <1>4, <1>5, <1>8, <2>1, <2>2, <2>3, <2>4, LinkServerReads
  <2> QED
    BY <1>1, <2>5
<1> QED
  BY <1>1, <1>3, <1>8, <1>9, <1>10, AfterTransfer

LEMMA StepEof ==
  ASSUME IndInv, NEW c \in Clients, NEW e \in Ends, Read_returned_zero(c, e)
  PROVE  IndInv'
<1>1. /\ UNCHANGED <<inst, script, timer, early, conn, listening>>
      /\ loop' \in {"blocked", "awake", "ended"} /\ Ended'
      /\ told' = told /\ conn[c] = "accepted"
  BY HandlerFacts DEF Read_returned_zero
<1>2. PICK C \in EndType, S \in EndType :
        C = side[c]["client"] /\ S = side[c]["server"] /\ Emptied(C) /\ Emptied(S)
  BY EndsOf DEF IndInv
<1>3. /\ TypeOK /\ SideOK /\ inst \in Instances /\ c \in 1 .. inst.clients /\ Pos \in Nat
      /\ LinkOf(inst, Pos, c, conn[c], told, early, C, S) /\ told \subseteq Clients
  BY <1>2, BeforeStep DEF Link
<1>4. PICK D \in EndType : D = side[c][e] /\ Emptied(D) /\ D.in = "Active"
  BY <1>3 DEF SideOK, Read_returned_zero
<1> DEFINE D2 == [D EXCEPT !.in = "Closed"]
<1>5. D2 \in EndType /\ Emptied(D2) /\ Fields(D2, "Closed", D.out, D.buf, D.net, D.got)
  BY <1>4 DEF EndType, Emptied, Fields, DeviceState
<1>6. side' = [side EXCEPT ![c][e] = D2]
  <2>1. side' = [side EXCEPT ![c][e].in = "Closed"]
    BY <1>3, <1>4 DEF Read_returned_zero, SideOK, Close
  <2> QED
    BY <1>3, <1>4, <2>1 DEF SideOK
<1> HIDE DEF D2
<1>7. CASE e = "client"
  <2>1. D = C
    BY <1>2, <1>4, <1>7
  <2>2. OneSide(c, D2, S)
    BY <1>2, <1>3, <1>5, <1>6, <1>7, OneClient
  <2>3. inst.program # "socket" /\ S.net = 0 /\ S.out \in {"None", "Closed"}
    BY <1>2, <1>7 DEF Read_returned_zero, FdClosed, External, Other, program
  <2>4. LinkOf(inst, Pos, c, "accepted", told, early, D2, S)
    BY <1>1, <1>2, <1>3, <1>4, <1>5, <2>1, <2>3, LinkClientEof
  <2> QED
    BY <1>1, <1>2, <1>3, <1>5, <2>2, <2>4, AfterTransfer
<1>8. CASE e = "server"
  <2>1. D = S
    BY <1>2, <1>4, <1>8
  <2>2. OneSide(c, C, D2)
    BY <1>2, <1>3, <1>5, <1>6, <1>8, OneServer
  <2>3. inst.program # "filedescriptor" /\ C.net = 0 /\ C.out \in {"None", "Closed"}
    BY <1>2, <1>8 DEF Read_returned_zero, FdClosed, External, Other, program
  <2>4. LinkOf(inst, Pos, c, "accepted", told, early, C, D2)
    BY <1>1, <1>2, <1>3, <1>4, <1>5, <2>1, <2>3, LinkServerEof
  <2> QED
    BY <1>1, <1>2, <1>3, <1>5, <2>2, <2>4, AfterTransfer
<1> QED
  BY <1>7, <1>8 DEF Ends

LEMMA StepHandler ==
  ASSUME IndInv, Handler_step
  PROVE  IndInv'
<1>1. PICK c \in Clients :
        \/ Connected(c) \/ Connection_failed(c)
        \/ Listen_socket_new_connection(c) \/ Connect_new_connection(c) \/ Unix_socket_new_connection(c)
        \/ TestOutputDevice_write_to_fd(c) \/ TestInputDevice_read_from_fd(c)
        \/ \E e \in Ends : Write_to_fd(c, e) \/ Read_from_fd(c, e) \/ Read_returned_zero(c, e)
  BY DEF Handler_step
<1>2. CASE Connect_new_connection(c) \/ Unix_socket_new_connection(c)
  BY <1>2, StepAccepted DEF Connect_new_connection, Unix_socket_new_connection
<1>3. ASSUME NEW e \in Ends, Read_from_fd(c, e)
      PROVE  IndInv'
  BY <1>3, StepClientReads, StepServerReads DEF Ends
<1> QED
  BY <1>1, <1>2, <1>3, StepConnected, StepFailed, StepAnswered, StepTestOutput, StepTestInput,
     StepWriteToFd, StepEof

-----------------------------------------------------------------------------
(* The invariant holds, and what it says about the end of the program.     *)

LEMMA Constructed ==
  ASSUME NEW i \in Instances
  PROVE  /\ Client_constructed(i) \in EndType /\ Emptied(Client_constructed(i))
         /\ Server_constructed(i) \in EndType /\ Emptied(Server_constructed(i))
<1>1. PICK x \in Nat : x = i.lines * i.len
  <2>1. i.lines \in Nat /\ i.len \in Nat
    BY InstanceFacts
  <2> QED
    BY <2>1
<1>2. \A a \in DeviceState \ {"Flushing"}, b \in DeviceState \ {"Closed"}, v \in Nat :
        End(a, b, v) \in EndType /\ Emptied(End(a, b, v))
  <2>1. 0 \in 0 .. Cap
    BY EvioProgramsAssumption
  <2> QED
    BY <2>1 DEF End, EndType, Emptied
<1>3. \E a \in DeviceState \ {"Flushing"}, b \in DeviceState \ {"Closed"}, v \in Nat :
        Client_constructed(i) = End(a, b, v)
  BY <1>1, InstanceFacts
  DEF Client_constructed, BurstSocket, Socket_MySocket, Connect_MySocket, OutputOnly, Typed,
      Programs, DeviceState
<1>4. \E a \in DeviceState \ {"Flushing"}, b \in DeviceState \ {"Closed"}, v \in Nat :
        Server_constructed(i) = End(a, b, v)
  <2>1. Start("Removed") = "Active"
    BY DEF Start
  <2> QED
    BY <2>1, InstanceFacts DEF Server_constructed, TestDevices, Programs, DeviceState
<1> QED
  BY <1>2, <1>3, <1>4

LEMMA Initially ==
  ASSUME Init
  PROVE  IndInv
<1>1. inst \in Instances /\ script = Main(inst) /\ early = {} /\ loop = "blocked"
  BY DEF Init
<1>2. script \in Seq(Ops(inst)) /\ Len(script) \in Nat
  BY <1>1, MainIsScript
<1>3. Pos = 0
  BY <1>1, <1>2 DEF Pos
<1>4. PICK C \in EndType, S \in EndType :
        C = Client_constructed(inst) /\ S = Server_constructed(inst) /\ Emptied(C) /\ Emptied(S)
  BY <1>1, Constructed
<1>5. \A c \in Clients : side[c]["client"] = C /\ side[c]["server"] = S
  BY <1>4 DEF Init, Ends
<1>6. side \in [Clients -> [Ends -> EndType]] /\ \A c \in Clients, e \in Ends : Emptied(side[c][e])
  BY <1>4 DEF Init, Ends
<1>7. timer \in Seq({"close", "release_callback", "bump_terminate", "dangling"}) /\ TimerInv
  <2>1. timer \in {Listen_socket_timer, Connect_timer, <<>>} /\ TimerInv
    BY DEF Init, Timer_callback, TimerInv
  <2>2. /\ Listen_socket_timer \in Seq({"close", "release_callback", "bump_terminate", "dangling"})
        /\ Connect_timer \in Seq({"close", "release_callback", "bump_terminate", "dangling"})
        /\ <<>> \in Seq({"close", "release_callback", "bump_terminate", "dangling"})
    BY DEF Listen_socket_timer, Connect_timer
  <2> QED
    BY <2>1, <2>2
<1>8. /\ conn \in [Clients -> {"none", "connecting", "backlog", "accepted", "reset"}]
      /\ \A c \in Clients :
           conn[c] = IF inst.program \in {"pipe", "filedescriptor"} THEN "accepted" ELSE "none"
  BY DEF Init, program
<1>9. told \subseteq Clients /\ (inst.program \notin {"pipe", "filedescriptor"} => told = {})
  BY DEF Init, program
<1>10. ListenInv /\ listening \in {"None", "Active", "Closed"}
  BY <1>8 DEF Init, ListenInv, HasListener, program
<1>11. TypeOK
  BY <1>1, <1>2, <1>6, <1>7, <1>8, <1>9, <1>10 DEF TypeOK, EndType, Emptied, Ops
<1>12. ScriptInv
  BY <1>1, <1>2, <1>3 DEF ScriptInv
<1>13. ASSUME NEW c \in Clients PROVE Link(c)
  <2>1. c \in 1 .. inst.clients
    BY DEF Clients
  <2>2. PICK k : k = conn[c]
    OBVIOUS
  <2>3. LinkOf(inst, 0, c, k, told, {}, C, S)
    BY <1>1, <1>4, <1>8, <1>9, <2>1, <2>2, LinkInitially
  <2> QED
    BY <1>1, <1>3, <1>5, <2>2, <2>3 DEF Link
<1>14. Ended
  BY <1>1 DEF Ended
<1> QED
  BY <1>7, <1>10, <1>11, <1>12, <1>13, <1>14 DEF IndInv

LEMMA Consecution ==
  ASSUME IndInv, [Next]_vars
  PROVE  IndInv'
<1>1. CASE UNCHANGED vars
  <2>1. UNCHANGED <<inst, script, listening, timer, conn, told, side, early, loop>>
    BY <1>1 DEF vars
  <2>2. Clients' = Clients /\ program' = program /\ Pos' = Pos /\ (AnyActive' <=> AnyActive)
    BY <2>1 DEF Clients, program, Pos, AnyActive
  <2>3. TypeOK' /\ ScriptInv' /\ TimerInv' /\ ListenInv' /\ Ended'
    BY <2>1, <2>2 DEF IndInv, TypeOK, ScriptInv, TimerInv, ListenInv, Ended
  <2>4. (\A d \in Clients : Link(d))'
    BY <2>1, <2>2 DEF IndInv, Link
  <2> QED
    BY <2>3, <2>4 DEF IndInv
<1>2. CASE Next
  BY <1>2, StepMain, StepTimer, StepExternal, StepHandler, StepTests DEF Next, Step
<1> QED
  BY <1>1, <1>2

LEMMA Exchange ==
  ASSUME IndInv
  PROVE  EverythingExchanged
<1>1. SUFFICES ASSUME loop = "ended", NEW c \in Clients
               PROVE  /\ c \in told /\ conn[c] \in {"accepted", "reset"}
                      /\ conn[c] = "accepted" /\ c \notin early =>
                           \A e \in Ends :
                             /\ side[c][e].buf = 0
                             /\ ~External(e) => side[c][Other(e)].net = 0
                             /\ ~External(e) /\ side[c][e].in = "Closed" /\ program # "connect"
                                  => Closes(e, side[c][e].got)
  BY DEF EverythingExchanged
<1>2. script = <<>> /\ ~AnyActive
  BY <1>1 DEF IndInv, Ended
<1>3. PICK C \in EndType, S \in EndType :
        C = side[c]["client"] /\ S = side[c]["server"] /\ Emptied(C) /\ Emptied(S)
  BY EndsOf DEF IndInv
<1>4. /\ inst \in Instances /\ c \in 1 .. inst.clients /\ Pos \in Nat
      /\ LinkOf(inst, Pos, c, conn[c], told, early, C, S)
      /\ conn[c] \in {"none", "connecting", "backlog", "accepted", "reset"}
  BY <1>3, BeforeStep DEF Link
<1>5. Pos = Len(Main(inst))
  <2>1. Len(Main(inst)) \in Nat /\ Len(script) = 0
    BY <1>2, <1>4, MainIsScript
  <2> QED
    BY <2>1 DEF Pos
<1>6. conn[c] # "none"
  <2>1. inst.program \notin {"pipe", "filedescriptor"} =>
          ConnectAt(inst, c) <= Pos /\ ConnectAt(inst, c) \in Nat
    BY <1>4, <1>5, AllExecuted, PositionFacts
  <2>2. ~(inst.program \notin {"pipe", "filedescriptor"} /\ Pos < ConnectAt(inst, c))
    BY <1>4, <2>1
  <2> QED
    BY <1>4, <2>2 DEF LinkOf, Connecting
<1>7. c \in told
  BY <1>2, <1>6 DEF AnyActive
<1>8. conn[c] # "backlog"
  BY <1>2 DEF IndInv, ListenInv, AnyActive, IsActive
<1>9. conn[c] \in {"accepted", "reset"}
  BY <1>4, <1>6, <1>7, <1>8 DEF LinkOf, Connecting
<1>10. ~IsActive(C.in) /\ ~IsActive(C.out) /\ ~IsActive(S.in) /\ ~IsActive(S.out)
  BY <1>2, <1>3 DEF AnyActive, Ends
<1>11. ASSUME conn[c] = "accepted", c \notin early
       PROVE  Exchanged(inst, c, C, S)
  BY <1>3, <1>4, <1>5, <1>10, <1>11, LinkFinal
<1>12. ASSUME conn[c] = "accepted", c \notin early, NEW e \in Ends
       PROVE  /\ side[c][e].buf = 0
              /\ ~External(e) => side[c][Other(e)].net = 0
              /\ ~External(e) /\ side[c][e].in = "Closed" /\ program # "connect"
                   => Closes(e, side[c][e].got)
  <2>1. Exchanged(inst, c, C, S) /\ inst.program \in Programs
    BY <1>4, <1>11, <1>12, InstanceFacts
  <2>2. CASE e = "client"
    <3>1. side[c][e] = C /\ side[c][Other(e)] = S
      BY <1>3, <2>2 DEF Other
    <3>2. ~External(e) => S.net = 0
      BY <2>1, <2>2 DEF Exchanged, External, program
    <3>3. ~External(e) /\ C.in = "Closed" /\ program # "connect" => Closes(e, C.got)
      BY <2>1, <2>2 DEF Exchanged, External, program, Programs, Closes, MyDecoder_decode,
                        InputPrinter_decode
    <3> QED
      BY <2>1, <3>1, <3>2, <3>3 DEF Exchanged
  <2>3. CASE e = "server"
    <3>1. side[c][e] = S /\ side[c][Other(e)] = C
      BY <1>3, <2>3 DEF Other
    <3>2. ~External(e) => C.net = 0
      BY <2>1, <2>3 DEF Exchanged, External, program
    <3>3. ~External(e) /\ S.in = "Closed" /\ program # "connect" => Closes(e, S.got)
      BY <2>1, <2>3 DEF Exchanged, External, program, Programs, Closes, Unix_socket_decode,
                        Pipe_decode, MyAcceptedSocketDecoder_decode
    <3> QED
      BY <2>1, <3>1, <3>2, <3>3 DEF Exchanged
  <2> QED
    BY <2>2, <2>3 DEF Ends
<1> QED
  BY <1>7, <1>9, <1>12

-----------------------------------------------------------------------------
(* Theorems.                                                               *)

\* The inductive invariant, for every set of instances: every byte that main(), a
\* new_connection() or the server wrote is in a buffer, under way or received, main() is
\* where its program says, and a loop that ended has nothing active left.
THEOREM Invariance == Spec => []IndInv
<1>1. Init => IndInv
  BY Initially
<1>2. IndInv /\ [Next]_vars => IndInv'
  BY Consecution
<1> QED
  BY <1>1, <1>2, PTL DEF Spec

\* The devices of all six programs stay in the states that evio's tests know, no direction
\* holds more than the kernel takes, and closed outputs left nothing in their buffers.
THEOREM TypeCorrect == Spec => []TypeOK
<1>1. IndInv => TypeOK
  BY DEF IndInv
<1> QED
  BY <1>1, Invariance, PTL

\* Whenever event_loop.join() of listen_socket.cxx, connect.cxx, unix_socket.cxx, pipe.cxx,
\* socket.cxx or filedescriptor.cxx returns, every client was told about its connection,
\* and on the accepted ones nothing that was written is left in a buffer or unread and
\* the tests on m_received were met exactly, for every number of clients and requests,
\* every size of the messages and whatever fits in the kernel.
THEOREM EverythingArrives == Spec => []EverythingExchanged
<1>1. IndInv => EverythingExchanged
  BY Exchange
<1> QED
  BY <1>1, Invariance, PTL
===============================================================================
