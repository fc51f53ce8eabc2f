----------------------------- MODULE EvioPrograms -----------------------------
(***************************************************************************)
(* The demo programs of src/src that run an evio event loop:               *)
(* listen_socket.cxx, connect.cxx, unix_socket.cxx, pipe.cxx, socket.cxx   *)
(* and filedescriptor.cxx.  In each of them main() creates devices, writes *)
(* to them and calls event_loop.join(), which has to return by itself:     *)
(* decoders close their input, flushed outputs close when they are empty,  *)
(* and the loop ends when no device is active any more.                    *)
(*                                                                         *)
(* One behaviour is one program.  evio, the kernel, the server that        *)
(* socket.cxx talks to and the user of filedescriptor.cxx are external.    *)
(* Bytes are counted; a handler is one step.                               *)
(***************************************************************************)
EXTENDS Naturals, Sequences, SequencesExt, IODevice

CONSTANTS
  Instances, \* the programs and their sizes:
             \*   program  name of the source file
             \*   clients  number of sockets that connect
             \*   burst    bytes of one write_burst()
             \*   lines    lines of an answer, requests, or lines typed
             \*   len      bytes of a line
  Cap        \* bytes that fit in the kernel, per direction

Programs == {"listen_socket", "connect", "unix_socket", "pipe", "socket", "filedescriptor"}

ASSUME EvioProgramsAssumption ==
  /\ Instances \subseteq [program: Programs, clients: Nat \ {0}, burst: Nat \ {0},
                          lines: Nat \ {0}, len: 1 .. Cap]
  /\ Cap \in Nat \ {0}
  /\ \A i \in Instances : i.program \notin {"listen_socket", "socket"} => i.clients = 1

VARIABLES
  inst,      \* the instance that runs
  script,    \* statements that main() still has to execute
  listening, \* the listen socket
  timer,     \* statements that the timer's callback still has to execute
  conn,      \* per client: "none", "connecting", "backlog", "accepted" or "reset"
  told,      \* clients that know that their connection was made, or failed
  side,      \* per client and end: the devices, and bytes
             \*   buf  in the output buffer of this end
             \*   net  sent by this end, and not yet read
             \*   got  received by the decoder of this end (m_received)
  early,     \* clients whose output was closed by a flush with bytes still unsent
  loop       \* the event loop: "blocked" in epoll, "awake" or "ended"

vars == <<inst, script, listening, timer, conn, told, side, early, loop>>

program == inst.program
Clients == 1 .. inst.clients
Ends    == {"client", "server"}
Other(e) == IF e = "client" THEN "server" ELSE "client"

\* An end that is not part of the program.
External(e) == \/ program = "socket" /\ e = "server"
               \/ program = "filedescriptor" /\ e = "client"

Op(op, c) == [op |-> op, client |-> c]

-----------------------------------------------------------------------------
(* The programs.                                                           *)

ForAll(op, n) == [c \in 1 .. n |-> Op(op, c)]

\* Mutant: three bursts are written to every socket.
Listen_socket_main_three_bursts(n) ==
  ForAll("connect", n) \o ForAll("write_burst", n) \o ForAll("write_burst", n) \o
  [k \in 1 .. 2 * n |-> Op(IF k % 2 = 1 THEN "write_burst" ELSE "flush", (k + 1) \div 2)] \o
  <<Op("join", 0)>>

\* main() of listen_socket.cxx.
Listen_socket_main(n) ==
  ForAll("connect", n) \o ForAll("write_burst", n) \o
  [k \in 1 .. 2 * n |-> Op(IF k % 2 = 1 THEN "write_burst" ELSE "flush", (k + 1) \div 2)] \o
  <<Op("join", 0)>>

Connect_main == <<Op("connect", 1), Op("join", 0)>>

\* The line is written to the buffer of a socket that is not connected yet.
Unix_socket_main == <<Op("write_line", 1), Op("connect", 1), Op("flush", 1), Op("join", 0)>>

Pipe_main == <<Op("write_line", 1), Op("flush", 1), Op("join", 0)>>

\* main() of socket.cxx: connect all, all requests round robin, flush all.
Socket_main(n, requests) ==
  ForAll("connect", n) \o [k \in 1 .. n * requests |-> Op("write_request", ((k - 1) % n) + 1)] \o
  ForAll("flush", n) \o <<Op("join", 0)>>

\* The devices of standard input and output are started before the first step.
Filedescriptor_main == <<Op("join", 0)>>

Main(i) ==
  CASE i.program = "listen_socket"  -> Listen_socket_main(i.clients)
    [] i.program = "connect"        -> Connect_main
    [] i.program = "unix_socket"    -> Unix_socket_main
    [] i.program = "pipe"           -> Pipe_main
    [] i.program = "socket"         -> Socket_main(i.clients, i.lines)
    [] i.program = "filedescriptor" -> Filedescriptor_main

End(in, out, buf) == [in |-> in, out |-> out, buf |-> buf, net |-> 0, got |-> 0]

\* The sockets that connect: with a decoder and a source, without a source, and without
\* a decoder, as is the write end of the pipe.
BurstSocket      == End("Removed", "Removed", 0)
Socket_MySocket  == End("Removed", "Removed", 0)
Connect_MySocket == End("Removed", "None", 0)
OutputOnly       == End("None", "Removed", 0)

\* What is typed on standard input.
Typed(i) == End("None", "None", i.lines * i.len)

Client_constructed(i) ==
  CASE i.program = "listen_socket"           -> BurstSocket
    [] i.program = "socket"                  -> Socket_MySocket
    [] i.program = "connect"                 -> Connect_MySocket
    [] i.program \in {"unix_socket", "pipe"} -> OutputOnly
    [] i.program = "filedescriptor"          -> Typed(i)

\* TestInputDevice and TestOutputDevice, started; there is something to write once.
TestDevices == End(Start("Removed"), Start("Removed"), 1)

\* An accepted socket, once it is there; the read end of the pipe; the external server.
Server_constructed(i) ==
  CASE i.program \in {"listen_socket", "connect", "unix_socket"} -> End("Removed", "Removed", 0)
    [] i.program = "pipe"           -> End("Active", "None", 0)
    [] i.program = "filedescriptor" -> TestDevices
    [] i.program = "socket"         -> End("None", "None", 0)

\* Mutant: the event loop is not told that the listen socket was closed.
Listen_socket_timer_no_bump == <<"close", "release_callback">>

\* The lambdas that the timers of listen_socket.cxx and connect.cxx call after ten seconds.
Listen_socket_timer == <<"close", "release_callback", "bump_terminate">>
Connect_timer       == <<"release_callback", "close", "bump_terminate">>

Timer_callback == CASE program = "listen_socket" -> Listen_socket_timer
                    [] program = "connect"       -> Connect_timer
                    [] OTHER                     -> <<>>

Init ==
  /\ inst \in Instances
  /\ script = Main(inst)
  /\ listening = IF program \in {"listen_socket", "connect", "unix_socket"} THEN "Active" ELSE "None"
  /\ timer = Timer_callback
  /\ conn = [c \in Clients |-> IF program \in {"pipe", "filedescriptor"} THEN "accepted" ELSE "none"]
  /\ told = IF program \in {"pipe", "filedescriptor"} THEN Clients ELSE {}
  /\ side = [c \in Clients |-> [e \in Ends |-> IF e = "client" THEN Client_constructed(inst)
                                                               ELSE Server_constructed(inst)]]
  /\ early = {} /\ loop = "blocked"

-----------------------------------------------------------------------------
(* main().  The sleeps between its statements guarantee nothing.           *)

Main_does(op, c) ==
  /\ script # <<>> /\ Head(script) = Op(op, c)
  /\ script' = Tail(script)

\* Connecting a UNIX socket succeeds at once; output that was waiting is started.
Main_connect(c) ==
  /\ Main_does("connect", c)
  /\ IF program = "unix_socket"
     THEN conn' = [conn EXCEPT ![c] = "backlog"] /\ told' = told \cup {c}
     ELSE conn' = [conn EXCEPT ![c] = "connecting"] /\ told' = told
  /\ side' = [side EXCEPT ![c]["client"].in = Start(@),
                          ![c]["client"].out = IF program = "unix_socket" THEN Start(@) ELSE @]
  /\ UNCHANGED <<inst, listening, timer, early, loop>>

\* operator<< ... std::flush.  The flush starts the output device; that may have to
\* wait until the socket is connected.
Main_write(op, c, bytes) ==
  LET s == side[c]["client"]
      started == CASE conn[c] = "none"       -> {s.out}
                   [] conn[c] = "connecting" -> {s.out, Start(s.out)}
                   [] OTHER                  -> {Start(s.out)}
  IN  /\ Main_does(op, c)
      /\ \E out \in started :
           side' = [side EXCEPT ![c]["client"].out = out,
                                ![c]["client"].buf = IF out = "Closed" THEN @ ELSE @ + bytes]
      /\ UNCHANGED <<inst, listening, timer, conn, told, early, loop>>

BurstSocket_write_burst(c) == Main_write("write_burst", c, inst.burst)
Write_hello_world(c) == Main_write("write_line", c, inst.len)
Write_request(c) == Main_write("write_request", c, 1)

Main_flush(c) ==
  LET s == side[c]["client"]
  IN  /\ Main_does("flush", c)
      /\ side' = [side EXCEPT ![c]["client"].out = Flush(@),
                              ![c]["client"].buf = IF Flush(s.out) = "Closed" THEN 0 ELSE @]
      /\ early' = IF Flush(s.out) = "Closed" /\ s.buf > 0 THEN early \cup {c} ELSE early
      /\ UNCHANGED <<inst, listening, timer, conn, told, loop>>

\* event_loop.join(): from now on the loop may end.
Main_join ==
  /\ Main_does("join", 0)
  /\ loop' = "awake"
  /\ UNCHANGED <<inst, listening, timer, conn, told, side, early>>

-----------------------------------------------------------------------------
(* The timer's thread.                                                     *)

Released == ~Contains(timer, "release_callback")

\* The listen socket is closed; connections that were not accepted are reset.
Close_listen(accepted) ==
  /\ listening' = Close(listening)
  /\ conn' = [c \in Clients |-> IF c = accepted THEN "accepted"
                                ELSE IF conn[c] = "backlog" THEN "reset" ELSE conn[c]]

\* close() through a copy of listen_sock that release_callback() destroyed is undefined;
\* the behaviour ends there.
Timer_close ==
  /\ timer # <<>> /\ Head(timer) = "close"
  /\ IF Released
     THEN timer' = <<"dangling">> /\ UNCHANGED <<listening, conn>>
     ELSE timer' = Tail(timer) /\ Close_listen(0)
  /\ UNCHANGED <<inst, script, told, side, early, loop>>

Timer_release_callback ==
  /\ timer # <<>> /\ Head(timer) = "release_callback"
  /\ timer' = Tail(timer)
  /\ UNCHANGED <<inst, script, listening, conn, told, side, early, loop>>

Timer_bump_terminate ==
  /\ timer # <<>> /\ Head(timer) = "bump_terminate"
  /\ timer' = Tail(timer)
  /\ loop' = IF loop = "ended" THEN loop ELSE "awake"
  /\ UNCHANGED <<inst, script, listening, conn, told, side, early>>

\* A timer that did not expire yet is cancelled when the program ends.
Timer == /\ loop = "ended" => timer # Timer_callback
         /\ Timer_close \/ Timer_release_callback \/ Timer_bump_terminate

-----------------------------------------------------------------------------
(* The kernel, the server and the user (external).                         *)

Kernel_connect(c) ==
  /\ conn[c] = "connecting"
  /\ conn' = [conn EXCEPT ![c] = CASE program = "socket"   -> "accepted"
                                   [] listening = "Active" -> "backlog"
                                   [] OTHER                -> "reset"]
  /\ UNCHANGED <<inst, script, listening, timer, told, side, early, loop>>

\* The server answers a request with one line.
Server_replies(c) ==
  /\ program = "socket" /\ side[c]["client"].net > 0
  /\ side[c]["server"].net + inst.len <= Cap
  /\ side' = [side EXCEPT ![c]["client"].net = @ - 1,
                          ![c]["server"].got = @ + 1, ![c]["server"].net = @ + inst.len]
  /\ UNCHANGED <<inst, script, listening, timer, conn, told, early, loop>>

\* The user types the next line, the last of which is "quit".
User_types(c) ==
  /\ program = "filedescriptor" /\ side[c]["client"].buf > 0
  /\ side[c]["client"].net + inst.len <= Cap
  /\ side' = [side EXCEPT ![c]["client"].buf = @ - inst.len, ![c]["client"].net = @ + inst.len]
  /\ UNCHANGED <<inst, script, listening, timer, conn, told, early, loop>>

-----------------------------------------------------------------------------
(* The event loop and the handlers that it calls.                          *)

Handler == loop # "ended" /\ loop' = "awake" /\ UNCHANGED <<inst, script, timer, early>>

\* The descriptor of this end is closed.
FdClosed(c, e) ==
  /\ ~External(e)
  /\ {side[c][e].in, side[c][e].out} \subseteq {"None", "Closed"}

\* The socket is connected: connect.cxx closes it right away, the others start to
\* write what is in the buffer.
Connected(c) ==
  /\ Handler
  /\ c \notin told /\ conn[c] \in {"backlog", "accepted"}
  /\ told' = told \cup {c}
  /\ side' = IF program = "connect"
             THEN [side EXCEPT ![c]["client"].in = Close(@)]
             ELSE [side EXCEPT ![c]["client"].out = IF side[c]["client"].buf > 0 THEN Start(@) ELSE @]
  /\ UNCHANGED <<listening, conn>>

\* The connection was refused or reset.
Connection_failed(c) ==
  /\ Handler
  /\ conn[c] = "reset" /\ (c \notin told \/ ~FdClosed(c, "client"))
  /\ told' = told \cup {c}
  /\ side' = [side EXCEPT ![c]["client"].in = Close(@), ![c]["client"].out = Close(@),
                          ![c]["client"].buf = 0]
  /\ UNCHANGED <<listening, conn>>

\* Mutant: new_connection() flushes before it writes.
Listen_socket_new_connection_flush_first(c) ==
  /\ Handler
  /\ program = "listen_socket" /\ listening = "Active" /\ conn[c] = "backlog"
  /\ conn' = [conn EXCEPT ![c] = "accepted"]
  /\ side' = [side EXCEPT ![c]["server"] = End(Start(@.in), Start(Flush(@.out)), inst.lines * inst.len)]
  /\ UNCHANGED <<listening, told>>

\* listen_socket.cxx: new_connection() writes all lines, and flushes.
Listen_socket_new_connection(c) ==
  /\ Handler
  /\ program = "listen_socket" /\ listening = "Active" /\ conn[c] = "backlog"
  /\ conn' = [conn EXCEPT ![c] = "accepted"]
  /\ side' = [side EXCEPT ![c]["server"] = End(Start(@.in), Flush(Start(@.out)), inst.lines * inst.len)]
  /\ UNCHANGED <<listening, told>>

\* Mutant: new_connection() leaves the listen socket open.
Connect_new_connection_open(c) ==
  /\ Handler
  /\ program = "connect" /\ listening = "Active" /\ conn[c] = "backlog"
  /\ conn' = [conn EXCEPT ![c] = "accepted"]
  /\ side' = [side EXCEPT ![c]["server"].in = Start(@), ![c]["server"].out = Start(@)]
  /\ UNCHANGED <<listening, told>>

\* new_connection() closes the listen socket.
New_connection_closes(c) ==
  /\ Handler
  /\ listening = "Active" /\ conn[c] = "backlog"
  /\ Close_listen(c)
  /\ side' = [side EXCEPT ![c]["server"].in = Start(@), ![c]["server"].out = Start(@)]
  /\ UNCHANGED told

Connect_new_connection(c) == program = "connect" /\ New_connection_closes(c)
Unix_socket_new_connection(c) == program = "unix_socket" /\ New_connection_closes(c)

\* evio writes part of the buffer to the descriptor and stops the device when nothing is
\* left.
Write_to_fd(c, e) ==
  LET s == side[c][e]
  IN  /\ Handler
      /\ program # "filedescriptor"
      /\ IsActive(s.out) /\ conn[c] \in {"backlog", "accepted"}
      /\ e = "client" => c \in told
      /\ \E k \in IF s.buf = 0 THEN {0} ELSE 1 .. s.buf :
           /\ s.net + k <= Cap
           /\ side' = [side EXCEPT ![c][e].buf = @ - k, ![c][e].net = @ + k,
                                   ![c][e].out = IF s.buf = k THEN Stop(@) ELSE @]
      /\ UNCHANGED <<listening, conn, told>>

\* One line is written to standard output, and the device stops itself.
TestOutputDevice_write_to_fd(c) ==
  /\ Handler
  /\ program = "filedescriptor" /\ IsActive(side[c]["server"].out)
  /\ side' = [side EXCEPT ![c]["server"].buf = 0, ![c]["server"].net = 1,
                          ![c]["server"].out = Stop(@)]
  /\ UNCHANGED <<listening, conn, told>>

\* The values of m_received for which decode() is called when the total goes from a to b:
\* the accepted decoder of listen_socket.cxx takes what there is, all others take lines.
Decodes(e, a, b) ==
  IF program = "listen_socket" /\ e = "server" THEN {b}
  ELSE {k \in a + 1 .. b : k % inst.len = 0}

MyAcceptedSocketDecoder_decode(m) == m = 2 * inst.burst

MyDecoder_decode(m) == m = inst.lines * inst.len

\* "Hello world!\n".
Unix_socket_decode(m) == m = inst.len
Pipe_decode(m) == m = inst.len

\* The line that ends in "#5</body></html>\n".
InputPrinter_decode(m) == m = inst.lines * inst.len

Connect_decode(m) == FALSE

\* End e closes its input after the message that ends at m; the last line that the user
\* of filedescriptor.cxx types is "quit".
Closes(e, m) ==
  CASE program = "listen_socket" -> IF e = "server" THEN MyAcceptedSocketDecoder_decode(m)
                                                    ELSE MyDecoder_decode(m)
    [] program = "connect"        -> Connect_decode(m)
    [] program = "unix_socket"    -> Unix_socket_decode(m)
    [] program = "pipe"           -> Pipe_decode(m)
    [] program = "socket"         -> InputPrinter_decode(m)
    [] program = "filedescriptor" -> m = inst.lines * inst.len

\* evio reads part of what arrived and calls decode() for every message in it.
Read_from_fd(c, e) ==
  LET s == side[c][e]
      n == side[c][Other(e)].net
  IN  /\ Handler
      /\ program # "filedescriptor"
      /\ s.in = "Active" /\ conn[c] = "accepted" /\ n > 0
      /\ \E k \in 1 .. n :
           side' = [side EXCEPT
             ![c][Other(e)].net = @ - k,
             ![c][e].got = @ + k,
             ![c][e].in = IF \E m \in Decodes(e, s.got, s.got + k) : Closes(e, m) THEN Close(@) ELSE @]
      /\ UNCHANGED <<listening, conn, told>>

\* A terminal hands out one line per read(), shorter than the buffer.
TestInputDevice_read_from_fd(c) ==
  LET s == side[c]["server"]
  IN  /\ Handler
      /\ program = "filedescriptor" /\ s.in = "Active" /\ side[c]["client"].net > 0
      /\ side' = [side EXCEPT
           ![c]["client"].net = @ - inst.len,
           ![c]["server"].got = @ + inst.len,
           ![c]["server"].in = IF Closes("server", s.got + inst.len) THEN Close(@) ELSE @]
      /\ UNCHANGED <<listening, conn, told>>

\* End of file, or a reset because the other end was closed: the input is closed.
Read_returned_zero(c, e) ==
  /\ Handler
  /\ side[c][e].in = "Active" /\ conn[c] = "accepted"
  /\ side[c][Other(e)].net = 0 /\ FdClosed(c, Other(e))
  /\ side' = [side EXCEPT ![c][e].in = Close(@)]
  /\ UNCHANGED <<listening, conn, told>>

\* Devices that keep the loop running.
AnyActive ==
  \/ IsActive(listening)
  \/ \E c \in Clients : \/ conn[c] # "none" /\ c \notin told
                        \/ \E e \in Ends : IsActive(side[c][e].in) \/ IsActive(side[c][e].out)

\* Before it blocks again the loop tests whether it can end.
Loop_tests ==
  /\ loop = "awake"
  /\ loop' = IF script = <<>> /\ ~AnyActive THEN "ended" ELSE "blocked"
  /\ UNCHANGED <<inst, script, listening, timer, conn, told, side, early>>

-----------------------------------------------------------------------------
Main_step ==
  \/ Main_join
  \/ \E c \in Clients : \/ Main_connect(c) \/ Main_flush(c)
                        \/ BurstSocket_write_burst(c) \/ Write_hello_world(c) \/ Write_request(c)

External_step ==
  \E c \in Clients : Kernel_connect(c) \/ Server_replies(c) \/ User_types(c)

Handler_step ==
  \E c \in Clients :
    \/ Connected(c) \/ Connection_failed(c)
    \/ Listen_socket_new_connection(c) \/ Connect_new_connection(c) \/ Unix_socket_new_connection(c)
    \/ TestOutputDevice_write_to_fd(c) \/ TestInputDevice_read_from_fd(c)
    \/ \E e \in Ends : Write_to_fd(c, e) \/ Read_from_fd(c, e) \/ Read_returned_zero(c, e)

Dangling == timer = <<"dangling">>

\* The server waits for requests that an early flush dropped, and the program for its
\* answers.
Starved == program = "socket" /\ early # {}

\* Steps of the program, its threads and its surroundings; none after a dangling use.
Step(A) == ~Dangling /\ A

Next ==
  \/ Step(Main_step) \/ Step(Timer) \/ Step(External_step)
  \/ Step(Handler_step) \/ Step(Loop_tests)

\* All threads run, connections are made, the server answers and the user types.  The
\* listen socket of listen_socket.cxx stays open until its timer expires.  connect.cxx does
\* not have to wait for its own: it ends before that, or else has to end without it.
Spec ==
  /\ Init /\ [][Next]_vars
  /\ WF_vars(Step(Main_step)) /\ WF_vars(Step(External_step))
  /\ WF_vars(Step(Timer) /\ program = "listen_socket")
  /\ WF_vars(Step(Handler_step)) /\ WF_vars(Step(Loop_tests))

-----------------------------------------------------------------------------
(* Properties.                                                             *)

\* Devices are in states that the tests of evio know, no direction holds more than the
\* kernel takes, and an output that was closed left nothing behind in its buffer.
TypeOK ==
  /\ inst \in Instances
  /\ script \in Seq([op: {"connect", "write_burst", "write_line", "write_request", "flush", "join"},
                     client: 0 .. inst.clients])
  /\ listening \in {"None", "Active", "Closed"}
  /\ timer \in Seq({"close", "release_callback", "bump_terminate", "dangling"})
  /\ conn \in [Clients -> {"none", "connecting", "backlog", "accepted", "reset"}]
  /\ told \subseteq Clients /\ early \subseteq Clients
  /\ side \in [Clients -> [Ends -> [in: DeviceState \ {"Flushing"}, out: DeviceState,
                                    buf: Nat, net: 0 .. Cap, got: Nat]]]
  /\ \A c \in Clients, e \in Ends : side[c][e].out = "Closed" => side[c][e].buf = 0
  /\ loop \in {"blocked", "awake", "ended"}

\* When join() returns nobody was left out: every client was told about its connection
\* (the assert of ~MySocket, connect.cxx:81; it rests on a loop that does not end while a
\* socket is connecting), which was accepted, or lost because the
\* timer came first, and on an accepted one each decoder that waits for the
\* last bytes before it closes got exactly those, with nothing behind them left unread
\* (the tests m_received == 22 and == 10000 of listen_socket.cxx:160 and 170 are never
\* stepped over) - unless main() flushed an output that evio had not started yet.
EverythingExchanged ==
  loop = "ended" =>
    \A c \in Clients :
      /\ c \in told /\ conn[c] \in {"accepted", "reset"}
      /\ conn[c] = "accepted" /\ c \notin early =>
           \A e \in Ends :
             /\ side[c][e].buf = 0
             /\ ~External(e) => side[c][Other(e)].net = 0
             /\ ~External(e) /\ side[c][e].in = "Closed" /\ program # "connect"
                  => Closes(e, side[c][e].got)

\* event_loop.join() returns ("Wind down.", unix_socket.cxx:81): the decoders' tests, the
\* flushes, new_connection() and connected(), and in listen_socket.cxx the timer, together
\* close all that keeps the loop running, and the loop notices it.  connect.cxx does not
\* need its timer for that; if that timer expires first what happens is undefined.  That
\* socket.cxx may flush too early is what the next property is about.
JoinReturns == [](~Dangling /\ ~Starved) => <>(loop = "ended")

\* "Stop when the last message was received." (socket.cxx:122): every socket of socket.cxx
\* receives its last message, after which join() returns.
StopsAfterLastMessage == program = "socket" => <>(loop = "ended")
===============================================================================
