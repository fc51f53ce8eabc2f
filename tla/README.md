# A TLA+ verification of ai-evio-testsuite

The repository tests the C++ library *evio* (asynchronous I/O on top of epoll).
The library itself, and the other submodules (utils, threadsafe, threadpool,
statefultask, cwds), are not part of it. What the repository does contain is a
number of self-contained programs that study the hard parts in isolation (an echo
program on raw epoll, a stepper for a thread that sits in `epoll_wait`, two
algorithms for the GenMC memory-model checker), a pipelining HTML server that the
tests run against, and the tests and demo programs that use evio.

The TLA+ modules follow the first group, the server, and the demo programs: these are
the places where the repository has control logic of its own. Paths below are relative
to the root of the repository.

## Inventory

| Component | State | Operations | What makes it correct |
|---|---|---|---|
| `src/epoll_bug.c` | per socket the watched events; `watched_count`; four byte counters; the batch of events being handled | main loop, `Epoll_add`/`Epoll_remove`, five event handlers | no assert fails; no event for a closed descriptor; every byte makes the round trip; the loop ends |
| `src/epoll_states.cxx` | `m_paused`, `m_state`, `m_last_permutation`, a mutex and a condition variable shared by two threads; an edge-triggered epoll on a pipe or on a socket | `start`, `pause`, `step`, `stop`, `wakeup`, the event loop, add/mod/del, send/read/write/recv/close | no lost wake-up; `step` returns; main and the paused thread alternate; `stop` ends the thread |
| `src/genmc_sll_test.c` | head of a lock-free list, the nodes' `next` | push by compare-and-exchange, take all by exchange, mark, count | no node lost, taken twice or read too early; loops end |
| `src/genmc_reset_algo.c` | `m_resetting`, `m_last_pptr` (atomic), `gptr` | reset and write (producer), detect the reset and read (consumer) | the consumer sees the reset exactly when it uses a pointer from after it |
| `tests/HtmlPipeLineServerFixture.h`, connection | header values of the current request, queue of replies with timers, `m_closed` | `handle_read`, `queue_reply`, `process_replies`, `timed_out` | replies in order and complete; not before their delay; close where asked; nothing kept after the close |
| same file, `parser` and `header` | position in the sequence sought; state, key and value | `feed`, `reset` | match exactly where a request or header line ends |
| same file, `tcp_server` and the fixture | acceptor, `io_context`, thread | `start`, `stop`, `SetUp`, `TearDown` | `TearDown` returns (planned) |
| `src/genmc_buffer_reset_test.c` | put and get area of one block, `m_total_reset` | functions extracted from evio by awk scripts | bytes in order, none overwritten unread; both threads agree on resets and sizes |
| `src/listen_socket.cxx`, `connect.cxx`, `unix_socket.cxx`, `pipe.cxx`, `socket.cxx`, `filedescriptor.cxx` | listen socket, timer, connections, input and output devices with their buffers, `m_received` of the decoders, the event loop | `main()`, `new_connection`, `connected`, `decode`, `read_from_fd`, `write_to_fd`, the timer's callback | `event_loop.join()` returns; nothing is lost on the way; every client is told |
| `tests/test_IODevice.h` and the other device tests | flags of evio devices | start, stop, flush, close, ... | the code under test is not here; the states that the tests expect are the contract of the devices above |
| `tests/test_StreamBuf.h`, `src/buffer_test.cxx` | reader and writer thread around `evio::StreamBuf` | `write_thread`, `read_thread` | everything written is read (not modelled) |
| `src/tls_socket.cxx`, `src/socket_fd.cxx`, `tests/switch_protocol_decoder.h` | small finders, read/write helpers, a switch of decoders | | not modelled |
| `src/signals_test.cxx`, `ofstream_data_test.cxx` and address/size tests | none of their own | | not modelled |

The hard behaviours are: batches of events whose handlers change what the rest of the
batch refers to; two threads on one condition variable and a signal that can be lost;
stale loads and reordered stores; completion handlers that run after the object they
belong to was closed or destroyed; requests and answers cut at any place; connections
that are made later than main() expects, or not at all; an event loop that must notice
that nothing is left to wait for. `PROJECT.json` lists each
of them at its line, with the property that covers it or the reason why none does.

The components do not share state: every program is a process of its own, and the
server is used by tests through a TCP connection only. The demo programs share evio,
and so one module.

## Modules

| Module | Models |
|---|---|
| `EchoPipe` | abstract specification: bytes pass four stages, none overtakes the one before it, completion after the last byte |
| `EpollBug` | `src/epoll_bug.c`, and the kernel's sockets (external) |
| `EpollBugProofs` | theorems about `EpollBug` |
| `EpollStates`, `EpollStatesProofs` | `src/epoll_states.cxx` and theorems about it |
| `SllTest`, `SllTestProofs` | `src/genmc_sll_test.c` and theorems about it |
| `ResetAlgo`, `ResetAlgoProofs` | `src/genmc_reset_algo.c` and theorems about it |
| `BufferReset`, `BufferResetProofs` | `src/genmc_buffer_reset_test.c` and theorems about it; the functions extracted from evio are external |
| `HtmlServer`, `HtmlServerProofs` | one `tcp_connection` with its `Reply`s, and theorems about it; the client and boost::asio are external |
| `HtmlParser`, `HtmlParserProofs` | `parser` and `header`, and theorems about them |
| `IODevice` | operators: the states of an evio device that the DeviceStates tests of `tests/test_IODevice.h` expect |
| `EvioPrograms`, `EvioProgramsProofs` | the six demo programs on evio, and theorems about them; evio itself, the kernel, the server of `socket.cxx` and the user of `filedescriptor.cxx` are external |
| `MC...` | constants for TLC |

Definitions that are introduced with "Mutant:" are plausible mistakes in the code. They
are not part of any specification; each replaces one definition to confirm that a
property notices it.

### EpollBug

One thread. `pc` says whether it is in `epoll_wait`, between two events of a batch
(`dispatch`), inside a handler, or removing an event because a handler returned false.
Each `read` and `write` of a handler's loop is a step, so that the network can deliver
data between them. `batch` is the array that `epoll_wait` filled: the handlers act on
these events although `watched` may have changed since. The kernel has a send and a
receive queue per direction; a write may be short, a client that closes with data still
under way resets the connection, and level-triggered readiness is computed from the
queues. Bytes are only counted, because the program does not look at them.

`network` is chosen at the start and says whether behaviour that is possible but rare may
occur: `slow` (waits of more than a second, after which the main loop gives up even with
events in hand) and `refuses` (a write that fails on a socket reported writable).

### EpollStates

`mpc` and `tpc` are the program counters of main and of the second thread. A critical
section is one step; the write of `m_state` before the mutex is taken and the reads of
the flags are steps of their own. `waiting` is the set of threads blocked on the
condition variable; waking up and testing the predicate again is a step. A signal only
interrupts a thread that is blocked in `epoll_wait`; one that arrives just before it
enters is lost. The watched descriptor is the read end of a pipe (`PipeReadEnd`) or a
connected socket (`Socket`); both are there from the start, and `device` says which one
the program has. `edge` says that the kernel put the descriptor on epoll's list of ready
ones; `epoll_wait` tests what is really there (`Reports`) before it returns it, as the
kernel does. A socket that is closed with unread data, or written to after its other end
was closed, is `reset`: that wakes up epoll whatever it watches for, and makes the next
`write` assert. `Scripts` and `SocketScripts` are the sequences of calls that main may
make: those of the real `main()` and, for the passing run, all short ones and some that
fill and empty the socket. A condition variable that wakes up spuriously is not modelled: both waits
test their predicate again, so that it makes no difference.

### SllTest and ResetAlgo

Both programs are about the C11 memory model, and only the part of it that they depend
on is kept. In `SllTest` a relaxed load returns any value that the variable had; the
read-modify-write operations act on the latest one; and a thread may only touch a node
that it acquired through the release sequence. In `ResetAlgo` every store has a
timestamp, its place in the modification order, and the consumer has a view per
location: a load returns any store at or after the view, and an acquire load of a
release store joins the view of the storing thread. The consumer's store to
`m_resetting` may be placed before the producer's if it has not seen that one. No
thread loads what depends on its own later store, so no out-of-thin-air behaviour is
left out. The stores after the reset (2 and 8 in the program) are a constant.

### BufferReset

The sizes that are literals in the test (the block, the two bursts, the calls of
`my_xsgetn_a`) are constants of the module. There are two bursts, as in the test: what
evio's functions do is only known for one reset, and a second one needs a third burst. Every
byte that is written or copied is a step, and so are the stores that make them known: `sync_egptr`,
`store_last_gptr` and the increment of `m_total_read`. The functions of evio that the
test includes are not in the repository. `update_put_area` resets the block if the gptr
that it loads (any store at or after the last one it loaded) is its own pptr.
`update_get_area` loads pptr in the same way and handles the reset exactly if that pptr
is from after it, which is what `ResetDetected` proves of the algorithm; the detection is
therefore one step. A reset that was noticed by its pptr alone leaves open which store to
`m_resetting` is the last one, and may be handled a second time. Loads of pptr are taken
to acquire the bytes before them. The module shows that the asserts of the test follow
from this contract; it says nothing about evio's code beyond it.

### HtmlServer and HtmlParser

`HtmlServer` takes the stream of characters as a stream of the headers that the server
acts on; `HtmlParser` is about how they are found. A read completes with any part of
what the client sent; its handler then processes it header by header, while timers go
on to expire. A completed operation is not the same as its handler being called: between
the two the connection may be closed and replies destroyed, which turns a running timer
into an aborted one but leaves an expired one as it is. If the handler of an expired
timer finds its reply gone, the behaviour is undefined and the model stops
(`dangling`). `r.must_close()` on line 374, after `pop_front()`, is taken to give the
value that was there. `async_write` is one step.

### EvioPrograms and IODevice

A behaviour is one of the programs. `script` is what main() still has to do, `timer` what
the callback of the timer still has to do in a thread of its own, `side` has both ends of
every connection: the states of the input and of the output device, bytes in the output
buffer (`buf`), bytes sent and not yet read (`net`) and bytes decoded (`got`, the
`m_received` of the decoders). Each handler that the event loop calls is a step.

evio is not in the repository. What the module relies on is what the repository says
about it:

* the states of a device, and what start, stop, flush and close do in each of them: the
  DeviceStates tests (`IODevice`). In particular a flush of a device that is not active
  closes it at once, and one that is active when its buffer is empty;
* `std::flush` and `std::endl` start the output device (`src/listen_socket.cxx:79-80`),
  which has to wait until the socket is connected (`src/unix_socket.cxx:73-75`);
* a decoder without a message finder of its own gets whole lines
  (`src/unix_socket.cxx:16`);
* a connection that is closed makes the input device of the other end close
  (`src/connect.cxx:71-72`);
* the loop ends when there is no active device left (`src/filedescriptor.cxx:110`), and
  has to be told when another thread than its own closed the last one (`bump_terminate`).

The sleeps in the programs guarantee nothing: the model lets main() overtake the
connection it is waiting for. `early` are the sockets whose output was closed by a flush
that came too early, with bytes in the buffer. In `socket.cxx`, that flushes right after
`connect()`, this leaves the server waiting for requests, and the program for answers
(`Starved`; the run `evio_programs_flush`). The timer of `connect.cxx` uses its captured
pointer after `release_callback()` destroyed it, which is undefined; the behaviour ends
there (`Dangling`; lines 111-112, `src/listen_socket.cxx:113-114` has the two calls in the
other order and says why). This takes a timer that expires before a connection was
accepted. A socket that is connecting keeps the
loop running (`AnyActive`): that every client is told about its connection before `join()`
returns rests on this assumption about evio. The end of file is seen when all devices of the other end are closed; no
half-closed connections are assumed. A terminal hands out one line per `read()`.

## Runs

| Run | Question and bounds |
|---|---|
| `epoll_bug` | all safety properties, the refinement of `EchoPipe`, and that the echo completes unless the network is slow or refuses writes, which the program answers by giving up. A burst of 4 bytes against queues of 2, reads of 2 and writes of different lengths, with and without a slow network and refused writes: bursts do not fit in the queues, writes are short, the echo overlaps the burst. |
| `epoll_states` | hand-over, `step` returns, join after leaving the loop; for `main()` and all programs of up to three calls after the first, on a pipe and on a socket, and longer ones that fill and empty the socket. Two steps in a row, with and without an event, need two calls. |
| `epoll_states_stop` | expected violation: the comment "Wake up the thread and let it exit." (`src/epoll_states.cxx:158`). |
| `sll_test` | the asserts, data races, exclusive ownership and termination, with the three producers and two consumers of the program. |
| `reset_algo` | the reset is detected, and the data size is right. Four stores after the reset, one of them equal to the old value. |
| `buffer_reset` | the asserts of the test, and that no unread byte is overwritten; the test's own block, bursts (2 and 1 bytes) and reads (of 2 and 1), all interleavings. |
| `html_server` | order, delay, closing, answers and release; three requests of five kinds: enough for a reply before and one after a sleeping or closing one. |
| `html_server_timer` | expected violation: the handler of an expired timer finds its reply (`tests/HtmlPipeLineServerFixture.h:137-138`). |
| `html_parser` | both matchers against definitions on the whole input, for all inputs of up to 7 characters; a header with an error needs 6. |
| `evio_programs` | nobody was left out when `join()` returns, and it does return, unless `socket.cxx` flushed too early (the next run) or the timer of `connect.cxx` did expire in the middle (undefined). `connect.cxx` has to end without its timer: it may expire, but is not fair. Every program, with two clients and short messages (clients that overtake each other, a timer between two accepts) and with one client and messages of two or three bytes (reads and writes that cut them); the kernel takes 3 bytes per direction, less than an answer, so that writes are partial. |
| `evio_programs_flush` | expected violation: "Stop when the last message was received." (`src/socket.cxx:122`); `socket.cxx` with two clients, everything else fair. |
| `html_parser_eom` | expected violation: "Send reply every time we received the sequence" (`tests/HtmlPipeLineServerFixture.h:251`). |

Deadlock is checked in `epoll_bug`, `sll_test`, `reset_algo` and
`buffer_reset`. The
others may stop: an idle connection, the end of the bounded input, `join()` waiting for
a thread that waits, which is what `epoll_states_stop` is about, and a demo program that
ended, that hangs as `evio_programs_flush` shows, or that is `Dangling`; `JoinReturns` says
that there is no other way for these to stop.

### What the violated properties show

* `stop()` (`src/epoll_states.cxx:151-165`) notifies once and signals once. If the
  thread is not blocked in `epoll_wait` when the signal arrives, and no event comes, it
  stays in the inner loop, that does not test `m_last_permutation`. If it tested the
  flag just before it was set, it waits in `pause()` for a second notify. Either way
  `join()` does not return.
* `Reply::timed_out` is bound to a raw pointer. A timer that expired, and whose handler
  is queued behind one that clears the queue of replies, runs for a destroyed reply.
* `parser::feed` drops the character on which a partial match fails, so that CR CR LF CR
  LF is not seen as the end of a request. The tests never send it.
* `socket.cxx` flushes its outputs right after `connect()` (line 108). An output whose
  connection is not made yet is closed with the requests in its buffer, as
  `src/unix_socket.cxx:73-75` warns; the last message, and with it the end of `join()`,
  never comes.

### Fairness

* `EpollBug`: the thread runs, and TCP delivers what it accepted. Fairness of
  `Epoll_wait_gives_up` is the 1100 ms timeout of line 189.
* `EpollStates`: the operating system schedules both threads.
* `SllTest`: threads run. Strong fairness of the successful compare-and-exchange, and of
  a failing one loading the current value, say that stores become visible in finite time
  and that the weak form does not fail for ever; C11 asks implementations for both.
* `HtmlServer`: the thread in `io_context::run()` calls queued handlers, data arrives,
  timers expire. The client need not do anything.
* `EvioPrograms`: main(), the timer's thread and the event loop run, connections are made
  or refused, the server answers the requests that reach it, the user types. The timer of
  `listen_socket.cxx` expires unless the program ends first: its listen socket stays open
  until then. The timer of `connect.cxx` may expire at any time, but is not fair, so that
  `JoinReturns` cannot rely on it: there the client's connection closes everything.

## Proofs

All theorems hold for every value of the constants under the named assumptions of the
modules (sizes are positive, thread sets are finite, marks are distinct, programs are
sequences of the calls that there are, the two bursts of `BufferReset` fit in its block).

`EpollBugProofs`. The inductive invariant `IInv` strengthens the properties with what
ties them together: the byte queues account exactly for the differences between
successive counters (bytes are conserved), what is watched determines which descriptors
are open, the rest of a batch only mentions events that are still watched unless the
handler running just now is about to remove them, and EPOLLOUT of the client together
with `trlen1 - twlen2` tells whether the echo is in progress. Without the conservation of
bytes "the client closes last" is not inductive, and without it neither is the absence
of resets on which the assert of line 228 rests. From `IInv` follow `TypeCorrect`,
`AssertsHold`, `CountIsExact`, `NoStaleEvents`, `ClientClosesAfterEcho`,
`FinishedAfterEcho`, and `BacklogBounded`, that assumes that the burst is not larger than
the buffer. `EchoIsResumed` (EPOLLOUT is watched exactly while there is a backlog) excepts
a network that refuses writes on a writable socket, since the program then stops watching
(line 372). `EchoInv` adds for it that a backlog is either watched for, or was noticed by the
read handler that is still running and found the buffer empty on entry, and that the client
is never asked to write into a full send queue: only its own handler fills the queue, and
a batch has that event at most once. `Refinement` shows that every step is a step of `EchoPipe` or leaves its
variables alone.

`EpollStatesProofs`. `HInv` adds two facts to the types and the two properties of the
hand-over: a thread that is in `pause()` while `m_paused` is set was not notified since
(`NotifiedMeansReset`), and before `start()` nobody sets `m_paused` (`NotStarted`).
`TypeOK` says where a sleeping thread can be; from that follows that there is at most one
thread to wake up, the other one, whenever `notify_one` is called, which is why one
condition variable is enough. It gives `TypeCorrect`, `NoLostWakeUp` and
`ControlIsExclusive` for every sequence of calls that main may make. The calls that only
touch epoll and the descriptor are proved apart (`DataCalls...`).

`SllTestProofs`. `SInv` says where each node is (with its producer, in the list, with a
consumer, with nobody), that list and heads only point to nodes of the right owner, and
that the successor of a node in the list is in the list too or is null. It gives
`TypeCorrect`, `RaceFree` and `Exclusive` for any number of threads. For the final count
that is not enough: a ring of nodes beside the list would satisfy it. `CountInv` says that
what the list or a consumer holds is a chain `f[1], ..., f[n]` that begins at the head, for
some `n` and `f`. No induction along the list is needed, since every step puts one node in
front of a chain, takes the first one off, or hands over a whole chain. While main counts,
`count` nodes of the chain were passed; at its end the nodes in the list (as many as the
chain is long) and the deleted ones are all nodes, which gives `NothingLost`: both asserts
hold for any number of producers and consumers.

`ResetAlgoProofs`. `RInv` relates the two views (seeing the flag means seeing the store
of 0; seeing a later pointer means seeing the flag) and says what the consumer knows at
each statement; in particular a reset that was only seen as a null pointer has
`cur_pptr = 0`, which is why the order of the two stores to `m_resetting` does not
matter. It gives `TypeCorrect`, `ResetDetected` and `DataSizeCorrect` for every sequence
of stores.

`HtmlServerProofs`. The stream that the client sends is cut in arbitrary chunks, and
replies leave when timers allow. `IndInv` has two halves. `StreamInv` relates what the server
did not read yet to the requests that were sent: there is a `cut` that says for every
request where it ends in the stream of headers, such that what is left of the stream and
of the chunk in hand is the rest from the current position on, and the fields of the
request that is being read are those that its headers before that position set.
`RepliesInv(q, timers, n)` relates the queue, the timers and what was written; queue, timers
and number are parameters because `process_replies` is called in the middle of two
handlers, after the queue or a timer changed. `ProcessCases` says what one call of
`process_replies` does (it writes the replies in front of the first one that sleeps, up to
the first that must close), and `ProcessKeepsReplies` that it keeps `RepliesInv`. The result is
`TypeCorrect`, `RepliesInOrder`, `TimeoutsRespected`, `MustCloseRespected` and the action
property `ClosedIsSilent`, for every set of requests, any number of them and any order of
expiring timers.

`HtmlParserProofs`. The invariant of the parser says that the last `m_ptr` characters are the
first `m_ptr` of the sequence sought. That of the header (`LineInv`) says for each of its
states where in the current line the first colon, the first space behind it and the first
CR behind that are, that `m_error` is set exactly if one of the latter two is not where a
header has it, and which parts of the line `m_key` and `m_value` are. There is one lemma per
state of the machine (`FeedBegin`, `FeedKey`, ...). `HeaderOfLine` relates these positions to
the definition of a header in `HeaderMatchesLine`. The result is `TypeCorrect`, `MatchIsEom`
and `HeaderIsLine`, for lines and requests of any length.

`EvioProgramsProofs`. `IndInv` follows the bytes of each connection. `Forward`: what main()
wrote to a client so far is in the buffer of that client, on its way, or received by the
server. `Backward`: the lines that `listen_socket.cxx` answers with are all accounted for
from the accept on, and `socket.cxx` received or will receive a line for every request that
reached the server. How much main() wrote is a function of its position in the program
(`Written`), which needs that the requests of `socket.cxx`, given out round robin, are
shared evenly (`RoundRobin`), and what each statement of each main() is (`ListenMain`,
`SocketMain`, `OtherMains`); `ScriptInv` says that main() executes them in order. The parts
`Connecting`, `ClientDevices` and `ServerDevices` relate the states of the devices to that
of the connection and to the position of main(): an output that is flushing or closed was
flushed, a server that is there was accepted. `Closing`: who closed its input received
everything, which rests on all the others, because an end of file means that the other end
was closed, hence flushed, hence empty. `ListenInv` is why no connection stays in the backlog
of a listen socket that was closed, and `Ended` why nothing is active when the loop ended.
The invariant is stated for one connection as a formula over its own state (`LinkOf`), so
that there is one lemma per operation about a single connection (`LinkWrite`,
`LinkServerReads`, ...) and one about the others keeping theirs (`LinksAfter`). The result is
`TypeCorrect` and `EverythingArrives` (`EverythingExchanged`), for every number of clients and
requests, every size of the messages, and any size of the kernel's buffers that takes a line.
The early flushes and the connections that were reset by the timer are part of it, as the
exceptions that `EverythingExchanged` makes for them. TLC checked `IndInv` on the instances of
the run `evio_programs` before it was proved.

`BufferResetProofs`. That bytes are read in order is not inductive: it depends on what the
buffer holds, where gptr is, and which stores to `m_last_pptr` the consumer may still load.
`IndInv` says all of that as a function of a few variables. `ProducerInv`: the statement of the
producer and `m_total_reset` determine pptr. `PptrInv`: they determine every store to
`m_last_pptr` (`Store`), of which there are at most four. `BufferInv`: what was written since
the reset is in the buffer. `ConsumerInv`: the consumer handled the reset exactly if the
pptr that it knows is from after it, and then gptr is what it read less the first burst.
`GptrInv` bounds what the producer may load as gptr by the bytes read; with the bound on
egptr it gives `ResetOnlyWhenRead`: at a reset the consumer has read the first burst to its
end and is not copying. `PendingInv` keeps that until the consumer sees the reset, so that the
producer overwrites nothing that will still be read. `ResettingInv` is needed for a
reset that is handled twice: then the consumer knows the store of `block_start` and no later
one, so that nothing of the new burst was read and resetting gptr again loses nothing. The
result is `TypeCorrect`, `BytesInOrder`, `NothingOverwritten` and `FinalAgreement`, for every
block that both bursts fit in, every two bursts, and any number of calls of any
(positive) size. `FirstCall` assumes that the first call asks for exactly the first burst, as
the comment above the asserts does ("reads zero or two characters"): one that asks for less
leaves a part of it, and one that asks for more may get bytes of the second burst too. TLC checked `IndInv` and `FirstInv` on five instances
with blocks of 4 to 7 bytes and up to six calls before they were proved.

Only model-checked: all liveness properties, `JoinReturns` included, since they need fairness;
every invariant of a passing run is also proved.
`FinishedMeansEchoed` is only proved: for TLC it is part of `ImplementsPipe`.

## Not modelled

* evio and the other submodules: not in the repository. Tests of their classes (devices,
  stream buffers, decoders, reference counts) have no behaviour without them; what two of
  them say about devices and about the reset of a buffer is used as a contract by
  `EvioPrograms` and `BufferReset`.
* `src/socket_fd.cxx` and `src/tls_socket.cxx`. Both override what evio calls with code
  that depends on more of evio than the repository tells (which memory precedes the block
  that a message finder gets, what a close from inside `read_from_fd` does), and neither
  promises anything about the cases listed as hazards.
* `tcp_server` and `SetUp`/`TearDown` of the HTML fixture.
* `src/signals_test.cxx`, `src/ofstream_data_test.cxx`: what they show is printed by the
  submodules.
* All printing, and the mutex that orders output in `src/epoll_states.cxx`.
* `epoll_wait` failing in `src/epoll_bug.c` (no signal handlers there).
* Partial asynchronous writes in the HTML server.
* End of file on the standard input of `src/filedescriptor.cxx`, and the `OutputStream`s of
  `src/socket.cxx` that are destroyed before `join()`.
* Tests of addresses, sizes and host entries: no state.

## Plan

Done in this order: `EchoPipe`, `EpollBug` with its proofs, `SllTest`, `EpollStates`,
`ResetAlgo`, `HtmlServer`, `HtmlParser`, `BufferReset`, the class `Socket` in
`EpollStates`, `IODevice` and `EvioPrograms`, the proofs about `EpollStates`, `HtmlServer`
and `HtmlParser`, those about the asserts of `SllTest`, those about `EvioPrograms`, and those about
`BufferReset`, whose sizes became constants for that.

Next:

1. `HtmlFixture`: `tcp_server` and the fixture's `SetUp`/`TearDown` (a `stop()` that comes
   before `restart()`, accepting again after an error).
2. The reader and writer threads of `tests/test_StreamBuf.h` and `src/buffer_test.cxx`.
