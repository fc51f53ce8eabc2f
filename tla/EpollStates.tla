------------------------------ MODULE EpollStates ------------------------------
(***************************************************************************)
(* src/src/epoll_states.cxx: a main thread drives a second thread, that    *)
(* calls epoll_wait, step by step.  The two hand over control through the  *)
(* boolean m_paused, one mutex and one condition variable                  *)
(* (thread_permuter::Thread); EpollThread::stop ends the second thread     *)
(* with a flag and a signal.                                               *)
(*                                                                         *)
(* m_paused is only touched under m_paused_mutex, so each critical section *)
(* is one step; everything outside the mutex is a step of its own.         *)
(* Output to cout, and the mutex that orders it, are left out.             *)
(***************************************************************************)
EXTENDS Naturals, Integers, Sequences

CONSTANTS
  Scripts,   \* the sequences of calls that a main() with a PipeReadEnd may make
  SocketScripts,  \* the same, of a main() with a Socket
  PipeCap,   \* capacity of the pipe, and of the socket in each direction
  Chunk      \* size of one send(), write(), read() and recv()

Calls == {"add_fd_with_events", "mod_fd", "del_fd", "send", "close_send", "read",
          "enter_epoll_wait", "wait_for_returned_from_epoll_wait", "exit_epoll_wait"}
SocketCalls == Calls \cup {"write", "recv"}

ASSUME EpollStatesAssumption ==
  /\ Scripts \subseteq Seq(Calls) /\ SocketScripts \subseteq Seq(SocketCalls)
  /\ PipeCap \in Nat \ {0}
  /\ Chunk \in Nat \ {0}

VARIABLES
  mpc,       \* main: "start", "start_wait", "script", "step", "step_wait",
             \*   "stop_notify", "stop_wakeup", "join", "done" or "abort"
  script,    \* calls that main still has to make
  tpc,       \* thread: "none", "set_state", "lock", "cv", "loop_head", "inner",
             \*   "epoll_wait", "returned", "returned2" or "exited"
  call,      \* the thread's pause(): its arguments and where it returns to
  timeout,   \* event_loop's local: 1 or -1
  m_state, m_paused, m_last_permutation, m_wait_for_returned,
  waiting,   \* threads blocked on m_paused_condition
  \* Epoll, PipeReadEnd or Socket, and the kernel's part of them.
  m_added, m_mask,
  edge,      \* the watched descriptor is in epoll's list of ready descriptors
  device,    \* the class whose descriptor is watched: "pipe" or "socket"
  m_sent, m_read,
  w_open,    \* the descriptor that send() writes to is open
  m_written, m_received,
  reset      \* the connection was reset: its other end was closed with unread data

syncVars  == <<m_state, m_paused, m_last_permutation, m_wait_for_returned, waiting>>
epollVars == <<m_added, m_mask, edge>>
sockVars  == <<m_written, m_received, reset>>
pipeVars  == <<device, m_sent, m_read, w_open, sockVars>>
vars == <<mpc, script, tpc, call, timeout, syncVars, epollVars, pipeVars>>

MainPC   == {"start", "start_wait", "script", "step", "step_wait",
             "stop_notify", "stop_wakeup", "join", "done", "abort"}
ThreadPC == {"none", "set_state", "lock", "cv", "loop_head", "inner", "epoll_wait",
             "returned", "returned2", "exited"}
Masks    == {"none", "IN", "OUT"}

Pause(state, no_wait, ret) == [state |-> state, no_wait |-> no_wait, ret |-> ret]

InPipe   == m_sent - m_read
Upstream == m_written - m_received
Readable == InPipe > 0 \/ ~w_open
Writable == device = "socket" /\ Upstream < PipeCap
HangUp   == (device = "pipe" /\ ~w_open) \/ reset

\* What the kernel reports of the watched descriptor, if that is watched for mask.
Reports(mask) == (mask = "IN" /\ Readable) \/ (mask = "OUT" /\ Writable) \/ HangUp

\* Every call of pause() returns to a point of run() or event_loop(), every
\* thread asleep on the condition variable is inside step(), start() or pause(),
\* and the byte counters of pipe and socket never pass their capacity.
TypeOK ==
  /\ mpc \in MainPC
  /\ script \in Seq(SocketCalls)
  /\ tpc \in ThreadPC
  /\ call \in [state: {"yielding", "blocking"}, no_wait: BOOLEAN,
               ret: {"loop_head", "epoll_wait", "returned2"}]
  /\ timeout \in {1, -1}
  /\ m_state \in {"yielding", "blocking"}
  /\ m_paused \in BOOLEAN /\ m_last_permutation \in BOOLEAN /\ m_wait_for_returned \in BOOLEAN
  /\ waiting \subseteq {"main", "thread"}
  /\ "main" \in waiting => mpc \in {"start_wait", "step_wait"}
  /\ "thread" \in waiting => tpc = "cv"
  /\ m_added \in BOOLEAN /\ m_mask \in Masks /\ edge \in BOOLEAN
  /\ m_sent \in Nat /\ m_read \in Nat /\ w_open \in BOOLEAN
  /\ device \in {"pipe", "socket"} /\ m_written \in Nat /\ m_received \in Nat /\ reset \in BOOLEAN
  /\ InPipe \in 0 .. PipeCap /\ Upstream \in 0 .. PipeCap

\* The constructors of PipeReadEnd and of Socket: an empty pipe, or two empty
\* directions of a connection that was accepted.
Device_constructed ==
  /\ m_sent = 0 /\ m_read = 0 /\ w_open = TRUE
  /\ m_written = 0 /\ m_received = 0 /\ reset = FALSE

Init ==
  /\ mpc = "start"
  /\ \/ device = "pipe"   /\ script \in Scripts
     \/ device = "socket" /\ script \in SocketScripts
  /\ tpc = "none" /\ call = Pause("yielding", FALSE, "loop_head") /\ timeout = 1
  /\ m_state = "yielding" /\ m_paused = FALSE
  /\ m_last_permutation = FALSE /\ m_wait_for_returned = FALSE
  /\ waiting = {}
  /\ m_added = FALSE /\ m_mask = "none" /\ edge = FALSE
  /\ Device_constructed

-----------------------------------------------------------------------------
(* The condition variable (external).                                      *)

\* notify_one(), followed by `self' going to sleep if it waits for a condition
\* that is not true yet.
NotifyOne(self, sleeps) ==
  LET asleep(s) == IF sleeps THEN s \cup {self} ELSE s
  IN  IF waiting = {} THEN waiting' = asleep({})
      ELSE \E w \in waiting : waiting' = asleep(waiting \ {w})

\* pthread_kill: the handler does nothing, but a thread blocked in epoll_wait
\* returns from it with EINTR.  Anywhere else, also just before the thread enters
\* epoll_wait, the signal leaves no trace.
Signal == tpc' \in IF tpc = "epoll_wait" THEN {"loop_head", tpc} ELSE {tpc}

-----------------------------------------------------------------------------
(* The second thread.                                                      *)

\* pause(): m_state is written before the mutex is taken.
Pause_set_state ==
  /\ tpc = "set_state"
  /\ m_state' = call.state
  /\ tpc' = "lock"
  /\ UNCHANGED <<mpc, script, call, timeout, m_paused, m_last_permutation,
                 m_wait_for_returned, waiting, epollVars, pipeVars>>

\* Mutant: main is not woken up.
Pause_lock_no_notify ==
  /\ tpc = "lock"
  /\ m_paused' = TRUE
  /\ waiting' = IF call.no_wait THEN waiting ELSE waiting \cup {"thread"}
  /\ tpc' = IF call.no_wait THEN call.ret ELSE "cv"
  /\ UNCHANGED <<mpc, script, call, timeout, m_state, m_last_permutation,
                 m_wait_for_returned, epollVars, pipeVars>>

\* pause(): the critical section.
Pause_lock ==
  /\ tpc = "lock"
  /\ m_paused' = TRUE
  /\ NotifyOne("thread", ~call.no_wait)
  /\ tpc' = IF call.no_wait THEN call.ret ELSE "cv"
  /\ UNCHANGED <<mpc, script, call, timeout, m_state, m_last_permutation,
                 m_wait_for_returned, epollVars, pipeVars>>

\* pause(): woken up; the predicate of wait() is tested again.
Pause_woken ==
  /\ tpc = "cv" /\ "thread" \notin waiting
  /\ IF m_paused THEN waiting' = waiting \cup {"thread"} /\ tpc' = tpc
                 ELSE waiting' = waiting /\ tpc' = call.ret
  /\ UNCHANGED <<mpc, script, call, timeout, m_state, m_paused, m_last_permutation,
                 m_wait_for_returned, epollVars, pipeVars>>

Thread_calls(c) == tpc' = "set_state" /\ call' = c

\* Mutant: the flag that ends the loop is not looked at.
Event_loop_head_forever ==
  /\ tpc = "loop_head"
  /\ timeout' = 1 /\ tpc' = "inner"
  /\ UNCHANGED <<mpc, script, call, syncVars, epollVars, pipeVars>>

\* while (!m_last_permutation)
Event_loop_head ==
  /\ tpc = "loop_head"
  /\ IF m_last_permutation THEN tpc' = "exited" /\ timeout' = timeout
                           ELSE tpc' = "inner" /\ timeout' = 1
  /\ UNCHANGED <<mpc, script, call, syncVars, epollVars, pipeVars>>

\* Mutant: an epoll_wait without events is no check point.
Event_loop_inner_no_pause ==
  /\ tpc = "inner"
  /\ timeout' = 1
  /\ tpc' = "epoll_wait"
  /\ UNCHANGED <<mpc, script, call, syncVars, epollVars, pipeVars>>

\* The top of the do-while loop.
Event_loop_inner ==
  /\ tpc = "inner"
  /\ timeout' = 1
  /\ IF timeout = -1 THEN Thread_calls(Pause("blocking", TRUE, "epoll_wait"))
                     ELSE tpc' = "epoll_wait" /\ call' = call
  /\ UNCHANGED <<mpc, script, syncVars, epollVars, pipeVars>>

\* epoll_wait takes the descriptor from the list of ready ones and returns its event
\* if that is still there, or else returns 0 after a millisecond.
Event_loop_epoll_wait ==
  /\ tpc = "epoll_wait"
  /\ IF edge /\ Reports(m_mask) THEN tpc' = "returned" /\ timeout' = timeout
             ELSE tpc' = "inner" /\ timeout' = -1
  /\ edge' = FALSE
  /\ UNCHANGED <<mpc, script, call, syncVars, m_added, m_mask, pipeVars>>

\* After the do-while loop, with an event.
Event_loop_returned ==
  /\ tpc = "returned"
  /\ IF m_last_permutation THEN tpc' = "loop_head" /\ call' = call
                           ELSE Thread_calls(Pause("yielding", FALSE, "returned2"))
  /\ UNCHANGED <<mpc, script, timeout, syncVars, epollVars, pipeVars>>

Event_loop_returned2 ==
  /\ tpc = "returned2"
  /\ IF m_wait_for_returned THEN Thread_calls(Pause("yielding", FALSE, "loop_head"))
                            ELSE tpc' = "loop_head" /\ call' = call
  /\ UNCHANGED <<mpc, script, timeout, syncVars, epollVars, pipeVars>>

-----------------------------------------------------------------------------
(* The main thread.                                                        *)

\* start(): create the thread and wait until it paused; run() begins with
\* pause(yielding).
Start ==
  /\ mpc = "start"
  /\ tpc' = "set_state" /\ call' = Pause("yielding", FALSE, "loop_head")
  /\ mpc' = "start_wait"
  /\ waiting' = waiting \cup {"main"}
  /\ UNCHANGED <<script, timeout, m_state, m_paused, m_last_permutation,
                 m_wait_for_returned, epollVars, pipeVars>>

\* Mutant: step() does not reset m_paused.
Step_no_reset ==
  /\ mpc = "step"
  /\ NotifyOne("main", ~m_paused)
  /\ mpc' = "step_wait"
  /\ UNCHANGED <<script, tpc, call, timeout, m_state, m_paused, m_last_permutation,
                 m_wait_for_returned, epollVars, pipeVars>>

\* step(): reset m_paused, wake up the thread and wait for its next pause().
Step ==
  /\ mpc = "step"
  /\ m_paused' = FALSE
  /\ NotifyOne("main", TRUE)
  /\ mpc' = "step_wait"
  /\ UNCHANGED <<script, tpc, call, timeout, m_state, m_last_permutation,
                 m_wait_for_returned, epollVars, pipeVars>>

\* start() and step(): woken up; the predicate of wait() is tested again.
Main_woken ==
  /\ mpc \in {"start_wait", "step_wait"} /\ "main" \notin waiting
  /\ IF m_paused THEN waiting' = waiting /\ mpc' = "script"
                 ELSE waiting' = waiting \cup {"main"} /\ mpc' = mpc
  /\ UNCHANGED <<script, tpc, call, timeout, m_state, m_paused, m_last_permutation,
                 m_wait_for_returned, epollVars, pipeVars>>

\* The next statement of main() is a call of op.
Main_calls(op) ==
  /\ mpc = "script" /\ script # <<>> /\ Head(script) = op
  /\ script' = Tail(script)

\* The assert of the next call fails.
Abort ==
  /\ mpc = "script" /\ script # <<>>
  /\ CASE Head(script) = "add_fd_with_events"   -> m_added
       [] Head(script) \in {"mod_fd", "del_fd"}  -> ~m_added
       [] Head(script) \in {"send", "close_send"} -> ~w_open
       [] Head(script) = "write"                 -> reset
       [] OTHER                                  -> FALSE
  /\ mpc' = "abort"
  /\ UNCHANGED <<script, tpc, call, timeout, syncVars, epollVars, pipeVars>>

Epoll_add_fd_with_events ==
  /\ Main_calls("add_fd_with_events") /\ ~m_added
  /\ m_added' = TRUE /\ m_mask' = "IN"
  /\ edge' = Reports("IN")
  /\ UNCHANGED <<mpc, tpc, call, timeout, syncVars, pipeVars>>

\* Called with the other mask, as its assert demands.  EPOLL_CTL_MOD tests the new
\* mask against the state of the descriptor again.
Epoll_mod_fd ==
  /\ Main_calls("mod_fd") /\ m_added
  /\ m_mask' = IF m_mask = "IN" THEN "OUT" ELSE "IN"
  /\ edge' = Reports(m_mask')
  /\ UNCHANGED <<mpc, tpc, call, timeout, syncVars, m_added, pipeVars>>

Epoll_del_fd ==
  /\ Main_calls("del_fd") /\ m_added
  /\ m_added' = FALSE /\ m_mask' = "none" /\ edge' = FALSE
  /\ UNCHANGED <<mpc, tpc, call, timeout, syncVars, pipeVars>>

\* Mutant: a write to a full pipe is counted as written.
WriteLenUnclamped(space) == Chunk

\* What write() accepts: what fits.  Nothing fits: EAGAIN, and nothing is counted.
WriteLen(space) == IF Chunk <= space THEN Chunk ELSE space

\* Something happened that wakes up epoll, if it watches for mask.
Wakes(mask) == edge' = (edge \/ (m_added /\ m_mask = mask))

Send ==
  LET ret == WriteLen(PipeCap - InPipe)
  IN  /\ Main_calls("send") /\ w_open
      /\ m_sent' = m_sent + ret
      /\ IF ret > 0 THEN Wakes("IN") ELSE edge' = edge
      /\ UNCHANGED <<mpc, tpc, call, timeout, syncVars, m_added, m_mask, device, m_read,
                     w_open, sockVars>>

PipeReadEnd_send == device = "pipe" /\ Send
Socket_send == device = "socket" /\ Send

\* The other end is closed: epoll is woken up whatever it watches for.
Close_send ==
  /\ Main_calls("close_send") /\ w_open
  /\ w_open' = FALSE
  /\ edge' = (edge \/ m_added)
  /\ UNCHANGED <<mpc, tpc, call, timeout, syncVars, m_added, m_mask, device, m_sent, m_read,
                 m_written, m_received>>

PipeReadEnd_close_send == device = "pipe" /\ Close_send /\ reset' = reset

\* The accepted socket is closed; with unread data in it that resets the connection.
Socket_close_send == device = "socket" /\ Close_send /\ reset' = (Upstream > 0)

\* read() is repeated as long as it fails: main gets past it only once there is
\* something to read, or end of file.
Read ==
  /\ Readable
  /\ Main_calls("read")
  /\ m_read' = m_read + (IF Chunk <= InPipe THEN Chunk ELSE InPipe)
  /\ UNCHANGED <<mpc, tpc, call, timeout, syncVars, epollVars, device, m_sent, w_open, sockVars>>

PipeReadEnd_read == device = "pipe" /\ Read
Socket_read == device = "socket" /\ Read

\* write() to the client socket.  If the other end is closed the first one still
\* succeeds, and resets the connection.
Socket_write ==
  /\ Main_calls("write") /\ ~reset
  /\ m_written' = m_written + WriteLen(PipeCap - Upstream)
  /\ reset' = ~w_open
  /\ edge' = (edge \/ (m_added /\ ~w_open))
  /\ UNCHANGED <<mpc, tpc, call, timeout, syncVars, m_added, m_mask, device, m_sent, m_read,
                 w_open, m_received>>

\* read() from the accepted socket, repeated as long as it fails; there is no end of
\* file because nothing closes the client socket.  Room in a full socket is an event.
Socket_recv ==
  /\ w_open /\ Upstream > 0
  /\ Main_calls("recv")
  /\ m_received' = m_received + (IF Chunk <= Upstream THEN Chunk ELSE Upstream)
  /\ IF Writable THEN edge' = edge ELSE Wakes("OUT")
  /\ UNCHANGED <<mpc, tpc, call, timeout, syncVars, m_added, m_mask, device, m_sent, m_read,
                 w_open, m_written, reset>>

EpollThread_enter_epoll_wait ==
  /\ Main_calls("enter_epoll_wait")
  /\ mpc' = "step"
  /\ UNCHANGED <<tpc, call, timeout, syncVars, epollVars, pipeVars>>

EpollThread_wait_for_returned_from_epoll_wait ==
  /\ Main_calls("wait_for_returned_from_epoll_wait")
  /\ m_wait_for_returned' = TRUE
  /\ mpc' = "step"
  /\ UNCHANGED <<tpc, call, timeout, m_state, m_paused, m_last_permutation, waiting,
                 epollVars, pipeVars>>

\* wakeup(), then step().
EpollThread_exit_epoll_wait ==
  /\ Main_calls("exit_epoll_wait")
  /\ Signal
  /\ mpc' = "step"
  /\ UNCHANGED <<call, timeout, syncVars, epollVars, pipeVars>>

\* The destructor ~EpollThread at the end of main() calls stop().
Stop_flag ==
  /\ mpc = "script" /\ script = <<>>
  /\ m_last_permutation' = TRUE
  /\ mpc' = "stop_notify"
  /\ UNCHANGED <<script, tpc, call, timeout, m_state, m_paused, m_wait_for_returned, waiting,
                 epollVars, pipeVars>>

Stop_notify ==
  /\ mpc = "stop_notify"
  /\ m_paused' = FALSE
  /\ NotifyOne("main", FALSE)
  /\ mpc' = "stop_wakeup"
  /\ UNCHANGED <<script, tpc, call, timeout, m_state, m_last_permutation,
                 m_wait_for_returned, epollVars, pipeVars>>

\* After 2 milliseconds; nothing says where the thread is by then.
Stop_wakeup ==
  /\ mpc = "stop_wakeup"
  /\ Signal
  /\ mpc' = "join"
  /\ UNCHANGED <<script, call, timeout, syncVars, epollVars, pipeVars>>

Stop_join ==
  /\ mpc = "join" /\ tpc = "exited"
  /\ mpc' = "done"
  /\ UNCHANGED <<script, tpc, call, timeout, syncVars, epollVars, pipeVars>>

Terminated == mpc \in {"done", "abort"} /\ UNCHANGED vars

-----------------------------------------------------------------------------
Thread ==
  /\ mpc # "abort"
  /\ \/ Pause_set_state \/ Pause_lock \/ Pause_woken
     \/ Event_loop_head \/ Event_loop_inner \/ Event_loop_epoll_wait
     \/ Event_loop_returned \/ Event_loop_returned2

Main ==
  \/ Start \/ Step \/ Main_woken \/ Abort
  \/ Epoll_add_fd_with_events \/ Epoll_mod_fd \/ Epoll_del_fd
  \/ PipeReadEnd_send \/ PipeReadEnd_close_send \/ PipeReadEnd_read
  \/ Socket_send \/ Socket_close_send \/ Socket_read \/ Socket_write \/ Socket_recv
  \/ EpollThread_enter_epoll_wait \/ EpollThread_wait_for_returned_from_epoll_wait
  \/ EpollThread_exit_epoll_wait
  \/ Stop_flag \/ Stop_notify \/ Stop_wakeup \/ Stop_join

Next == Thread \/ Main \/ Terminated

\* Both threads are scheduled by the operating system.
Spec == Init /\ [][Next]_vars /\ WF_vars(Thread) /\ WF_vars(Main)

-----------------------------------------------------------------------------
(* Properties.                                                             *)

\* No lost wake-up on the one condition variable both threads share (lines 57,
\* 101-149): nobody sleeps waiting for a value that m_paused already has, although
\* pause(blocking, true) sets m_paused without sleeping, again and again.
NobodySleepsForNothing ==
  /\ "main" \in waiting => ~m_paused
  /\ "thread" \in waiting => m_paused

\* step() always returns: the thread reaches its next check point (line 45) also
\* if epoll_wait has no event, was interrupted or m_wait_for_returned is set.
StepReturns == (mpc = "step") ~> (mpc \in {"script", "abort"})

\* Once stop() was called, a thread that gets out of the inner loop exits and is
\* joined, unless it is told to pause a second time (lines 572-616).
LoopExitIsJoined ==
  (m_last_permutation /\ tpc = "loop_head") ~> (mpc = "done")

\* Only one of the two threads runs (lines 45, 128-149): whenever main has the
\* control and the thread is in a pause() that waits, the thread sleeps, with
\* m_paused set, and is not about to run because of an earlier notify.
MainRunsAlone ==
  mpc \in {"script", "step"} /\ tpc = "cv" => m_paused /\ "thread" \in waiting

\* What the comment in stop() says (line 158): "Wake up the thread and let it exit."
StopLetsThreadExit == (mpc = "stop_notify") ~> (mpc = "done")
================================================================================
