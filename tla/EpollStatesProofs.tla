--------------------------- MODULE EpollStatesProofs ---------------------------
(***************************************************************************)
(* Theorems about EpollStates, for all programs that main() may be, all    *)
(* capacities and chunk sizes: types, and the hand-over of control between *)
(* main and the second thread.                                             *)
(***************************************************************************)
EXTENDS EpollStates, TLAPS

\* The parts of TypeOK.
Places ==
  /\ mpc \in MainPC
  /\ tpc \in ThreadPC
  /\ timeout \in {1, -1}
  /\ m_state \in {"yielding", "blocking"}
  /\ waiting \subseteq {"main", "thread"}
  /\ "main" \in waiting => mpc \in {"start_wait", "step_wait"}
  /\ "thread" \in waiting => tpc = "cv"
  /\ m_mask \in Masks
  /\ device \in {"pipe", "socket"}

PauseCalls == [state: {"yielding", "blocking"}, no_wait: BOOLEAN,
               ret: {"loop_head", "epoll_wait", "returned2"}]

Flags ==
  /\ m_paused \in BOOLEAN /\ m_last_permutation \in BOOLEAN /\ m_wait_for_returned \in BOOLEAN
  /\ m_added \in BOOLEAN /\ edge \in BOOLEAN /\ w_open \in BOOLEAN /\ reset \in BOOLEAN

Counters ==
  /\ m_sent \in Nat /\ m_read \in Nat /\ m_written \in Nat /\ m_received \in Nat
  /\ m_sent - m_read \in 0 .. PipeCap /\ m_written - m_received \in 0 .. PipeCap

LEMMA TypeParts ==
  TypeOK <=> Places /\ call \in PauseCalls /\ script \in Seq(SocketCalls) /\ Flags /\ Counters
BY Zenon DEF TypeOK, Places, PauseCalls, Flags, Counters, InPipe, Upstream

\* A thread that waits in pause() while m_paused is set was not notified since.
NotifiedMeansReset == tpc = "cv" /\ m_paused => "thread" \in waiting

\* There is no thread that could set m_paused before start().
NotStarted == mpc = "start" => tpc = "none" /\ ~m_paused

\* The inductive invariant: TypeOK says where a sleeping thread can be, which is what
\* NotifyOne needs in order not to wake up the wrong one.
HInv ==
  /\ TypeOK
  /\ NobodySleepsForNothing
  /\ NotifiedMeansReset
  /\ NotStarted
  /\ MainRunsAlone

\* What write() accepts fits.
LEMMA WriteLenFits ==
  ASSUME NEW space \in Nat
  PROVE  WriteLen(space) \in 0 .. space
BY EpollStatesAssumption DEF WriteLen

\* A program with a PipeReadEnd makes no calls that one with a Socket cannot make.
LEMMA ScriptsTyped == Scripts \subseteq Seq(SocketCalls) /\ SocketScripts \subseteq Seq(SocketCalls)
<1>1. Calls \subseteq SocketCalls
  BY DEF SocketCalls
<1>2. ASSUME NEW s \in Seq(Calls) PROVE s \in Seq(SocketCalls)
  BY <1>1
<1>. QED  BY <1>2, EpollStatesAssumption

LEMMA InitHInv == Init => HInv
<1>. SUFFICES ASSUME Init PROVE HInv
  OBVIOUS
<1>1. script \in Seq(SocketCalls) /\ device \in {"pipe", "socket"}
  BY ScriptsTyped DEF Init
<1>2. Places
  BY <1>1 DEF Init, Places, MainPC, ThreadPC, Masks
<1>3. call \in PauseCalls
  BY DEF Init, PauseCalls, Pause
<1>4. Flags
  BY Zenon DEF Init, Device_constructed, Flags
<1>5. Counters
  BY EpollStatesAssumption DEF Init, Device_constructed, Counters
<1>6. NobodySleepsForNothing /\ NotifiedMeansReset /\ NotStarted /\ MainRunsAlone
  BY DEF Init, NobodySleepsForNothing, NotifiedMeansReset, NotStarted, MainRunsAlone
<1>. QED  BY <1>1, <1>2, <1>3, <1>4, <1>5, <1>6, TypeParts DEF HInv

-----------------------------------------------------------------------------
(* Calls of main() that only touch epoll and the watched descriptor.       *)

DataCalls ==
  \/ Epoll_add_fd_with_events \/ Epoll_mod_fd \/ Epoll_del_fd
  \/ PipeReadEnd_send \/ PipeReadEnd_close_send \/ PipeReadEnd_read
  \/ Socket_send \/ Socket_close_send \/ Socket_read \/ Socket_write \/ Socket_recv

\* All other steps of main.
ControlSteps ==
  \/ Start \/ Step \/ Main_woken \/ Abort
  \/ EpollThread_enter_epoll_wait \/ EpollThread_wait_for_returned_from_epoll_wait
  \/ EpollThread_exit_epoll_wait
  \/ Stop_flag \/ Stop_notify \/ Stop_wakeup \/ Stop_join

LEMMA NextCases == [Next]_vars => Thread \/ DataCalls \/ ControlSteps \/ UNCHANGED vars
BY Zenon DEF Next, Main, DataCalls, ControlSteps, Terminated

\* They leave the hand-over of control alone.
LEMMA DataCallsKeepControl ==
  ASSUME Places, DataCalls
  PROVE  /\ UNCHANGED <<mpc, tpc, call, timeout, syncVars, device>>
         /\ m_mask' \in Masks
         /\ script' = Tail(script) /\ script # <<>>
<1>. USE DEF Main_calls, pipeVars, epollVars
<1>1. CASE Epoll_add_fd_with_events
  BY <1>1 DEF Epoll_add_fd_with_events, Masks
<1>2. CASE Epoll_mod_fd
  BY <1>2 DEF Epoll_mod_fd, Masks
<1>3. CASE Epoll_del_fd
  BY <1>3 DEF Epoll_del_fd, Masks
<1>4. CASE PipeReadEnd_send \/ Socket_send
  BY <1>4 DEF PipeReadEnd_send, Socket_send, Send, Places
<1>5. CASE PipeReadEnd_close_send \/ Socket_close_send
  BY <1>5 DEF PipeReadEnd_close_send, Socket_close_send, Close_send, Places
<1>6. CASE PipeReadEnd_read \/ Socket_read
  BY <1>6 DEF PipeReadEnd_read, Socket_read, Read, Places
<1>7. CASE Socket_write
  BY <1>7 DEF Socket_write, Places
<1>8. CASE Socket_recv
  BY <1>8 DEF Socket_recv, Places
<1>. QED  BY <1>1, <1>2, <1>3, <1>4, <1>5, <1>6, <1>7, <1>8 DEF DataCalls

\* The counters stay within the capacity of the pipe and of the socket.
LEMMA DataCallsCounters ==
  ASSUME Counters, DataCalls
  PROVE  Counters'
<1>. USE DEF Counters, InPipe, Upstream, sockVars, pipeVars
<1>. PipeCap \in Nat /\ Chunk \in Nat /\ Chunk > 0
  BY EpollStatesAssumption
<1>1. CASE Epoll_add_fd_with_events \/ Epoll_mod_fd \/ Epoll_del_fd
  BY <1>1 DEF Epoll_add_fd_with_events, Epoll_mod_fd, Epoll_del_fd
<1>2. CASE Send
  <2>1. WriteLen(PipeCap - InPipe) \in 0 .. PipeCap - InPipe
    BY WriteLenFits
  <2>2. m_sent' = m_sent + WriteLen(PipeCap - InPipe) /\ UNCHANGED <<m_read, m_written, m_received>>
    BY <1>2 DEF Send
  <2>. QED  BY <2>1, <2>2
<1>3. CASE Close_send
  BY <1>3 DEF Close_send
<1>4. CASE Read
  BY <1>4 DEF Read
<1>5. CASE Socket_write
  <2>1. WriteLen(PipeCap - Upstream) \in 0 .. PipeCap - Upstream
    BY WriteLenFits
  <2>2. m_written' = m_written + WriteLen(PipeCap - Upstream) /\ UNCHANGED <<m_sent, m_read, m_received>>
    BY <1>5 DEF Socket_write
  <2>. QED  BY <2>1, <2>2
<1>6. CASE Socket_recv
  BY <1>6 DEF Socket_recv
<1>. QED
  BY <1>1, <1>2, <1>3, <1>4, <1>5, <1>6
  DEF DataCalls, PipeReadEnd_send, PipeReadEnd_close_send, PipeReadEnd_read,
      Socket_send, Socket_close_send, Socket_read

\* The flags of epoll and of the descriptor stay Boolean.
LEMMA DataCallsFlags ==
  ASSUME Flags, DataCalls
  PROVE  Flags'
<1>. USE DEF Flags, syncVars, epollVars, sockVars, pipeVars
<1>1. CASE Epoll_add_fd_with_events
  BY <1>1, Zenon DEF Epoll_add_fd_with_events, Reports, Readable, Writable, HangUp
<1>2. CASE Epoll_mod_fd
  BY <1>2, Zenon DEF Epoll_mod_fd, Reports, Readable, Writable, HangUp
<1>3. CASE Epoll_del_fd
  BY <1>3, Zenon DEF Epoll_del_fd
<1>4. CASE PipeReadEnd_send \/ Socket_send
  BY <1>4, Zenon DEF PipeReadEnd_send, Socket_send, Send, Wakes
<1>5. CASE PipeReadEnd_close_send \/ Socket_close_send
  <2>1. (Upstream > 0) \in BOOLEAN
    OBVIOUS
  <2>. QED  BY <1>5, <2>1, Zenon DEF PipeReadEnd_close_send, Socket_close_send, Close_send
<1>6. CASE PipeReadEnd_read \/ Socket_read
  BY <1>6, Zenon DEF PipeReadEnd_read, Socket_read, Read
<1>7. CASE Socket_write
  BY <1>7, Zenon DEF Socket_write
<1>8. CASE Socket_recv
  BY <1>8, Zenon DEF Socket_recv, Wakes
<1>. QED  BY <1>1, <1>2, <1>3, <1>4, <1>5, <1>6, <1>7, <1>8 DEF DataCalls

-----------------------------------------------------------------------------
(* The steps of the second thread.                                         *)

HandOver ==
  Places /\ NobodySleepsForNothing /\ NotifiedMeansReset /\ NotStarted /\ MainRunsAlone

\* Nothing but pause() and its wait touches m_paused and the condition variable.
LEMMA ThreadHandOver ==
  ASSUME HandOver, call \in PauseCalls, m_paused \in BOOLEAN, Thread
  PROVE  HandOver'
<1>. USE DEF HandOver, Places, PauseCalls, MainPC, ThreadPC, Masks, NobodySleepsForNothing,
            NotifiedMeansReset, NotStarted, MainRunsAlone, syncVars, epollVars, pipeVars
<1>1. CASE Pause_set_state
  BY <1>1 DEF Pause_set_state
<1>2. CASE Pause_lock
  <2>1. "thread" \notin waiting
    BY <1>2 DEF Pause_lock
  <2>2. waiting' = IF call.no_wait THEN {} ELSE {"thread"}
    BY <1>2, <2>1 DEF Pause_lock, NotifyOne
  <2>. QED  BY <1>2, <2>2 DEF Pause_lock
<1>3. CASE Pause_woken
  BY <1>3 DEF Pause_woken
<1>4. CASE Event_loop_head
  BY <1>4 DEF Event_loop_head
<1>5. CASE Event_loop_inner
  BY <1>5 DEF Event_loop_inner, Thread_calls
<1>6. CASE Event_loop_epoll_wait
  BY <1>6 DEF Event_loop_epoll_wait
<1>7. CASE Event_loop_returned
  BY <1>7 DEF Event_loop_returned, Thread_calls
<1>8. CASE Event_loop_returned2
  BY <1>8 DEF Event_loop_returned2, Thread_calls
<1>. QED  BY <1>1, <1>2, <1>3, <1>4, <1>5, <1>6, <1>7, <1>8 DEF Thread

\* The calls of pause() in event_loop().
LEMMA ThreadTypes ==
  ASSUME call \in PauseCalls, Flags, Thread
  PROVE  /\ call' \in PauseCalls /\ Flags'
         /\ UNCHANGED <<script, m_sent, m_read, m_written, m_received>>
<1>. USE DEF syncVars, epollVars, sockVars, pipeVars
<1>1. CASE Pause_set_state \/ Pause_lock \/ Pause_woken
  <2>1. call' = call /\ UNCHANGED <<script, m_sent, m_read, m_written, m_received>>
    BY <1>1 DEF Pause_set_state, Pause_lock, Pause_woken
  <2>2. Flags'
    BY <1>1, Zenon DEF Flags, Pause_set_state, Pause_lock, Pause_woken
  <2>. QED  BY <2>1, <2>2
<1>2. CASE Event_loop_head \/ Event_loop_inner \/ Event_loop_epoll_wait
           \/ Event_loop_returned \/ Event_loop_returned2
  <2>1. call' \in PauseCalls /\ UNCHANGED <<script, m_sent, m_read, m_written, m_received>>
    <3>1. Pause("blocking", TRUE, "epoll_wait") \in PauseCalls
      BY DEF Pause, PauseCalls
    <3>2. Pause("yielding", FALSE, "returned2") \in PauseCalls
      BY DEF Pause, PauseCalls
    <3>3. Pause("yielding", FALSE, "loop_head") \in PauseCalls
      BY DEF Pause, PauseCalls
    <3>. QED
      BY <1>2, <3>1, <3>2, <3>3 DEF Thread_calls, Event_loop_head, Event_loop_inner,
         Event_loop_epoll_wait, Event_loop_returned, Event_loop_returned2
  <2>2. Flags'
    <3>1. UNCHANGED <<syncVars, m_added, w_open, reset>>
      BY <1>2 DEF Event_loop_head, Event_loop_inner,
         Event_loop_epoll_wait, Event_loop_returned, Event_loop_returned2
    <3>2. CASE Event_loop_epoll_wait
      BY <3>1, <3>2, Zenon DEF Flags, Event_loop_epoll_wait
    <3>3. CASE ~Event_loop_epoll_wait
      <4>1. UNCHANGED edge
        BY <1>2, <3>3 DEF Event_loop_head, Event_loop_inner, Event_loop_returned,
           Event_loop_returned2
      <4>. QED  BY <3>1, <4>1, Zenon DEF Flags
    <3>. QED  BY <3>2, <3>3
  <2>. QED  BY <2>1, <2>2
<1>. QED  BY <1>1, <1>2 DEF Thread

-----------------------------------------------------------------------------
(* The steps of main that control the thread.                              *)

LEMMA ControlHandOver ==
  ASSUME HandOver, m_paused \in BOOLEAN, ControlSteps
  PROVE  HandOver'
<1>. USE DEF HandOver, Places, MainPC, ThreadPC, Masks, NobodySleepsForNothing,
            NotifiedMeansReset, NotStarted, MainRunsAlone, syncVars, epollVars, pipeVars
<1>1. CASE Start
  BY <1>1 DEF Start
<1>2. CASE Step
  <2>1. "main" \notin waiting
    BY <1>2 DEF Step
  <2>2. waiting' = {"main"}
    BY <1>2, <2>1 DEF Step, NotifyOne
  <2>. QED  BY <1>2, <2>2 DEF Step
<1>3. CASE Main_woken
  <2>1. UNCHANGED <<tpc, timeout, m_state, m_paused, m_mask, device>>
    BY <1>3 DEF Main_woken
  <2>2. CASE m_paused
    BY <1>3, <2>1, <2>2 DEF Main_woken
  <2>3. CASE ~m_paused
    <3>1. waiting' = waiting \cup {"main"} /\ mpc' = mpc /\ mpc \in {"start_wait", "step_wait"}
      BY <1>3, <2>3 DEF Main_woken
    <3>2. ~m_paused'
      BY <2>1, <2>3, Zenon
    <3>. QED  BY <2>1, <2>3, <3>1, <3>2
  <2>. QED  BY <2>2, <2>3
<1>4. CASE Abort
  BY <1>4 DEF Abort
<1>5. CASE EpollThread_enter_epoll_wait
  BY <1>5 DEF EpollThread_enter_epoll_wait, Main_calls
<1>6. CASE EpollThread_wait_for_returned_from_epoll_wait
  BY <1>6 DEF EpollThread_wait_for_returned_from_epoll_wait, Main_calls
<1>7. CASE EpollThread_exit_epoll_wait
  BY <1>7 DEF EpollThread_exit_epoll_wait, Main_calls, Signal
<1>8. CASE Stop_flag
  BY <1>8 DEF Stop_flag
<1>9. CASE Stop_notify
  <2>1. "main" \notin waiting
    BY <1>9 DEF Stop_notify
  <2>2. waiting' = {}
    BY <1>9, <2>1 DEF Stop_notify, NotifyOne
  <2>. QED  BY <1>9, <2>2 DEF Stop_notify
<1>10. CASE Stop_wakeup
  BY <1>10 DEF Stop_wakeup, Signal
<1>11. CASE Stop_join
  BY <1>11 DEF Stop_join
<1>. QED
  BY <1>1, <1>2, <1>3, <1>4, <1>5, <1>6, <1>7, <1>8, <1>9, <1>10, <1>11 DEF ControlSteps

LEMMA ControlTypes ==
  ASSUME call \in PauseCalls, Flags, script \in Seq(SocketCalls), ControlSteps
  PROVE  /\ call' \in PauseCalls /\ Flags' /\ script' \in Seq(SocketCalls)
         /\ UNCHANGED <<m_sent, m_read, m_written, m_received>>
<1>. USE DEF syncVars, epollVars, sockVars, pipeVars
<1>1. CASE Start \/ Step \/ Main_woken \/ Abort
  <2>1. Pause("yielding", FALSE, "loop_head") \in PauseCalls
    BY DEF Pause, PauseCalls
  <2>2. call' \in PauseCalls /\ UNCHANGED <<script, m_sent, m_read, m_written, m_received>>
    BY <1>1, <2>1 DEF Start, Step, Main_woken, Abort
  <2>3. Flags'
    BY <1>1, Zenon DEF Flags, Start, Step, Main_woken, Abort
  <2>. QED  BY <2>2, <2>3
<1>2. CASE EpollThread_enter_epoll_wait \/ EpollThread_wait_for_returned_from_epoll_wait
           \/ EpollThread_exit_epoll_wait
  <2>1. /\ script' = Tail(script) /\ script # <<>>
        /\ UNCHANGED <<call, m_sent, m_read, m_written, m_received>>
    BY <1>2 DEF EpollThread_enter_epoll_wait, EpollThread_wait_for_returned_from_epoll_wait,
       EpollThread_exit_epoll_wait, Main_calls
  <2>2. Flags'
    BY <1>2, Zenon DEF Flags, EpollThread_enter_epoll_wait,
       EpollThread_wait_for_returned_from_epoll_wait, EpollThread_exit_epoll_wait
  <2>. QED  BY <2>1, <2>2
<1>3. CASE Stop_flag \/ Stop_notify \/ Stop_wakeup \/ Stop_join
  <2>1. UNCHANGED <<call, script, m_sent, m_read, m_written, m_received>>
    BY <1>3 DEF Stop_flag, Stop_notify, Stop_wakeup, Stop_join
  <2>2. Flags'
    BY <1>3, Zenon DEF Flags, Stop_flag, Stop_notify, Stop_wakeup, Stop_join
  <2>. QED  BY <2>1, <2>2
<1>. QED  BY <1>1, <1>2, <1>3 DEF ControlSteps

LEMMA HInvParts ==
  HInv <=> HandOver /\ call \in PauseCalls /\ script \in Seq(SocketCalls) /\ Flags /\ Counters
BY TypeParts, Zenon DEF HInv, HandOver

LEMMA NextHInv == HInv /\ [Next]_vars => HInv'
<1>. SUFFICES ASSUME HInv, [Next]_vars PROVE HInv'
  OBVIOUS
<1>1. HandOver /\ call \in PauseCalls /\ script \in Seq(SocketCalls) /\ Flags /\ Counters
  BY HInvParts
<1>2. Places /\ m_paused \in BOOLEAN
  BY <1>1, Zenon DEF HandOver, Flags
<1>3. SUFFICES (HandOver /\ call \in PauseCalls /\ script \in Seq(SocketCalls) /\ Flags /\ Counters)'
  BY HInvParts, PTL
<1>4. CASE Thread
  <2>1. HandOver'
    BY <1>1, <1>2, <1>4, ThreadHandOver
  <2>2. /\ call' \in PauseCalls /\ Flags'
        /\ UNCHANGED <<script, m_sent, m_read, m_written, m_received>>
    BY <1>1, <1>4, ThreadTypes
  <2>3. Counters'
    BY <1>1, <2>2 DEF Counters
  <2>. QED  BY <1>1, <2>1, <2>2, <2>3
<1>5. CASE DataCalls
  <2>1. /\ UNCHANGED <<mpc, tpc, call, timeout, syncVars, device>>
        /\ m_mask' \in Masks
        /\ script' = Tail(script) /\ script # <<>>
    BY <1>2, <1>5, DataCallsKeepControl
  <2>2. Flags' /\ Counters'
    BY <1>1, <1>5, DataCallsFlags, DataCallsCounters
  <2>3. Places'
    BY <1>2, <2>1 DEF Places, syncVars
  <2>4. (NobodySleepsForNothing /\ NotifiedMeansReset /\ NotStarted /\ MainRunsAlone)'
    BY <1>1, <2>1, Zenon DEF HandOver, syncVars, NobodySleepsForNothing, NotifiedMeansReset,
       NotStarted, MainRunsAlone
  <2>5. script' \in Seq(SocketCalls)
    BY <1>1, <2>1
  <2>. QED  BY <1>1, <2>1, <2>2, <2>3, <2>4, <2>5 DEF HandOver
<1>6. CASE ControlSteps
  <2>1. HandOver'
    BY <1>1, <1>2, <1>6, ControlHandOver
  <2>2. /\ call' \in PauseCalls /\ Flags' /\ script' \in Seq(SocketCalls)
        /\ UNCHANGED <<m_sent, m_read, m_written, m_received>>
    BY <1>1, <1>6, ControlTypes
  <2>3. Counters'
    BY <1>1, <2>2 DEF Counters
  <2>. QED  BY <2>1, <2>2, <2>3
<1>7. CASE UNCHANGED vars
  <2>. USE <1>1, <1>7 DEF vars, syncVars, epollVars, sockVars, pipeVars
  <2>1. Places' /\ Counters'
    BY DEF HandOver, Places, Counters
  <2>2. Flags' /\ (NobodySleepsForNothing /\ NotifiedMeansReset /\ NotStarted /\ MainRunsAlone)'
    BY Zenon DEF HandOver, Flags, NobodySleepsForNothing, NotifiedMeansReset, NotStarted,
       MainRunsAlone
  <2>3. call' \in PauseCalls /\ script' \in Seq(SocketCalls)
    OBVIOUS
  <2>. QED  BY <2>1, <2>2, <2>3 DEF HandOver
<1>. QED  BY <1>4, <1>5, <1>6, <1>7, NextCases

\* The hand-over of control through m_paused (src/src/epoll_states.cxx:101-149) keeps
\* the inductive invariant, in every order of the steps of the two threads.
THEOREM HandOverInvariant == Spec => []HInv
BY InitHInv, NextHInv, PTL DEF Spec

-----------------------------------------------------------------------------
(* The theorems.                                                           *)

\* Types of all variables; pipe and socket never hold more than their capacity,
\* whatever the calls of main() (src/src/epoll_states.cxx, PipeReadEnd and Socket).
THEOREM TypeCorrect == Spec => []TypeOK
<1>1. HInv => TypeOK
  BY DEF HInv
<1>. QED  BY <1>1, HandOverInvariant, PTL

\* No wake-up is lost on the condition variable that step(), start() and pause() share
\* (src/src/epoll_states.cxx:101-149), for every program.
THEOREM NoLostWakeUp == Spec => []NobodySleepsForNothing
<1>1. HInv => NobodySleepsForNothing
  BY DEF HInv
<1>. QED  BY <1>1, HandOverInvariant, PTL

\* While main makes its calls, a thread inside a pause() that waits stays there
\* (src/src/epoll_states.cxx:128-149), for every program.
THEOREM ControlIsExclusive == Spec => []MainRunsAlone
<1>1. HInv => MainRunsAlone
  BY DEF HInv
<1>. QED  BY <1>1, HandOverInvariant, PTL
================================================================================
