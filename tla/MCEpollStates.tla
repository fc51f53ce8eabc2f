---------------------------- MODULE MCEpollStates ----------------------------
(* Constants for checking EpollStates with TLC. *)
EXTENDS EpollStates

\* The calls that main() of epoll_states.cxx makes.
MainScript == <<"add_fd_with_events", "send", "close_send", "enter_epoll_wait",
                "enter_epoll_wait", "read", "enter_epoll_wait", "enter_epoll_wait">>

MCMain == {MainScript}

\* Every program of at most MaxCalls calls, after the watch was added, the ones that
\* fail an assert included.
MaxCalls == 3
Programs(calls) ==
  {<<"add_fd_with_events">> \o s : s \in UNION {[1 .. n -> calls] : n \in 0 .. MaxCalls}}
MCScripts == {MainScript} \cup Programs(Calls)

\* A Socket that is filled up while epoll watches it for output, and emptied again.
FillAndEmpty == <<"add_fd_with_events", "mod_fd", "enter_epoll_wait", "write", "write",
                  "enter_epoll_wait", "recv", "enter_epoll_wait">>
MCSocketScripts == {FillAndEmpty} \cup Programs(SocketCalls)
==============================================================================
