------------------------------ MODULE MCEpollBug ------------------------------
(* Constants for checking EpollBug with TLC. *)
EXTENDS EpollBug

\* Two writes per write event, the second larger than the first, as in alen.
MCALen == <<1, 2>>
===============================================================================
