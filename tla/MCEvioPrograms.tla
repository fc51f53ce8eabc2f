---------------------------- MODULE MCEvioPrograms ----------------------------
(* Constants for checking EvioPrograms with TLC. *)
EXTENDS EvioPrograms

Instance(p, clients, burst, lines, len) ==
  [program |-> p, clients |-> clients, burst |-> burst, lines |-> lines, len |-> len]

\* Two clients with short messages, and one with messages that are cut in pieces.
MCInstances ==
  {Instance("listen_socket", 2, 1, 2, 1), Instance("listen_socket", 1, 2, 2, 2),
   Instance("connect", 1, 1, 1, 1), Instance("unix_socket", 1, 1, 1, 3),
   Instance("pipe", 1, 1, 1, 3),
   Instance("socket", 2, 1, 2, 1), Instance("socket", 1, 1, 3, 2),
   Instance("filedescriptor", 1, 1, 2, 2)}

MCSocket == {Instance("socket", 2, 1, 2, 1)}
===============================================================================
