----------------------------- MODULE MCFaServer -----------------------------
(* Instances of FaServer for TLC: a remote host, a program on the server's  *)
(* own machine that sends by its interface, the first and the last tid.     *)
EXTENDS FaServer

CONSTANTS h1, self

MCHosts == {h1, self}
MCTids  == {1, 255}
=============================================================================
