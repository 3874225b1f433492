-------------------------- MODULE MCDirectCommands --------------------------
(* Instance of DirectCommands for TLC: the first two commands are any two  *)
(* words, the second in the leavings of the first in both servers, and a   *)
(* third finds what they left in the naming server.                        *)
EXTENDS DirectCommands

MCWord == [c \in Client |-> <<DOMAIN Characters, DOMAIN Characters, {"LIST"}>>]
=============================================================================
