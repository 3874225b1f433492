----------------------------- MODULE MCSessions -----------------------------
(* Instance of ClientSessions for TLC: the connections are interchangeable. *)
EXTENDS ClientSessions, TLC

ConnSymmetry == Permutations(Conn)
=============================================================================
