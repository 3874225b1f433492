-------------------------- MODULE MCServerSessions --------------------------
(* Two storage servers, or two lives of one. *)
EXTENDS ServerSessions

CONSTANTS s1, s2

MCServer == {s1, s2}
=============================================================================
