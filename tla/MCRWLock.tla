------------------------------ MODULE MCRWLock ------------------------------
(* RWLock with three threads: two that share the lock and one against them. *)
EXTENDS RWLock

CONSTANTS t1, t2, t3

MCThread == {t1, t2, t3}
=============================================================================
