--------------------------- MODULE AbstractRWLock ---------------------------
(***************************************************************************)
(* What a Reader_Writer_Lock of the storage server promises to the threads *)
(* that use it in matched pairs (Read_Lock ... Read_Unlock, Write_Lock ... *)
(* Write_Unlock): any number of readers or one writer inside, and one head *)
(* of the service queue that nobody overtakes.                             *)
(***************************************************************************)
CONSTANTS Thread, NoThread

VARIABLES readers,   \* the threads inside as readers
          writers,   \* the threads inside as writers
          head       \* the thread that is next to be admitted, or NoThread

vars == <<readers, writers, head>>

Init == readers = {} /\ writers = {} /\ head = NoThread

\* A thread that is outside becomes the next to be admitted.
BecomeHead(t) ==
  /\ head = NoThread /\ t \notin readers \cup writers
  /\ head' = t
  /\ UNCHANGED <<readers, writers>>

\* Only the head enters; it stays head until it has let go of the queue.
BeginRead(t) ==
  /\ head = t /\ t \notin readers /\ writers = {}
  /\ readers' = readers \cup {t}
  /\ UNCHANGED <<writers, head>>

BeginWrite(t) ==
  /\ head = t /\ readers = {} /\ writers = {}
  /\ writers' = {t}
  /\ UNCHANGED <<readers, head>>

LeaveQueue(t) ==
  /\ head = t /\ t \in readers \cup writers
  /\ head' = NoThread
  /\ UNCHANGED <<readers, writers>>

EndRead(t) ==
  /\ t \in readers /\ head # t
  /\ readers' = readers \ {t}
  /\ UNCHANGED <<writers, head>>

EndWrite(t) ==
  /\ t \in writers /\ head # t
  /\ writers' = writers \ {t}
  /\ UNCHANGED <<readers, head>>

Enter(t) == BeginRead(t) \/ BeginWrite(t)
Leave(t) == EndRead(t) \/ EndWrite(t)

Next == \E t \in Thread : BecomeHead(t) \/ Enter(t) \/ LeaveQueue(t) \/ Leave(t)

Spec == Init /\ [][Next]_vars

(* With fairness: the head gets in and gives the queue up, and as long as  *)
(* threads are inside one or another leaves.                               *)
LiveSpec ==
  /\ Spec
  /\ \A t \in Thread : WF_vars(Enter(t)) /\ WF_vars(LeaveQueue(t))
  /\ WF_vars(\E t \in Thread : Leave(t))
=============================================================================
