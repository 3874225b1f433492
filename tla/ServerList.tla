----------------------------- MODULE ServerList -----------------------------
(***************************************************************************)
(* SERVER_HANDLE_LIST_STRUCT of src/Naming Sever/Server_Handle.c: a table  *)
(* of MAX_SERVERS slots.  A slot is active from AddServer to RemoveServer  *)
(* and, while it is, running unless SetInactive has said otherwise.  Every *)
(* operation is one critical section of severListMutex, but SetInactive,   *)
(* which takes no mutex and is two steps.                                  *)
(***************************************************************************)
EXTENDS Integers, FiniteSets

CONSTANTS MAX_SERVERS,   \* number of slots; the code has 5
          Server,        \* the storage servers; an address and port make one ID
          NoServer       \* the zero of a handle that was never filled

ASSUME MaxServersAssumption == MAX_SERVERS \in Nat \ {0, 1}
ASSUME ServerAssumption == NoServer \notin Server /\ IsFiniteSet(Server)

VARIABLES serverList,    \* the ServerID in each slot
          Active,        \* the slots in use
          Running,       \* the slots whose server is up
          iServerCount

listVars == <<serverList, Active, Running, iServerCount>>

Slot == 0 .. MAX_SERVERS - 1

\* The slot that a search for an ID among the slots of a set ends at, as a set.
FirstWith(id, slots) ==
  {i \in slots : serverList[i] = id /\ \A j \in slots : serverList[j] = id => i <= j}

InitializeServerHandleList ==
  /\ serverList = [i \in Slot |-> NoServer]
  /\ Active = {} /\ Running = {} /\ iServerCount = 0

(* AddServer stops at the first slot that is free or holds the ID that the *)
(* handle came with: id is what GetServerID makes of the handle, old what  *)
(* its ServerID is until then.                                             *)
AddStopsAt(i, old) ==
  /\ i \notin Active \/ serverList[i] = old
  /\ \A j \in Slot : j < i => j \in Active /\ serverList[j] # old

AddServerNew(id, old) ==
  /\ iServerCount < MAX_SERVERS
  /\ \E i \in Slot \ Active :
       /\ AddStopsAt(i, old)
       /\ serverList' = [serverList EXCEPT ![i] = id]
       /\ Active' = Active \cup {i} /\ Running' = Running \cup {i}
  /\ iServerCount' = iServerCount + 1

\* Fault: a server that comes back is counted again.
AddServerCountsAgain(old) ==
  /\ iServerCount < MAX_SERVERS
  /\ \E i \in Active : AddStopsAt(i, old) /\ Running' = Running \cup {i}
  /\ iServerCount' = iServerCount + 1
  /\ UNCHANGED <<serverList, Active>>

\* Fault: a server that comes back is not set to running.
AddServerForgetsRunning(old) ==
  /\ iServerCount < MAX_SERVERS
  /\ \E i \in Active : AddStopsAt(i, old)
  /\ UNCHANGED listVars

AddServerAgain(old) ==
  /\ iServerCount < MAX_SERVERS
  /\ \E i \in Active : AddStopsAt(i, old) /\ Running' = Running \cup {i}
  /\ UNCHANGED <<serverList, Active, iServerCount>>

\* Fault: a server that is not found is counted down as well.
RemoveServerCountsDown(id) ==
  /\ iServerCount' = iServerCount - 1
  /\ Active' = Active \ FirstWith(id, Running) /\ Running' = Running \ FirstWith(id, Running)
  /\ UNCHANGED serverList

RemoveServer(id) ==
  \/ FirstWith(id, Running) = {} /\ UNCHANGED listVars
  \/ \E i \in FirstWith(id, Running) :
       /\ Active' = Active \ {i} /\ Running' = Running \ {i}
       /\ iServerCount' = iServerCount - 1
       /\ UNCHANGED serverList

\* The second step of SetInactive, for the slot that the first has found.
SetsInactive(i) == Running' = Running \ {i} /\ UNCHANGED <<serverList, Active, iServerCount>>

\* The ID is not in the list, which IsActive reports as -1 and its callers take for true.
IsActive(id) == IF FirstWith(id, Active) = {} THEN -1
                ELSE IF FirstWith(id, Active) \subseteq Running THEN 1 ELSE 0

ListTypeOK ==
  /\ serverList \in [Slot -> Server \cup {NoServer}]
  /\ Active \subseteq Slot /\ Running \subseteq Slot
  /\ iServerCount \in 0 .. MAX_SERVERS
=============================================================================
