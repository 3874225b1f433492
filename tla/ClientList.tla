----------------------------- MODULE ClientList -----------------------------
(***************************************************************************)
(* CLIENT_HANDLE_LIST_STRUCT of src/Naming Sever/Client_Handle.c: a table  *)
(* of MAX_CLIENTS slots.  Every operation runs under clientListMutex and   *)
(* is one action here.  A slot that is given back keeps the ClientID of    *)
(* its last owner, and look-ups read the ID without asking whether the     *)
(* slot is in use.                                                         *)
(***************************************************************************)
EXTENDS Naturals, FiniteSets

CONSTANTS MAX_CLIENTS,   \* number of slots
          ID,            \* the IDs that GetClientID makes of addresses and ports
          NoID           \* the zero in a slot that was never used

ASSUME MaxClientsAssumption == MAX_CLIENTS \in Nat
ASSUME IDAssumption == NoID \notin ID

VARIABLES clientList,    \* the ClientID kept in each slot
          InUseList,     \* whether the slot is taken
          iClientCount

listVars == <<clientList, InUseList, iClientCount>>

Slot == 0 .. MAX_CLIENTS - 1
InUse == {i \in Slot : InUseList[i]}

\* Fault: the search for a free slot does not ask whether this one is.
AnySlot(i) == \A j \in Slot : j < i => InUseList[j]

FirstFree(i) == ~InUseList[i] /\ \A j \in Slot : j < i => InUseList[j]
FirstWith(id, i) == clientList[i] = id /\ \A j \in Slot : j < i => clientList[j] # id

InitializeClientHandleList ==
  /\ clientList = [i \in Slot |-> NoID]
  /\ InUseList = [i \in Slot |-> FALSE]
  /\ iClientCount = 0

\* Fault: the client is put into a slot after the first free one.
AddClientLast(id) ==
  /\ iClientCount # MAX_CLIENTS
  /\ \E i \in Slot \ InUse :
       /\ \A j \in Slot : j > i => InUseList[j]
       /\ clientList' = [clientList EXCEPT ![i] = id]
       /\ InUseList' = [InUseList EXCEPT ![i] = TRUE]
  /\ iClientCount' = iClientCount + 1

AddClient(id) ==
  /\ iClientCount # MAX_CLIENTS
  /\ \E i \in Slot : /\ FirstFree(i)
                     /\ clientList' = [clientList EXCEPT ![i] = id]
                     /\ InUseList' = [InUseList EXCEPT ![i] = TRUE]
  /\ iClientCount' = iClientCount + 1

Full == iClientCount = MAX_CLIENTS \/ InUse = Slot

\* Fault: the client is counted before the checks that may refuse it.
CountsRefused == Full /\ iClientCount' = iClientCount + 1 /\ UNCHANGED <<clientList, InUseList>>

AddClientFails == Full /\ UNCHANGED listVars

(* The counter goes down for any slot that holds the ID, also for one that *)
(* is free already.                                                        *)
RemoveClient(id) ==
  IF iClientCount = 0 \/ \A i \in Slot : clientList[i] # id
  THEN UNCHANGED listVars
  ELSE /\ \E i \in Slot : FirstWith(id, i) /\ InUseList' = [InUseList EXCEPT ![i] = FALSE]
       /\ iClientCount' = iClientCount - 1
       /\ UNCHANGED clientList

\* The slot that GetClient returns, as a set: empty where it returns NULL.
GetClient(id) == IF iClientCount = 0 THEN {} ELSE {i \in Slot : FirstWith(id, i)}

ListTypeOK ==
  /\ clientList \in [Slot -> ID \cup {NoID}]
  /\ InUseList \in [Slot -> BOOLEAN]
  /\ iClientCount \in 0 .. MAX_CLIENTS
=============================================================================
