--------------------------- MODULE ClientRegistry ---------------------------
(***************************************************************************)
(* The client list as the naming server means to use it: the acceptor adds *)
(* a client that is not in the list, and the client's own handler thread   *)
(* takes it out once.  ClientSessions has the threads as they are.         *)
(***************************************************************************)
EXTENDS ClientList

VARIABLE live   \* the clients that were added and not yet removed

vars == <<clientList, InUseList, iClientCount, live>>

Init == InitializeClientHandleList /\ live = {}

Connect(id) == id \notin live /\ AddClient(id) /\ live' = live \cup {id}

Refuse(id) == id \notin live /\ AddClientFails /\ UNCHANGED live

Disconnect(id) == id \in live /\ RemoveClient(id) /\ live' = live \ {id}

Next == \E id \in ID : Connect(id) \/ Refuse(id) \/ Disconnect(id)

Spec == Init /\ [][Next]_vars

-----------------------------------------------------------------------------
TypeOK == ListTypeOK /\ live \subseteq ID

\* The counter, the slots in use and the clients agree in number.
CountExact ==
  /\ iClientCount = Cardinality(InUse)
  /\ Cardinality(InUse) = Cardinality(live)

\* The slots in use hold the live clients, each of them once.
SlotsHoldLive ==
  /\ {clientList[i] : i \in InUse} = live
  /\ \A i, j \in InUse : clientList[i] = clientList[j] => i = j

(* The slot that a search for a live client stops at is the client's own,  *)
(* although freed slots keep old IDs and the search does not skip them: a  *)
(* stale copy of a live ID can only lie behind the slot in use.  RemoveClient *)
(* then frees the right slot.                                              *)
LiveIsFound == \A id \in live : \A i \in Slot : FirstWith(id, i) => InUseList[i]

\* A client is refused only when MAX_CLIENTS others are connected.
RefusedOnlyWhenFull == Full => Cardinality(live) = MAX_CLIENTS

(* A slot that is in use keeps its client until the client is removed:     *)
(* neither AddClient nor the removal of another client disturbs it.        *)
SlotKeepsClient ==
  [][\A i \in InUse : clientList[i] \in live' => i \in InUse' /\ clientList'[i] = clientList[i]]_vars

\* The inductive invariant.
RegistryInv == TypeOK /\ IsFiniteSet(live) /\ CountExact /\ SlotsHoldLive /\ LiveIsFound
=============================================================================
