------------------------ MODULE ClientRegistryProofs ------------------------
(***************************************************************************)
(* Theorems about ClientRegistry for every number of slots and every set   *)
(* of IDs: the table, its counter and the clients agree, a live client is  *)
(* found in its own slot, and a client is refused only by a full table.    *)
(***************************************************************************)
EXTENDS ClientRegistry, FiniteSetTheorems, TLAPS

LEMMA SlotsFinite == IsFiniteSet(Slot) /\ Cardinality(Slot) = MAX_CLIENTS
  BY MaxClientsAssumption, FS_Interval DEF Slot

LEMMA InUseFinite == IsFiniteSet(InUse)
  BY SlotsFinite, FS_Subset DEF InUse

LEMMA InitRegistryInv == Init => RegistryInv
<1> SUFFICES ASSUME Init PROVE RegistryInv
  OBVIOUS
<1> USE MaxClientsAssumption, IDAssumption DEF Init, InitializeClientHandleList
<1>1. TypeOK
  BY DEF TypeOK, ListTypeOK
<1>2. InUse = {}
  BY DEF InUse
<1>3. CountExact /\ IsFiniteSet(live)
  BY <1>2, FS_EmptySet DEF CountExact
<1>4. SlotsHoldLive /\ LiveIsFound
  BY <1>2 DEF SlotsHoldLive, LiveIsFound
<1> QED BY <1>1, <1>3, <1>4 DEF RegistryInv

(* Connect takes the first free slot, so all slots before it are in use and *)
(* hold other clients: no stale copy of the new ID can come first.         *)
LEMMA ConnectStep ==
  ASSUME RegistryInv, NEW id \in ID, Connect(id)
  PROVE  RegistryInv'
<1> USE MaxClientsAssumption, IDAssumption
<1>1. /\ TypeOK /\ IsFiniteSet(live) /\ CountExact /\ SlotsHoldLive /\ LiveIsFound
      /\ id \notin live /\ live' = live \cup {id}
      /\ iClientCount # MAX_CLIENTS /\ iClientCount' = iClientCount + 1
  BY DEF RegistryInv, Connect, AddClient
<1>2. PICK i \in Slot : /\ ~InUseList[i] /\ \A j \in Slot : j < i => InUseList[j]
                        /\ clientList' = [clientList EXCEPT ![i] = id]
                        /\ InUseList' = [InUseList EXCEPT ![i] = TRUE]
  BY DEF Connect, AddClient, FirstFree
<1>3. TypeOK'
  BY <1>1, <1>2 DEF TypeOK, ListTypeOK
<1>4. i \notin InUse /\ InUse' = InUse \cup {i}
  BY <1>1, <1>2 DEF InUse, TypeOK, ListTypeOK
<1>5. CountExact' /\ IsFiniteSet(live)'
  <2>1. /\ Cardinality(InUse') = Cardinality(InUse) + 1
        /\ Cardinality(live') = Cardinality(live) + 1
        /\ IsFiniteSet(live')
    BY <1>1, <1>4, InUseFinite, FS_AddElement
  <2> QED BY <1>1, <2>1 DEF CountExact
<1>6. \A j \in InUse : j # i /\ clientList'[j] = clientList[j] /\ clientList[j] \in live
  BY <1>1, <1>2, <1>4 DEF SlotsHoldLive, InUse, TypeOK, ListTypeOK
<1>7. clientList'[i] = id
  BY <1>1, <1>2 DEF TypeOK, ListTypeOK
<1>8. SlotsHoldLive'
  <2>1. {clientList'[j] : j \in InUse'} = live'
    BY <1>1, <1>4, <1>6, <1>7 DEF SlotsHoldLive
  <2>2. \A j, k \in InUse' : clientList'[j] = clientList'[k] => j = k
    BY <1>1, <1>4, <1>6, <1>7 DEF SlotsHoldLive
  <2> QED BY <2>1, <2>2 DEF SlotsHoldLive
<1>9. LiveIsFound'
  <2> SUFFICES ASSUME NEW c \in live', NEW k \in Slot, clientList'[k] = c,
                      \A j \in Slot : j < k => clientList'[j] # c
               PROVE  InUseList'[k]
    BY DEF LiveIsFound, FirstWith, Slot
  <2>1. CASE k = i
    BY <1>1, <1>2, <2>1 DEF TypeOK, ListTypeOK
  <2>2. CASE k # i /\ c = id
    <3>1. k < i
      BY <1>7, <2>2 DEF Slot
    <3> QED BY <1>1, <1>2, <2>2, <3>1 DEF TypeOK, ListTypeOK
  <2>3. CASE k # i /\ c # id
    <3>1. c \in live /\ clientList[k] = c
      BY <1>1, <1>2, <2>3 DEF TypeOK, ListTypeOK
    <3>2. PICK m \in InUse : clientList[m] = c
      BY <1>1, <3>1 DEF SlotsHoldLive
    <3>3. \A j \in Slot : j < k => clientList[j] # c
      <4> SUFFICES ASSUME NEW j \in Slot, j < k, clientList[j] = c PROVE FALSE
        OBVIOUS
      <4>1. j = i
        BY <1>1, <1>2 DEF TypeOK, ListTypeOK
      <4>2. m # i /\ m \in Slot /\ clientList'[m] = c
        BY <1>4, <1>6, <3>2 DEF InUse
      <4>3. \A l \in Slot : l < i => clientList[l] # c
        BY <1>1, <1>2, <4>1 DEF TypeOK, ListTypeOK, Slot
      <4>4. clientList[i] = c /\ ~InUseList[i]
        BY <1>2, <4>1
      <4>5. FirstWith(c, i)
        BY <4>3, <4>4 DEF FirstWith
      <4> QED BY <1>1, <3>1, <4>4, <4>5 DEF LiveIsFound
    <3>4. FirstWith(c, k)
      BY <3>1, <3>3 DEF FirstWith
    <3> QED BY <1>1, <1>2, <2>3, <3>1, <3>4 DEF LiveIsFound, TypeOK, ListTypeOK
  <2> QED BY <2>1, <2>2, <2>3
<1> QED BY <1>3, <1>5, <1>8, <1>9 DEF RegistryInv

(* Disconnect finds the client's own slot and frees no other.              *)
LEMMA DisconnectStep ==
  ASSUME RegistryInv, NEW id \in ID, Disconnect(id)
  PROVE  RegistryInv'
<1> USE MaxClientsAssumption, IDAssumption
<1>1. /\ TypeOK /\ IsFiniteSet(live) /\ CountExact /\ SlotsHoldLive /\ LiveIsFound
      /\ id \in live /\ live' = live \ {id} /\ RemoveClient(id)
  BY DEF RegistryInv, Disconnect
<1>2. Cardinality(live') = Cardinality(live) - 1 /\ IsFiniteSet(live')
  BY <1>1, FS_RemoveElement
<1>3. iClientCount # 0
  BY <1>1, FS_EmptySet DEF CountExact
<1>4. PICK m \in InUse : clientList[m] = id
  BY <1>1 DEF SlotsHoldLive
<1>5. m \in Slot
  BY <1>4 DEF InUse
<1>6. PICK i \in Slot : FirstWith(id, i) /\ InUseList' = [InUseList EXCEPT ![i] = FALSE]
  BY <1>1, <1>3, <1>4, <1>5 DEF RemoveClient
<1>7. iClientCount' = iClientCount - 1 /\ clientList' = clientList
  BY <1>1, <1>3, <1>4, <1>5 DEF RemoveClient
<1>8. i \in InUse /\ clientList[i] = id /\ InUse' = InUse \ {i}
  BY <1>1, <1>6 DEF LiveIsFound, FirstWith, InUse, TypeOK, ListTypeOK
<1>9. TypeOK'
  BY <1>1, <1>3, <1>6, <1>7 DEF TypeOK, ListTypeOK
<1>10. CountExact'
  <2>1. Cardinality(InUse') = Cardinality(InUse) - 1
    BY <1>8, InUseFinite, FS_RemoveElement
  <2> QED BY <1>1, <1>2, <1>7, <2>1 DEF CountExact
<1>11. SlotsHoldLive'
  <2>1. {clientList'[j] : j \in InUse'} = live'
    BY <1>1, <1>7, <1>8 DEF SlotsHoldLive
  <2>2. \A j, k \in InUse' : clientList'[j] = clientList'[k] => j = k
    BY <1>1, <1>7, <1>8 DEF SlotsHoldLive
  <2> QED BY <2>1, <2>2 DEF SlotsHoldLive
<1>12. LiveIsFound'
  <2> SUFFICES ASSUME NEW c \in live', NEW k \in Slot, FirstWith(c, k)'
               PROVE  InUseList'[k]
    BY DEF LiveIsFound, Slot
  <2>1. FirstWith(c, k) /\ c \in live /\ c # id
    BY <1>1, <1>7 DEF FirstWith
  <2> QED BY <1>1, <1>6, <1>8, <2>1 DEF LiveIsFound, FirstWith, TypeOK, ListTypeOK
<1> QED BY <1>2, <1>9, <1>10, <1>11, <1>12 DEF RegistryInv

LEMMA StutterStep == RegistryInv /\ UNCHANGED vars => RegistryInv'
  BY DEF RegistryInv, vars, TypeOK, ListTypeOK, CountExact, SlotsHoldLive, LiveIsFound,
     FirstWith, InUse

-----------------------------------------------------------------------------
(* The table, the counter and the connected clients agree in every state.  *)
THEOREM RegistryInvariant == Spec => []RegistryInv
<1>1. RegistryInv /\ [Next]_vars => RegistryInv'
  <2> SUFFICES ASSUME RegistryInv, [Next]_vars PROVE RegistryInv'
    OBVIOUS
  <2>1. ASSUME NEW id \in ID, Refuse(id) PROVE UNCHANGED vars
    BY <2>1 DEF Refuse, AddClientFails, listVars, vars
  <2> QED BY <2>1, ConnectStep, DisconnectStep, StutterStep DEF Next
<1> QED BY <1>1, InitRegistryInv, PTL DEF Spec

(* Type correctness of the table, MAX_CLIENTS bounding the counter.        *)
THEOREM TypeCorrectness == Spec => []TypeOK
<1>1. RegistryInv => TypeOK
  BY DEF RegistryInv
<1> QED BY <1>1, RegistryInvariant, PTL

(* A search for a connected client stops at the client's own slot.         *)
THEOREM LiveClientFound == Spec => []LiveIsFound
<1>1. RegistryInv => LiveIsFound
  BY DEF RegistryInv
<1> QED BY <1>1, RegistryInvariant, PTL

(* AddClient refuses only when MAX_CLIENTS clients are connected: its      *)
(* "Error adding client" after the search is never reached below that.     *)
THEOREM RefusalMeansFull == Spec => []RefusedOnlyWhenFull
<1>1. RegistryInv => RefusedOnlyWhenFull
  BY SlotsFinite DEF RegistryInv, CountExact, RefusedOnlyWhenFull, Full
<1> QED BY <1>1, RegistryInvariant, PTL

(* No step moves a client from its slot or overwrites it while it stays.   *)
THEOREM SlotStability == Spec => SlotKeepsClient
<1>1. ASSUME RegistryInv, [Next]_vars
      PROVE  [\A i \in InUse : clientList[i] \in live' => i \in InUse' /\ clientList'[i] = clientList[i]]_vars
  <2> SUFFICES ASSUME NEW id \in ID, Connect(id) \/ Refuse(id) \/ Disconnect(id),
                      NEW i \in InUse, clientList[i] \in live'
               PROVE  i \in InUse' /\ clientList'[i] = clientList[i]
    BY <1>1 DEF Next
  <2>1. CASE Connect(id)
    BY <1>1, <2>1 DEF Connect, AddClient, FirstFree, InUse, RegistryInv, TypeOK, ListTypeOK
  <2>2. CASE Refuse(id)
    BY <2>2 DEF Refuse, AddClientFails, listVars, InUse
  <2>3. CASE Disconnect(id)
    <3>1. clientList[i] # id
      BY <2>3 DEF Disconnect
    <3> QED BY <1>1, <2>3, <3>1 DEF Disconnect, RemoveClient, FirstWith, listVars, InUse,
          RegistryInv, TypeOK, ListTypeOK
  <2> QED BY <2>1, <2>2, <2>3
<1> QED BY <1>1, RegistryInvariant, PTL DEF Spec, SlotKeepsClient
=============================================================================
