------------------------ MODULE ServerSessionsProofs ------------------------
(***************************************************************************)
(* Theorems about ServerSessions for every number of slots, servers and    *)
(* clients.  However the sessions of servers overlap: the variables have   *)
(* their types, the server list never holds more than one server, in its   *)
(* first slot, and its counter is the number of active slots.  As long as  *)
(* servers come one after the other: the list shows the one that is up,    *)
(* and the shared struct is about one server.                              *)
(***************************************************************************)
EXTENDS ServerSessions, FiniteSetTheorems, TLAPS

(* The invariant that the steps keep.  AddServer looks for the ServerID    *)
(* that the struct has from the server before, and whatever is active in   *)
(* the list is under this ID: the search ends at slot 0.                   *)
ListOfOne ==
  /\ DOMAIN serverList = Slot
  /\ serverHandle = [ServerID |-> serverHandle.ServerID, addr |-> serverHandle.addr,
                     port |-> serverHandle.port, sSocket_Read |-> serverHandle.sSocket_Read]
  /\ Active \subseteq {0} /\ Running \subseteq Active
  /\ iServerCount = (IF 0 \in Active THEN 1 ELSE 0)
  /\ 0 \in Active => serverList[0] = serverHandle.ServerID

LEMMA ZeroIsASlot == 0 \in Slot /\ \A i \in Slot : i = 0 \/ 0 < i
  BY MaxServersAssumption DEF Slot

LEMMA InitListOfOne == Init => ListOfOne
  BY DEF Init, InitializeServerHandleList, ListOfOne

(* A free slot that AddServer finds is the first: if that were taken, it   *)
(* would be by the ID the search stops at.                                 *)
LEMMA AddsFirst ==
  ASSUME ListOfOne, NEW i \in Slot \ Active, AddStopsAt(i, serverHandle.ServerID)
  PROVE  i = 0
<1> SUFFICES ASSUME 0 < i
             PROVE  FALSE
  BY ZeroIsASlot
<1> QED BY ZeroIsASlot DEF AddStopsAt, ListOfOne

LEMMA AddsNewKeeps ==
  ASSUME ListOfOne, AcceptorAddsNew
  PROVE  ListOfOne'
<1>1. PICK i \in Slot \ Active :
        /\ AddStopsAt(i, serverHandle.ServerID)
        /\ serverList' = [serverList EXCEPT ![i] = GetServerID]
        /\ Active' = Active \cup {i} /\ Running' = Running \cup {i}
  BY DEF AcceptorAddsNew, AddServerNew
<1>2. i = 0
  BY <1>1, AddsFirst
<1>3. iServerCount' = iServerCount + 1 /\ serverHandle' = [serverHandle EXCEPT !.ServerID = GetServerID]
  BY DEF AcceptorAddsNew, AddServerNew
<1>4. serverHandle'.ServerID = GetServerID
  BY <1>3 DEF ListOfOne
<1>5. serverHandle' = [ServerID |-> serverHandle'.ServerID, addr |-> serverHandle'.addr,
                       port |-> serverHandle'.port, sSocket_Read |-> serverHandle'.sSocket_Read]
  BY <1>3 DEF ListOfOne
<1>6. serverList'[0] = GetServerID /\ DOMAIN serverList' = Slot
  BY <1>1, <1>2, ZeroIsASlot DEF ListOfOne
<1>7. Active' = {0} /\ Running' \subseteq {0} /\ iServerCount' = 1
  BY <1>1, <1>2, <1>3 DEF ListOfOne
<1> QED BY <1>4, <1>5, <1>6, <1>7 DEF ListOfOne, Slot

LEMMA AddsAgainKeeps ==
  ASSUME ListOfOne, AcceptorAddsAgain
  PROVE  ListOfOne'
<1>1. PICK i \in Active : Running' = Running \cup {i}
  BY DEF AcceptorAddsAgain, AddServerAgain
<1>2. UNCHANGED <<serverList, Active, iServerCount, serverHandle>>
  BY DEF AcceptorAddsAgain, AddServerAgain
<1> QED BY <1>1, <1>2 DEF ListOfOne, Slot

LEMMA RemovesKeeps ==
  ASSUME ListOfOne, NEW id, RemoveServer(id), UNCHANGED serverHandle
  PROVE  ListOfOne'
<1>1. CASE UNCHANGED listVars
  BY <1>1 DEF listVars, ListOfOne, Slot
<1>2. CASE ~UNCHANGED listVars
  <2>1. PICK i \in FirstWith(id, Running) :
          /\ Active' = Active \ {i} /\ Running' = Running \ {i}
          /\ iServerCount' = iServerCount - 1 /\ UNCHANGED serverList
    BY <1>2 DEF RemoveServer
  <2>2. i = 0 /\ 0 \in Active
    BY <2>1 DEF FirstWith, ListOfOne
  <2> QED BY <2>1, <2>2 DEF ListOfOne, Slot
<1> QED BY <1>1, <1>2

LEMMA InactiveKeeps ==
  ASSUME ListOfOne, NEW i, SetsInactive(i), UNCHANGED serverHandle
  PROVE  ListOfOne'
  BY DEF SetsInactive, ListOfOne, Slot

(* What the other steps have in common: they leave the list alone, and the *)
(* ServerID in the struct.                                                 *)
ListUntouched ==
  /\ UNCHANGED listVars
  /\ \/ UNCHANGED serverHandle
     \/ \E v : \/ serverHandle' = [serverHandle EXCEPT !.addr = v]
               \/ serverHandle' = [serverHandle EXCEPT !.port = v]
               \/ serverHandle' = [serverHandle EXCEPT !.sSocket_Read = v]

LEMMA UntouchedKeeps ==
  ASSUME ListOfOne, ListUntouched
  PROVE  ListOfOne'
<1>1. serverHandle'.ServerID = serverHandle.ServerID
  BY DEF ListOfOne, ListUntouched
<1>2. serverHandle' = [ServerID |-> serverHandle'.ServerID, addr |-> serverHandle'.addr,
                       port |-> serverHandle'.port, sSocket_Read |-> serverHandle'.sSocket_Read]
  BY DEF ListOfOne, ListUntouched
<1> QED BY <1>1, <1>2 DEF ListUntouched, listVars, ListOfOne, Slot

-----------------------------------------------------------------------------
(* Every step                                                              *)

LEMMA HandlerKeepsList ==
  ASSUME ListOfOne, NEW h \in Server, Handler(h)
  PROVE  ListOfOne'
<1>1. CASE HSetsInactive(h)
  <2>1. (\E i \in slot[h] : SetsInactive(i)) /\ UNCHANGED serverHandle
    BY <1>1 DEF HSetsInactive, handleVars
  <2> QED BY <2>1, InactiveKeeps
<1>2. CASE HRemovesServer(h)
  <2>1. /\ RemoveServer(GetServerID) \/ RemoveServer(serverHandle.ServerID)
        /\ UNCHANGED serverHandle
    BY <1>2 DEF HRemovesServer, handleVars
  <2> QED BY <2>1, RemovesKeeps
<1>3. CASE HWaitsForInit(h) \/ HWaits(h)
  <2>1. ListUntouched
    BY <1>3 DEF HWaitsForInit, HWaits, ReceivesFrom, handleVars, ListUntouched
  <2> QED BY <2>1, UntouchedKeeps
<1>4. CASE HReceivesInit(h) \/ HInitEnds(h) \/ HConnects(h)
  <2>1. ListUntouched
    BY <1>4 DEF HReceivesInit, HInitEnds, HConnects, ListUntouched
  <2> QED BY <2>1, UntouchedKeeps
<1>5. CASE \/ HAssignsBackups(h) \/ HCannotSendID(h) \/ HSendsID(h) \/ HConnectFails(h)
           \/ HReceivesEnd(h) \/ HClosesBoth(h) \/ HFindsSlot(h) \/ HClosesOne(h)
  <2>1. ListUntouched
    BY <1>5 DEF HAssignsBackups, HCannotSendID, HSendsID, HConnectFails, HReceivesEnd,
                HClosesBoth, HFindsSlot, HClosesOne, handleVars, ListUntouched
  <2> QED BY <2>1, UntouchedKeeps
<1> QED BY <1>1, <1>2, <1>3, <1>4, <1>5 DEF Handler

LEMMA AcceptorKeepsList ==
  ASSUME ListOfOne, Acceptor
  PROVE  ListOfOne'
<1>1. CASE AcceptsServer \/ AcceptorCreatesThread
  <2>1. ListUntouched
    BY <1>1 DEF AcceptsServer, AcceptorCreatesThread, ListUntouched
  <2> QED BY <2>1, UntouchedKeeps
<1> QED BY <1>1, AddsNewKeeps, AddsAgainKeeps DEF Acceptor

LEMMA OthersKeepList ==
  ASSUME ListOfOne,
         \/ \E s \in Server : SConnects(s) \/ StorageServer(s) \/ SCrashes(s)
         \/ \E c \in Client : Resolves(c) \/ CannotForward(c) \/ Forwards(c)
  PROVE  ListOfOne'
<1>1. ListUntouched
  BY DEF SConnects, StorageServer, SSendsInit, SReceivesID, SFindsLinkClosed, SListens, SAccepts,
         SLinkEnds, SCrashes, Resolves, CannotForward, Forwards, nsVars, handleVars, ListUntouched
<1> QED BY <1>1, UntouchedKeeps

LEMMA ListKept == ListOfOne /\ [Next]_vars => ListOfOne'
<1> SUFFICES ASSUME ListOfOne, [Next]_vars PROVE ListOfOne'
  OBVIOUS
<1>1. CASE Next
  BY <1>1, HandlerKeepsList, AcceptorKeepsList, OthersKeepList DEF Next
<1>2. CASE UNCHANGED vars
  <2>1. ListUntouched
    BY <1>2 DEF vars, nsVars, handleVars, ListUntouched
  <2> QED BY <2>1, UntouchedKeeps
<1> QED BY <1>1, <1>2

(* The invariant that the theorem below rests on: whatever is active is    *)
(* slot 0, under the ID that the acceptor's struct has.                    *)
THEOREM AtMostOneServer == Spec => []ListOfOne
<1> QED BY InitListOfOne, ListKept, PTL DEF Spec

LEMMA ListOfOneSuffices == ListOfOne => ListInv
<1> SUFFICES ASSUME ListOfOne
             PROVE  ListInv
  OBVIOUS
<1>1. CASE 0 \in Active
  <2>1. Active = {0}
    BY <1>1 DEF ListOfOne
  <2>2. Cardinality(Active) = 1
    BY <2>1, FS_Singleton
  <2> QED BY <1>1, <2>1, <2>2 DEF ListOfOne, ListInv
<1>2. CASE 0 \notin Active
  <2>1. Active = {} /\ Cardinality({}) = 0
    BY <1>2, FS_EmptySet DEF ListOfOne
  <2> QED BY <1>2, <2>1 DEF ListOfOne, ListInv
<1> QED BY <1>1, <1>2

(* However the sessions of servers overlap, the counter of the server list *)
(* is the number of active slots, there is one at most, slot 0, and it is  *)
(* the one of the ID in the acceptor's struct (AddServer, RemoveServer and *)
(* SetInactive of Server_Handle.c).                                        *)
THEOREM ListOfOneServer == Spec => []ListInv
<1> QED BY AtMostOneServer, ListOfOneSuffices, PTL

-----------------------------------------------------------------------------
(* Types.  What is sent to a server as its ID is one only because the      *)
(* struct's ServerID is never used before AddServer has set it.            *)

StructKnown ==
  /\ acceptor.at # "accept" => acceptor.server \in Server /\ serverHandle.addr \in Server
  /\ serverHandle.ServerID = NoServer =>
       acceptor.at # "create" /\ Active = {} /\ \A h \in Server : hpc[h] = "none"

TypeInv == TypeOK /\ ListOfOne /\ StructKnown

LEMMA InitTypes == Init => TypeInv
<1> SUFFICES ASSUME Init PROVE TypeInv
  OBVIOUS
<1>1. ListOfOne
  BY InitListOfOne
<1>2. ListTypeOK
  BY MaxServersAssumption DEF Init, InitializeServerHandleList, ListTypeOK, Slot
<1>3. StructKnown
  BY DEF Init, InitializeServerHandleList, StructKnown
<1>4. TypeOK
  <2>1. {mounted, down, overlapped} \subseteq BOOLEAN
    BY DEF Init
  <2>2. closed \subseteq {"read", "write"} \X (Server \cup {NoServer}) /\ slot \in [Server -> SUBSET Slot]
    BY DEF Init
  <2>3. backlog \in Seq(Server) /\ toServer \in [Server -> Seq(Server \cup {Request})]
    BY DEF Init
  <2> QED BY <1>2, <2>1, <2>2, <2>3, SessionsAssumption DEF Init, TypeOK, HPosition, SPosition, InSession
<1> QED BY <1>1, <1>3, <1>4 DEF TypeInv

LEMMA CountTyped ==
  ASSUME ListOfOne
  PROVE  iServerCount \in 0 .. MAX_SERVERS
  BY MaxServersAssumption DEF ListOfOne

LEMMA AcceptorTyped ==
  ASSUME TypeInv, Acceptor
  PROVE  TypeOK' /\ StructKnown'
<1> USE ServerAssumption DEF TypeInv, TypeOK, StructKnown, ListTypeOK, GetServerID, linkVars, threadVars, HPosition, InSession
<1>1. ListOfOne'
  BY AcceptorKeepsList DEF TypeInv
<1>2. iServerCount' \in 0 .. MAX_SERVERS
  BY <1>1, MaxServersAssumption DEF ListOfOne
<1>3. CASE AcceptsServer
  <2>1. Head(backlog) \in Server /\ Tail(backlog) \in Seq(Server)
    BY <1>3 DEF AcceptsServer
  <2> QED BY <1>3, <2>1 DEF AcceptsServer, listVars
<1>4. CASE AcceptorAddsNew
  BY <1>2, <1>4 DEF AcceptorAddsNew, AddServerNew
<1>5. CASE AcceptorAddsAgain
  BY <1>2, <1>5 DEF AcceptorAddsAgain, AddServerAgain
<1>6. CASE AcceptorCreatesThread
  BY <1>6 DEF AcceptorCreatesThread, listVars
<1> QED BY <1>3, <1>4, <1>5, <1>6 DEF Acceptor

LEMMA AppendTyped ==
  ASSUME toServer \in [Server -> Seq(Server \cup {Request})], down \in BOOLEAN,
         NEW s, NEW m \in Server \cup {Request}, Send(s, m)
  PROVE  toServer' \in [Server -> Seq(Server \cup {Request})] /\ down' \in BOOLEAN
<1>1. CASE toServer' = [toServer EXCEPT ![s] = Append(@, m)] /\ UNCHANGED down
  <2>1. ASSUME s \in Server PROVE Append(toServer[s], m) \in Seq(Server \cup {Request})
    BY <2>1
  <2> QED BY <1>1, <2>1
<1>2. CASE down' \in BOOLEAN /\ UNCHANGED toServer
  BY <1>2
<1> QED BY <1>1, <1>2 DEF Send

LEMMA InitEndsTyped ==
  ASSUME TypeOK, StructKnown, NEW h \in Server, HInitEnds(h)
  PROVE  TypeOK' /\ StructKnown'
<1> DEFINE Handle == [{"ServerID", "addr", "port", "sSocket_Read"} -> Server \cup {NoServer}]
<1>1. serverHandle \in Handle /\ hpc \in [Server -> HPosition] /\ waits \in [Server -> Server \cup {NoServer}]
  BY DEF TypeOK
<1>2. LeftOnStack \subseteq Server \cup {NoServer}
  BY DEF LeftOnStack
<1>3. PICK to \in {"assign", "remove"} : hpc[h] = "init" /\ hpc' = [hpc EXCEPT ![h] = to]
  BY DEF HInitEnds, HGo
<1>4. hpc' \in [Server -> HPosition] /\ \A g \in Server : hpc'[g] = "none" => hpc[g] = "none"
  BY <1>1, <1>3 DEF HPosition, InSession
<1>5. UNCHANGED serverHandle \/ \E port \in LeftOnStack : serverHandle' = [serverHandle EXCEPT !.port = port]
  BY DEF HInitEnds
<1>6. serverHandle' \in Handle /\ serverHandle'.ServerID = serverHandle.ServerID /\ serverHandle'.addr = serverHandle.addr
  BY <1>1, <1>2, <1>5
<1>7. waits' \in [Server -> Server \cup {NoServer}]
  BY <1>1 DEF HInitEnds
<1>8. hpc'[h] # "none" /\ hpc[h] # "none"
  BY <1>1, <1>3
<1>9. TypeOK'
  BY <1>4, <1>6, <1>7 DEF TypeOK, ListTypeOK, HInitEnds, listVars, linkVars
<1> QED BY <1>3, <1>4, <1>6, <1>8, <1>9 DEF StructKnown, HInitEnds, listVars

LEMMA SendsIDTyped ==
  ASSUME TypeOK, StructKnown, NEW h \in Server, HSendsID(h)
  PROVE  TypeOK' /\ StructKnown'
<1>1. serverHandle.ServerID \in Server
  BY DEF HSendsID, HGo, TypeOK, StructKnown
<1>2. hpc' \in [Server -> HPosition] /\ target' \in [Server -> Server \cup {NoServer}]
  BY DEF HSendsID, HGo, TypeOK, HPosition, InSession
<1>3. toServer' \in [Server -> Seq(Server \cup {Request})] /\ down' \in BOOLEAN
  <2>1. toServer \in [Server -> Seq(Server \cup {Request})] /\ down \in BOOLEAN
    BY DEF TypeOK
  <2> QED BY <1>1, <2>1, AppendTyped DEF HSendsID
<1>4. TypeOK'
  BY <1>2, <1>3 DEF HSendsID, TypeOK, ListTypeOK, listVars, handleVars
<1> QED BY <1>1, <1>4, ServerAssumption DEF HSendsID, StructKnown, listVars, handleVars

LEMMA ConnectFailsTyped ==
  ASSUME TypeOK, StructKnown, NEW h \in Server, HConnectFails(h)
  PROVE  TypeOK' /\ StructKnown'
<1>1. tries \in [Server -> 0 .. MAX_CONN_REQ + 1] /\ hpc \in [Server -> HPosition] /\ MAX_CONN_REQ \in Nat
  BY SessionsAssumption DEF TypeOK
<1>2. CASE tries[h] > MAX_CONN_REQ
  <2>1. HGo(h, "connect", "remove") /\ UNCHANGED tries
    BY <1>2 DEF HConnectFails
  <2>2. hpc' \in [Server -> HPosition] /\ \A g \in Server : hpc'[g] = "none" => hpc[g] = "none"
    BY <1>1, <2>1 DEF HGo, HPosition
  <2> QED BY <2>1, <2>2 DEF HConnectFails, TypeOK, ListTypeOK, StructKnown, listVars, handleVars, linkVars
<1>3. CASE ~(tries[h] > MAX_CONN_REQ)
  <2>1. tries' = [tries EXCEPT ![h] = @ + 1] /\ UNCHANGED hpc
    BY <1>3 DEF HConnectFails
  <2>2. tries[h] \in 0 .. MAX_CONN_REQ
    BY <1>1, <1>3
  <2>3. tries[h] + 1 \in 0 .. MAX_CONN_REQ + 1
    BY <1>1, <2>2
  <2>4. tries' \in [Server -> 0 .. MAX_CONN_REQ + 1]
    BY <1>1, <2>1, <2>3
  <2> QED BY <2>1, <2>4 DEF HConnectFails, TypeOK, ListTypeOK, StructKnown, listVars, handleVars, linkVars
<1> QED BY <1>2, <1>3

LEMMA HandlerTyped ==
  ASSUME TypeInv, NEW h \in Server, Handler(h)
  PROVE  TypeOK' /\ StructKnown'
<1> USE ServerAssumption, SessionsAssumption
        DEF TypeInv, TypeOK, StructKnown, ListTypeOK, GetServerID, HGo, Send, 
            listVars, linkVars, threadVars, handleVars, HPosition, InSession
<1>1. ListOfOne'
  BY HandlerKeepsList DEF TypeInv
<1>2. iServerCount' \in 0 .. MAX_SERVERS
  BY <1>1, MaxServersAssumption DEF ListOfOne
<1>3. CASE HWaitsForInit(h)
  BY <1>3 DEF HWaitsForInit, ReceivesFrom
<1>4. CASE HReceivesInit(h)
  BY <1>4 DEF HReceivesInit
<1>5. CASE HInitEnds(h)
  BY <1>5, InitEndsTyped DEF TypeInv
<1>6. CASE HAssignsBackups(h)
  BY <1>6 DEF HAssignsBackups
<1>7. CASE HCannotSendID(h)
  BY <1>7 DEF HCannotSendID
<1>8. CASE HSendsID(h)
  BY <1>8, SendsIDTyped DEF TypeInv
<1>9. CASE HConnects(h)
  BY <1>9 DEF HConnects, Reachable
<1>10. CASE HConnectFails(h)
  BY <1>10, ConnectFailsTyped DEF TypeInv
<1>11. CASE HWaits(h)
  BY <1>11 DEF HWaits, ReceivesFrom
<1>12. CASE HReceivesEnd(h)
  BY <1>12 DEF HReceivesEnd
<1>13. CASE HClosesBoth(h)
  <2>1. closed' \subseteq {"read", "write"} \X (Server \cup {NoServer})
    BY <1>13 DEF HClosesBoth
  <2> QED BY <1>13, <2>1 DEF HClosesBoth
<1>14. CASE HFindsSlot(h)
  BY <1>14 DEF HFindsSlot, FirstWith
<1>15. CASE HSetsInactive(h)
  BY <1>15 DEF HSetsInactive, SetsInactive
<1>16. CASE HRemovesServer(h)
  <2>1. hpc' = [hpc EXCEPT ![h] = "closeOne"]
    BY <1>16 DEF HRemovesServer
  <2>2. /\ Active' \subseteq Slot /\ Running' \subseteq Slot
        /\ UNCHANGED <<serverList, handleVars, waits, target, tries, slot, closed, mounted, down,
                       linkVars, spc, Server_ID, cpc, overlapped>>
    <3>1. /\ RemoveServer(GetServerID) \/ RemoveServer(serverHandle.ServerID)
          /\ UNCHANGED <<handleVars, waits, target, tries, slot, closed, mounted, down,
                         linkVars, spc, Server_ID, cpc, overlapped>>
      BY <1>16 DEF HRemovesServer
    <3>2. /\ Active' = Active \/ \E i : Active' = Active \ {i}
          /\ Running' = Running \/ \E i : Running' = Running \ {i}
          /\ UNCHANGED serverList
      BY <3>1 DEF RemoveServer, listVars
    <3>3. Active' \subseteq Slot /\ Running' \subseteq Slot
      BY <3>2
    <3> QED BY <3>1, <3>2, <3>3
  <2>3. hpc' \in [Server -> HPosition]
    BY <2>1
  <2>4. hpc[h] # "none" /\ serverHandle.ServerID # NoServer
    BY <1>16 DEF HRemovesServer
  <2>5. TypeOK'
    BY <1>2, <2>2, <2>3
  <2>6. StructKnown'
    BY <2>2, <2>4
  <2> QED BY <2>5, <2>6
<1>17. CASE HClosesOne(h)
  <2>1. closed' \subseteq {"read", "write"} \X (Server \cup {NoServer})
    BY <1>17 DEF HClosesOne
  <2> QED BY <1>17, <2>1 DEF HClosesOne
<1> QED BY <1>3, <1>4, <1>5, <1>6, <1>7, <1>8, <1>9, <1>10, <1>11, <1>12, <1>13, <1>14, <1>15,
           <1>16, <1>17 DEF Handler

LEMMA ServerMovesTyped ==
  ASSUME TypeOK, StructKnown,
         NEW s \in Server, \/ SSendsInit(s) \/ SFindsLinkClosed(s) \/ SListens(s)
                           \/ SAccepts(s) \/ SLinkEnds(s) \/ SCrashes(s)
  PROVE  TypeOK' /\ StructKnown'
<1>1. PICK to \in SPosition : spc' = [spc EXCEPT ![s] = to]
  BY DEF SSendsInit, SFindsLinkClosed, SListens, SAccepts, SLinkEnds, SCrashes, SGo, SPosition
<1>2. spc' \in [Server -> SPosition]
  BY <1>1 DEF TypeOK
<1>3. init' \subseteq Server
  BY DEF TypeOK, SSendsInit, SFindsLinkClosed, SListens, SAccepts, SLinkEnds, SCrashes, linkVars
<1>4. UNCHANGED <<nsVars, toServer, linked, Server_ID, cpc, overlapped>>
  BY DEF SSendsInit, SFindsLinkClosed, SListens, SAccepts, SLinkEnds, SCrashes, linkVars
<1> QED BY <1>2, <1>3, <1>4
        DEF TypeOK, ListTypeOK, StructKnown, nsVars, listVars, handleVars, threadVars

LEMMA ClientMovesTyped ==
  ASSUME TypeOK, StructKnown, NEW c \in Client, Resolves(c) \/ CannotForward(c)
  PROVE  TypeOK' /\ StructKnown'
<1>1. cpc' \in [Client -> {"idle", "forward", "waitAck"}]
  BY DEF Resolves, CannotForward, CGo, TypeOK
<1>2. UNCHANGED <<nsVars, linkVars, spc, Server_ID, overlapped>>
  BY DEF Resolves, CannotForward
<1> QED BY <1>1, <1>2
        DEF TypeOK, ListTypeOK, StructKnown, nsVars, listVars, handleVars, threadVars, linkVars

LEMMA OthersTyped ==
  ASSUME TypeInv,
         \/ \E s \in Server : SConnects(s) \/ StorageServer(s) \/ SCrashes(s)
         \/ \E c \in Client : Resolves(c) \/ CannotForward(c) \/ Forwards(c)
  PROVE  TypeOK' /\ StructKnown'
<1> USE ServerAssumption, SessionsAssumption
        DEF TypeInv, TypeOK, StructKnown, ListTypeOK, SGo, CGo, Send,
            nsVars, listVars, linkVars, threadVars, handleVars, SPosition
<1>1. ASSUME NEW s \in Server, SConnects(s)
      PROVE  TypeOK' /\ StructKnown'
  <2>1. backlog' \in Seq(Server)
    BY <1>1 DEF SConnects
  <2>2. overlapped' \in BOOLEAN
    BY <1>1 DEF SConnects
  <2> QED BY <1>1, <2>1, <2>2 DEF SConnects
<1>2. ASSUME NEW s \in Server, \/ SSendsInit(s) \/ SFindsLinkClosed(s) \/ SListens(s)
                               \/ SAccepts(s) \/ SLinkEnds(s) \/ SCrashes(s)
      PROVE  TypeOK' /\ StructKnown'
  BY <1>2, ServerMovesTyped DEF TypeInv
<1>3. ASSUME NEW s \in Server, SReceivesID(s)
      PROVE  TypeOK' /\ StructKnown'
  <2>1. Head(toServer[s]) \in Server \cup {Request} /\ Tail(toServer[s]) \in Seq(Server \cup {Request})
    BY <1>3 DEF SReceivesID
  <2>2. toServer' \in [Server -> Seq(Server \cup {Request})]
    BY <1>3, <2>1 DEF SReceivesID
  <2>3. Server_ID' \in [Server -> Server \cup {NoServer, Request}]
    BY <1>3, <2>1 DEF SReceivesID
  <2> QED BY <1>3, <2>2, <2>3 DEF SReceivesID
<1>4. ASSUME NEW c \in Client, Resolves(c) \/ CannotForward(c)
      PROVE  TypeOK' /\ StructKnown'
  BY <1>4, ClientMovesTyped DEF TypeInv
<1>5. ASSUME NEW c \in Client, Forwards(c)
      PROVE  TypeOK' /\ StructKnown'
  <2>1. toServer' \in [Server -> Seq(Server \cup {Request})] /\ down' \in BOOLEAN
    BY <1>5, AppendTyped DEF Forwards
  <2> QED BY <1>5, <2>1 DEF Forwards
<1> QED BY <1>1, <1>2, <1>3, <1>4, <1>5 DEF StorageServer

LEMMA TypesKept == TypeInv /\ [Next]_vars => TypeInv'
<1> SUFFICES ASSUME TypeInv, [Next]_vars PROVE TypeInv'
  OBVIOUS
<1>1. ListOfOne'
  BY ListKept DEF TypeInv
<1>2. CASE Next
  BY <1>1, <1>2, AcceptorTyped, HandlerTyped, OthersTyped DEF Next, TypeInv
<1>3. CASE UNCHANGED vars
  BY <1>1, <1>3 DEF TypeInv, TypeOK, StructKnown, ListTypeOK,
                    vars, nsVars, listVars, linkVars, threadVars, handleVars
<1> QED BY <1>2, <1>3

(* Every variable of the naming server, the storage servers and their      *)
(* connections has its type: no server is told the zero of an empty handle *)
(* as its ID.                                                              *)
THEOREM TypeCorrectness == Spec => []TypeOK
<1>1. TypeInv => TypeOK
  BY DEF TypeInv
<1> QED BY <1>1, InitTypes, TypesKept, PTL DEF Spec

-----------------------------------------------------------------------------
(* Servers that come alone.  The server whose turn it is is the only one   *)
(* that is up, waits to be accepted, or has a handler in session; then the *)
(* struct is this server's, and the one slot is running until its handler  *)
(* has seen it leave.                                                      *)

Resting == {"none", "left", "failed"}

InTurn(s) ==
  \/ spc[s] \notin {"off", "gone"} \/ hpc[s] \notin Resting \/ backlog = <<s>>
  \/ acceptor.at # "accept" /\ acceptor.server = s

HandlerAlone(h) ==
  /\ spc[h] = "off" =>
       hpc[h] = "none" /\ backlog # <<h>> /\ (acceptor.at # "accept" => acceptor.server # h)
  /\ hpc[h] \notin Resting => serverHandle.addr = h /\ acceptor.at = "accept" /\ backlog = <<>>
  /\ hpc[h] \in InSession \cup {"close", "find", "inactive"} => 0 \in Running
  /\ hpc[h] = "init" => waits[h] = h
  /\ hpc[h] = "inactive" => slot[h] = {0}
  /\ hpc[h] = "left" /\ serverHandle.addr = h /\ acceptor.at = "accept" => 0 \in Active /\ 0 \notin Running
  /\ hpc[h] \in {"assign", "sendID", "connect", "loop", "recv"} => serverHandle.port = h \/ Gone(h)
  /\ hpc[h] = "connect" => target[h] = h \/ Gone(h)
  /\ hpc[h] \in {"loop", "recv"} => serverHandle.sSocket_Read = h

AcceptorAlone ==
  /\ backlog = <<>> \/ \E s \in Server : backlog = <<s>> /\ acceptor.at = "accept" /\ hpc[s] = "none"
  /\ acceptor.at # "accept" =>
       backlog = <<>> /\ hpc[acceptor.server] = "none" /\ serverHandle.addr = acceptor.server
  /\ acceptor.at = "create" => 0 \in Running

Alone ==
  /\ \A s, t \in Server : InTurn(s) /\ InTurn(t) => s = t
  /\ AcceptorAlone
  /\ \A h \in Server : HandlerAlone(h)

AloneInv == overlapped \/ Alone

\* The slot of the ID in the struct is the one that is active, if there is one.
LEMMA FindsTheOne ==
  ASSUME ListOfOne
  PROVE  /\ FirstWith(serverHandle.ServerID, Active) = Active
         /\ 0 \in Running => IsActive(serverHandle.ServerID) = 1
         /\ 0 \in Active /\ 0 \notin Running => IsActive(serverHandle.ServerID) = 0
<1>1. FirstWith(serverHandle.ServerID, Active) = Active
  BY DEF FirstWith, ListOfOne
<1> QED BY <1>1 DEF IsActive, ListOfOne

(* What the steps of a handler have in common.                             *)
HandlerMoves(h) ==
  /\ hpc[h] \notin Resting /\ UNCHANGED <<acceptor, backlog, spc, overlapped>>
  /\ serverHandle'.addr = serverHandle.addr
  /\ \A g \in Server \ {h} : hpc'[g] = hpc[g]

LEMMA AllMove ==
  ASSUME TypeOK, NEW h \in Server, Handler(h)
  PROVE  HandlerMoves(h)
<1> DEFINE Handle == [{"ServerID", "addr", "port", "sSocket_Read"} -> Server \cup {NoServer}]
<1>0. serverHandle \in Handle /\ hpc \in [Server -> HPosition]
  BY DEF TypeOK
<1>1. \E from \in HPosition \ Resting : hpc[h] = from
  BY DEF Handler, HWaitsForInit, HReceivesInit, HInitEnds, HAssignsBackups, HCannotSendID, HSendsID,
         HConnects, HConnectFails, HWaits, HReceivesEnd, HClosesBoth, HFindsSlot, HSetsInactive,
         HRemovesServer, HClosesOne, ReceivesFrom, HGo, HPosition, InSession, Resting
<1>2. UNCHANGED <<acceptor, backlog, spc, overlapped>>
  BY DEF Handler, HWaitsForInit, HReceivesInit, HInitEnds, HAssignsBackups, HCannotSendID, HSendsID,
         HConnects, HConnectFails, HWaits, HReceivesEnd, HClosesBoth, HFindsSlot, HSetsInactive,
         HRemovesServer, HClosesOne, ReceivesFrom, handleVars
<1>3. UNCHANGED hpc \/ \E to : hpc' = [hpc EXCEPT ![h] = to]
  BY DEF Handler, HWaitsForInit, HReceivesInit, HInitEnds, HAssignsBackups, HCannotSendID, HSendsID,
         HConnects, HConnectFails, HWaits, HReceivesEnd, HClosesBoth, HFindsSlot, HSetsInactive,
         HRemovesServer, HClosesOne, ReceivesFrom, HGo
<1>4. \/ UNCHANGED serverHandle
      \/ \E v : \/ serverHandle' = [serverHandle EXCEPT !.port = v]
                \/ serverHandle' = [serverHandle EXCEPT !.sSocket_Read = v]
  BY DEF Handler, HWaitsForInit, HReceivesInit, HInitEnds, HAssignsBackups, HCannotSendID, HSendsID,
         HConnects, HConnectFails, HWaits, HReceivesEnd, HClosesBoth, HFindsSlot, HSetsInactive,
         HRemovesServer, HClosesOne, ReceivesFrom, handleVars
<1>5. serverHandle'.addr = serverHandle.addr
  BY <1>0, <1>4
<1>6. \A g \in Server \ {h} : hpc'[g] = hpc[g]
  BY <1>0, <1>3
<1> QED BY <1>1, <1>2, <1>5, <1>6 DEF HandlerMoves

LEMMA OthersRest ==
  ASSUME Alone, NEW h \in Server, HandlerMoves(h), HandlerAlone(h)'
  PROVE  Alone'
<1>1. ~InTurn(h) => FALSE
  BY DEF InTurn, HandlerMoves
<1>2. \A g \in Server \ {h} : ~InTurn(g)
  BY <1>1 DEF Alone
<1>3. serverHandle.addr = h /\ acceptor.at = "accept" /\ backlog = <<>>
  BY DEF Alone, HandlerAlone, HandlerMoves
<1>4. \A g \in Server \ {h} : ~InTurn(g)'
  BY <1>2 DEF InTurn, HandlerMoves
<1>5. AcceptorAlone'
  BY <1>3 DEF AcceptorAlone, HandlerMoves
<1>6. ASSUME NEW g \in Server \ {h} PROVE HandlerAlone(g)'
  <2>1. HandlerAlone(g) /\ hpc[g] \in Resting /\ hpc'[g] = hpc[g]
    BY <1>2 DEF Alone, InTurn, HandlerMoves
  <2> QED BY <1>3, <2>1 DEF HandlerAlone, HandlerMoves, Resting, InSession
<1> QED BY <1>4, <1>5, <1>6 DEF Alone

\* Of the slots only slot 0 is active, so that what leaves it running is told from here.
LEMMA HandlerItself ==
  ASSUME TypeInv, Alone, NEW h \in Server, Handler(h)
  PROVE  HandlerAlone(h)'
<1> DEFINE Handle == [{"ServerID", "addr", "port", "sSocket_Read"} -> Server \cup {NoServer}]
<1>0. /\ serverHandle \in Handle /\ hpc \in [Server -> HPosition]
      /\ waits \in [Server -> Server \cup {NoServer}] /\ target \in [Server -> Server \cup {NoServer}]
      /\ slot \in [Server -> SUBSET Slot]
  BY DEF TypeInv, TypeOK
<1>1. HandlerMoves(h) /\ HandlerAlone(h) /\ ListOfOne
  BY AllMove DEF TypeInv, Alone
<1>2. serverHandle.addr = h /\ acceptor.at = "accept" /\ backlog = <<>> /\ spc[h] # "off"
  BY <1>1 DEF HandlerAlone, HandlerMoves, Resting
<1>3. serverHandle'.addr = h /\ acceptor'.at = "accept" /\ backlog' = <<>> /\ spc' = spc
  BY <1>1, <1>2 DEF HandlerMoves
<1> USE <1>0, <1>1, <1>2, <1>3 DEF HandlerAlone, HGo, Resting, InSession, Gone, handleVars, listVars
<1>4. CASE HWaitsForInit(h)
  BY <1>4 DEF HWaitsForInit, ReceivesFrom
<1>5. CASE HReceivesInit(h)
  BY <1>5 DEF HReceivesInit
<1>6. CASE HInitEnds(h)
  BY <1>6 DEF HInitEnds
<1>7. CASE HAssignsBackups(h)
  BY <1>7 DEF HAssignsBackups
<1>8. CASE HCannotSendID(h)
  BY <1>8 DEF HCannotSendID
<1>9. CASE HSendsID(h)
  BY <1>9 DEF HSendsID
<1>10. CASE HConnects(h)
  <2>1. hpc[h] = "connect" /\ target[h] \in Server /\ spc[target[h]] \notin {"off", "gone"}
    BY <1>10 DEF HConnects, Reachable
  <2>2. InTurn(target[h]) /\ InTurn(h)
    BY <2>1 DEF InTurn
  <2>3. target[h] = h
    BY <2>1, <2>2 DEF Alone
  <2> QED BY <1>10, <2>3 DEF HConnects
<1>11. CASE HConnectFails(h)
  BY <1>11 DEF HConnectFails
<1>12. CASE HWaits(h)
  BY <1>12 DEF HWaits, ReceivesFrom
<1>13. CASE HReceivesEnd(h)
  BY <1>13 DEF HReceivesEnd
<1>14. CASE HClosesBoth(h)
  BY <1>14 DEF HClosesBoth
<1>15. CASE HFindsSlot(h)
  <2>1. FirstWith(serverHandle.ServerID, Active) = {0}
    BY <1>15, FindsTheOne DEF HFindsSlot, ListOfOne
  <2> QED BY <1>15, <2>1 DEF HFindsSlot
<1>16. CASE HSetsInactive(h)
  <2>1. Running' = Running \ {0} /\ Active' = Active /\ 0 \in Active
    BY <1>16 DEF HSetsInactive, SetsInactive, ListOfOne
  <2> QED BY <1>16, <2>1 DEF HSetsInactive
<1>17. CASE HRemovesServer(h)
  BY <1>17 DEF HRemovesServer
<1>18. CASE HClosesOne(h)
  BY <1>18 DEF HClosesOne
<1> QED BY <1>4, <1>5, <1>6, <1>7, <1>8, <1>9, <1>10, <1>11, <1>12, <1>13, <1>14, <1>15, <1>16,
           <1>17, <1>18 DEF Handler

LEMMA AcceptorStaysAlone ==
  ASSUME TypeInv, Alone, Acceptor
  PROVE  Alone'
<1>0. /\ serverHandle \in [{"ServerID", "addr", "port", "sSocket_Read"} -> Server \cup {NoServer}]
      /\ acceptor \in [at : {"accept", "add", "create"}, server : Server \cup {NoServer}]
      /\ hpc \in [Server -> HPosition] /\ ListOfOne
      /\ acceptor.at # "accept" => acceptor.server \in Server
  BY DEF TypeInv, TypeOK, StructKnown
<1>1. CASE AcceptsServer
  <2>1. PICK s \in Server : backlog = <<s>> /\ acceptor.at = "accept" /\ hpc[s] = "none"
    BY <1>1 DEF AcceptsServer, Alone, AcceptorAlone
  <2>2. acceptor' = [at |-> "add", server |-> s] /\ backlog' = <<>> /\ serverHandle'.addr = s
    BY <1>0, <1>1, <2>1 DEF AcceptsServer
  <2>3. UNCHANGED <<hpc, spc>>
    BY <1>1 DEF AcceptsServer, threadVars
  <2>4. InTurn(s) /\ \A g \in Server : InTurn(g)' => InTurn(g)
    BY <2>1, <2>2, <2>3 DEF InTurn
  <2>5. ASSUME NEW h \in Server PROVE HandlerAlone(h)'
    <3>1. HandlerAlone(h) /\ (hpc[h] \notin Resting => FALSE) /\ (spc[h] = "off" => h # s)
      BY <2>1 DEF Alone, HandlerAlone
    <3> QED BY <2>2, <2>3, <3>1 DEF HandlerAlone, Resting, InSession
  <2>6. AcceptorAlone'
    BY <2>1, <2>2, <2>3 DEF AcceptorAlone
  <2> QED BY <2>4, <2>5, <2>6 DEF Alone
<1>2. CASE AcceptorAddsNew \/ AcceptorAddsAgain
  <2>1. acceptor.at = "add" /\ acceptor' = [acceptor EXCEPT !.at = "create"] /\ UNCHANGED <<backlog, hpc, spc>>
    BY <1>2 DEF AcceptorAddsNew, AcceptorAddsAgain, threadVars
  <2>2. serverHandle'.addr = serverHandle.addr
    BY <1>0, <1>2 DEF AcceptorAddsNew, AcceptorAddsAgain
  <2>3. \A g \in Server : InTurn(g)' <=> InTurn(g)
    BY <1>0, <2>1 DEF InTurn
  <2>4. 0 \in Running'
    <3>1. CASE AcceptorAddsNew
      <4>1. PICK i \in Slot \ Active : AddStopsAt(i, serverHandle.ServerID) /\ Running' = Running \cup {i}
        BY <3>1 DEF AcceptorAddsNew, AddServerNew
      <4> QED BY <1>0, <4>1, AddsFirst
    <3>2. CASE AcceptorAddsAgain
      BY <1>0, <3>2 DEF AcceptorAddsAgain, AddServerAgain, ListOfOne
    <3> QED BY <1>2, <3>1, <3>2
  <2>5. acceptor'.at = "create" /\ acceptor'.server = acceptor.server
    BY <1>0, <2>1
  <2>6. ASSUME NEW h \in Server PROVE HandlerAlone(h)'
    <3>1. HandlerAlone(h) /\ hpc[h] \in Resting
      BY <2>1 DEF Alone, HandlerAlone
    <3> QED BY <2>1, <2>2, <2>5, <3>1 DEF HandlerAlone, Resting, InSession
  <2>7. AcceptorAlone'
    BY <2>1, <2>2, <2>4, <2>5 DEF Alone, AcceptorAlone
  <2> QED BY <2>3, <2>6, <2>7 DEF Alone
<1>3. CASE AcceptorCreatesThread
  <2>0. PICK s \in Server : s = acceptor.server
    BY <1>0, <1>3 DEF AcceptorCreatesThread
  <2>1. s = acceptor.server /\ acceptor.at = "create" /\ hpc[s] = "none" /\ backlog = <<>> /\ serverHandle.addr = s
    BY <1>3, <2>0 DEF AcceptorCreatesThread, Alone, AcceptorAlone
  <2>2. hpc' = [hpc EXCEPT ![s] = "begin"] /\ acceptor'.at = "accept"
        /\ UNCHANGED <<listVars, serverHandle, backlog, spc>>
    BY <1>3, <2>0 DEF AcceptorCreatesThread
  <2>3. hpc'[s] = "begin" /\ \A g \in Server \ {s} : hpc'[g] = hpc[g]
    BY <1>0, <2>1, <2>2
  <2>4. 0 \in Running' /\ spc[s] # "off"
    BY <2>1, <2>2 DEF Alone, AcceptorAlone, HandlerAlone, listVars
  <2>5. \A g \in Server : InTurn(g)' => InTurn(g)
    BY <2>1, <2>2, <2>3 DEF InTurn
  <2>6. HandlerAlone(s)'
    BY <2>1, <2>2, <2>3, <2>4 DEF HandlerAlone, Resting, InSession
  <2>7. ASSUME NEW h \in Server \ {s} PROVE HandlerAlone(h)'
    <3>1. HandlerAlone(h) /\ hpc[h] \in Resting
      BY <2>1 DEF Alone, HandlerAlone
    <3> QED BY <2>1, <2>2, <2>3, <3>1 DEF HandlerAlone, Resting, InSession
  <2>8. AcceptorAlone'
    BY <2>1, <2>2 DEF AcceptorAlone
  <2> QED BY <2>5, <2>6, <2>7, <2>8 DEF Alone
<1> QED BY <1>1, <1>2, <1>3 DEF Acceptor

LEMMA ServersStayAlone ==
  ASSUME TypeInv, Alone, ~overlapped',
         \E s \in Server : SConnects(s) \/ StorageServer(s) \/ SCrashes(s)
  PROVE  Alone'
<1>1. ASSUME NEW s \in Server, SConnects(s) PROVE Alone'
  <2>1. Quiet /\ spc[s] = "off" /\ spc' = [spc EXCEPT ![s] = "connected"] /\ backlog' = <<s>>
        /\ UNCHANGED <<listVars, serverHandle, acceptor, threadVars>>
    <3>1. overlapped' = (overlapped \/ ~Quiet) /\ backlog' = Append(backlog, s)
      BY <1>1 DEF SConnects
    <3>2. Quiet
      BY <3>1, Zenon
    <3>3. backlog' = <<s>>
      BY <3>1, <3>2 DEF Quiet
    <3> QED BY <1>1, <3>2, <3>3 DEF SConnects, SGo
  <2>2. \A g \in Server : ~InTurn(g)
    BY <2>1 DEF Quiet, InTurn, Resting
  <2>3. hpc[s] = "none"
    BY <2>1 DEF Alone, HandlerAlone
  <2>4. \A g \in Server \ {s} : spc'[g] = spc[g] /\ backlog' # <<g>>
    BY <2>1 DEF TypeInv, TypeOK
  <2>5. \A g \in Server \ {s} : ~InTurn(g)'
    BY <2>1, <2>2, <2>4 DEF InTurn, threadVars
  <2>6. ASSUME NEW h \in Server PROVE HandlerAlone(h)'
    <3>1. HandlerAlone(h) /\ hpc[h] \in Resting /\ acceptor.at = "accept"
      BY <2>1, <2>2 DEF Alone, InTurn, Quiet
    <3>2. spc'[s] = "connected"
      BY <2>1 DEF TypeInv, TypeOK
    <3> QED BY <2>1, <2>4, <3>1, <3>2 DEF HandlerAlone, Resting, InSession, threadVars, listVars
  <2>7. AcceptorAlone'
    BY <2>1, <2>3 DEF AcceptorAlone, Quiet, threadVars
  <2> QED BY <2>5, <2>6, <2>7 DEF Alone
<1>2. ASSUME NEW s \in Server, StorageServer(s) \/ SCrashes(s) PROVE Alone'
  <2>1. UNCHANGED nsVars
    BY <1>2 DEF StorageServer, SSendsInit, SReceivesID, SFindsLinkClosed, SListens, SAccepts, SLinkEnds, SCrashes
  <2>2. \E to \in SPosition \ {"off"} : spc' = [spc EXCEPT ![s] = to]
    BY <1>2 DEF StorageServer, SSendsInit, SReceivesID, SFindsLinkClosed, SListens, SAccepts, SLinkEnds,
                SCrashes, SGo, SPosition
  <2>3. spc[s] \notin {"off", "gone"}
    BY <1>2 DEF StorageServer, SSendsInit, SReceivesID, SFindsLinkClosed, SListens, SAccepts, SLinkEnds,
                SCrashes, SGo
  <2>4. spc'[s] # "off" /\ \A g \in Server \ {s} : spc'[g] = spc[g]
    BY <2>2 DEF TypeInv, TypeOK
  <2>5. \A g \in Server : InTurn(g)' => InTurn(g)
    BY <2>1, <2>3, <2>4 DEF InTurn, nsVars, handleVars, threadVars
  <2>6. ASSUME NEW h \in Server PROVE HandlerAlone(h)'
    <3>1. HandlerAlone(h)
      BY DEF Alone
    <3>2. Gone(h) => Gone(h)'
      BY <2>3, <2>4 DEF Gone
    <3> QED BY <2>1, <2>4, <3>1, <3>2 DEF HandlerAlone, nsVars, handleVars, threadVars, listVars
  <2>7. AcceptorAlone'
    BY <2>1 DEF Alone, AcceptorAlone, nsVars, handleVars, threadVars, listVars
  <2> QED BY <2>5, <2>6, <2>7 DEF Alone
<1> QED BY <1>1, <1>2

LEMMA ClientsLeaveAlone ==
  ASSUME Alone, UNCHANGED <<nsVars, spc>> \/ \E c \in Client : Resolves(c) \/ CannotForward(c) \/ Forwards(c)
  PROVE  Alone'
<1>1. UNCHANGED <<listVars, handleVars, threadVars, spc>>
  BY DEF Resolves, CannotForward, Forwards, nsVars
<1> QED BY <1>1 DEF Alone, InTurn, AcceptorAlone, HandlerAlone, Gone, listVars, handleVars, threadVars

LEMMA OverlapStays ==
  ASSUME TypeOK, overlapped, [Next]_vars
  PROVE  overlapped'
<1>1. ASSUME NEW s \in Server, SConnects(s) PROVE overlapped'
  <2>1. overlapped' = (overlapped \/ ~Quiet)
    BY <1>1 DEF SConnects
  <2> QED BY <2>1, Zenon
<1>2. ASSUME NEW s \in Server, StorageServer(s) \/ SCrashes(s) PROVE UNCHANGED overlapped
  BY <1>2 DEF StorageServer, SSendsInit, SReceivesID, SFindsLinkClosed, SListens, SAccepts, SLinkEnds, SCrashes
<1>3. ASSUME NEW h \in Server, Handler(h) PROVE UNCHANGED overlapped
  BY <1>3, AllMove DEF HandlerMoves
<1>4. ASSUME Acceptor PROVE UNCHANGED overlapped
  BY <1>4 DEF Acceptor, AcceptsServer, AcceptorAddsNew, AcceptorAddsAgain, AcceptorCreatesThread
<1>5. ASSUME NEW c \in Client, Resolves(c) \/ CannotForward(c) \/ Forwards(c) PROVE UNCHANGED overlapped
  BY <1>5 DEF Resolves, CannotForward, Forwards
<1>6. (\E s \in Server : SConnects(s)) \/ UNCHANGED overlapped
  BY <1>2, <1>3, <1>4, <1>5 DEF Next, vars
<1>7. CASE UNCHANGED overlapped
  BY <1>7, Zenon
<1> QED BY <1>1, <1>6, <1>7

LEMMA AloneKept == TypeInv /\ AloneInv /\ [Next]_vars => AloneInv'
<1> SUFFICES ASSUME TypeInv, AloneInv, [Next]_vars, ~overlapped' PROVE Alone'
  BY DEF AloneInv
<1>0. Alone
  <2>1. TypeOK
    BY DEF TypeInv
  <2>2. ~overlapped
    BY <2>1, OverlapStays
  <2> QED BY <2>2 DEF AloneInv
<1>1. CASE \E h \in Server : Handler(h)
  <2>1. PICK h \in Server : Handler(h)
    BY <1>1
  <2>2. HandlerMoves(h)
    BY <2>1, AllMove DEF TypeInv
  <2> QED BY <1>0, <2>1, <2>2, HandlerItself, OthersRest
<1>2. CASE UNCHANGED vars
  BY <1>0, <1>2, ClientsLeaveAlone DEF vars
<1> QED BY <1>0, <1>1, <1>2, AcceptorStaysAlone, ServersStayAlone, ClientsLeaveAlone DEF Next

LEMMA InitAlone == Init => AloneInv
  BY DEF Init, AloneInv, Alone, InTurn, Resting, AcceptorAlone, HandlerAlone, InSession

(* The invariant of the two theorems below. *)
THEOREM AloneInvariant == Spec => []AloneInv
<1>1. TypeInv /\ AloneInv /\ [Next]_vars => (TypeInv /\ AloneInv)'
  BY TypesKept, AloneKept
<1>2. Init => TypeInv /\ AloneInv
  BY InitTypes, InitAlone
<1>3. TypeInv /\ AloneInv => AloneInv
  OBVIOUS
<1> QED BY <1>1, <1>2, PTL DEF Spec

(* Of servers that come one after the other, the list says that one is up  *)
(* as long as its handler is in session, and that it is not once the       *)
(* handler has seen it leave (AddServer, SetInactive and RemoveServer).    *)
THEOREM AloneIsListed == Spec => []SessionIsListedAlone
<1>1. ListOfOne /\ AloneInv => SessionIsListedAlone
  <2> SUFFICES ASSUME ListOfOne, Alone, NEW h \in Server
               PROVE  /\ hpc[h] \in InSession => IsActive(serverHandle.ServerID) = 1
                      /\ hpc[h] = "left" /\ serverHandle.addr = h /\ acceptor.at = "accept"
                           => IsActive(serverHandle.ServerID) = 0
    BY DEF AloneInv, SessionIsListedAlone, SessionIsListed
  <2> QED BY FindsTheOne DEF Alone, HandlerAlone
<1> QED BY <1>1, AtMostOneServer, AloneInvariant, PTL

(* Of servers that come one after the other, the address and port that     *)
(* clients are told, and the connection back, are those of one server      *)
(* (Storage_Server_Handler_Thread, which fills the acceptor's struct).     *)
THEOREM AloneIsOneServer == Spec => []HandleOfOneServerAlone
<1>1. AloneInv => HandleOfOneServerAlone
  BY DEF AloneInv, HandleOfOneServerAlone, Alone, HandlerAlone, Resting
<1> QED BY <1>1, AloneInvariant, PTL
=============================================================================
