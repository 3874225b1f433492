--------------------------- MODULE ServerSessions ---------------------------
(***************************************************************************)
(* Storage servers and the naming server: registration, the connection     *)
(* back, the end of a session, and RENAME, which the naming server         *)
(* forwards.  (src/Naming Sever/NS.c, Storage_Server_Acceptor_Thread,      *)
(* Storage_Server_Handler_Thread, Client_Handler_Thread; src/Storage       *)
(* Server/SS.c, main and NS_Listner_Thread; src/Client, Rncmd.)            *)
(*                                                                         *)
(* As with clients, the acceptor fills one SERVER_HANDLE_STRUCT on its     *)
(* stack for every server, and all handlers, the mount trie and the cache  *)
(* hold its address.  The ServerID in it stays until AddServer sets it.    *)
(*                                                                         *)
(* Two connections link a storage server: it connects to write its packet  *)
(* and read its ID (the naming server's sSocket_Write), and the naming     *)
(* server connects back (sSocket_Read).  RENAME is sent on the first; the  *)
(* storage server waits for it on the second, on which nothing is sent.    *)
(***************************************************************************)
EXTENDS ServerList, Sequences

CONSTANTS Client,        \* clients, of each of which one RENAME is forwarded
          Request,       \* a RENAME on its way; as an ID, the bytes it begins with
          MAX_CONN_REQ

ASSUME SessionsAssumption == Request \notin Server \cup {NoServer} /\ MAX_CONN_REQ \in Nat

VARIABLES
  serverHandle, \* the acceptor's struct; addr stands for IP, port and sSocket_Write
  acceptor,     \* the acceptor's position and the server it is busy with
  backlog,      \* servers that have connected and are not accepted
  hpc,          \* position of each server's handler
  waits,        \* the server on whose connection a handler is blocked in recv
  target,       \* the server whose port a handler connects to
  tries,
  slot,         \* the slot that SetInactive has found, as a set
  closed,       \* connections that the naming server has closed
  mounted,      \* the servers' paths are in the mount trie
  down,         \* the naming server was killed by SIGPIPE
  spc,          \* position of each storage server
  Server_ID,    \* the ID each has read
  init,         \* servers whose packet is sent and not received
  toServer,     \* what is sent to each server on sSocket_Write and not read
  linked,       \* servers that were connected back to
  cpc,          \* position of each client
  overlapped    \* a server has connected before the session of another was over

handleVars == <<serverHandle, acceptor, backlog>>
threadVars == <<hpc, waits, target, tries, slot>>
nsVars == <<listVars, handleVars, threadVars, closed, mounted, down>>
linkVars == <<init, toServer, linked>>
vars == <<nsVars, linkVars, spc, Server_ID, cpc, overlapped>>

Init ==
  /\ InitializeServerHandleList
  /\ serverHandle = [ServerID |-> NoServer, addr |-> NoServer, port |-> NoServer,
                     sSocket_Read |-> NoServer]
  /\ acceptor = [at |-> "accept", server |-> NoServer] /\ backlog = <<>>
  /\ hpc = [h \in Server |-> "none"] /\ waits = [h \in Server |-> NoServer]
  /\ target = [h \in Server |-> NoServer] /\ tries = [h \in Server |-> 0]
  /\ slot = [h \in Server |-> {}]
  /\ closed = {} /\ mounted = FALSE /\ down = FALSE
  /\ spc = [s \in Server |-> "off"] /\ Server_ID = [s \in Server |-> NoServer]
  /\ init = {} /\ toServer = [s \in Server |-> <<>>] /\ linked = {}
  /\ cpc = [c \in Client |-> "idle"] /\ overlapped = FALSE

-----------------------------------------------------------------------------
(* The storage server                                                      *)

SGo(s, from, to) == spc[s] = from /\ spc' = [spc EXCEPT ![s] = to]

Quiet ==
  /\ acceptor.at = "accept" /\ backlog = <<>>
  /\ \A s \in Server : spc[s] \in {"off", "gone"} /\ hpc[s] \in {"none", "left", "failed"}

SConnects(s) ==
  /\ SGo(s, "off", "connected")
  /\ backlog' = Append(backlog, s)
  /\ overlapped' = (overlapped \/ ~Quiet)
  /\ UNCHANGED <<listVars, serverHandle, acceptor, threadVars, closed, mounted, down,
                 linkVars, Server_ID, cpc>>

SSendsInit(s) ==
  /\ SGo(s, "connected", "waitID")
  /\ init' = init \cup {s}
  /\ UNCHANGED <<nsVars, toServer, linked, Server_ID, cpc, overlapped>>

(* Eight bytes are read, whatever they are.  Of a request that has got in  *)
(* before the ID, the rest stays in the socket, with what comes behind it. *)
SReceivesID(s) ==
  /\ toServer[s] # <<>> /\ SGo(s, "waitID", "start")
  /\ Server_ID' = [Server_ID EXCEPT ![s] = Head(toServer[s])]
  /\ toServer' = [toServer EXCEPT ![s] = IF Head(@) = Request THEN @ ELSE Tail(@)]
  /\ UNCHANGED <<nsVars, init, linked, cpc, overlapped>>

\* A connection is over when it is closed and no thread is still blocked on it.
SFindsLinkClosed(s) ==
  /\ toServer[s] = <<>> /\ <<"write", s>> \in closed /\ \A h \in Server : waits[h] # s
  /\ SGo(s, "waitID", "gone")
  /\ UNCHANGED <<nsVars, linkVars, Server_ID, cpc, overlapped>>

SListens(s) ==
  /\ SGo(s, "start", "listening")
  /\ UNCHANGED <<nsVars, linkVars, Server_ID, cpc, overlapped>>

SAccepts(s) ==
  /\ s \in linked /\ SGo(s, "listening", "serving")
  /\ UNCHANGED <<nsVars, linkVars, Server_ID, cpc, overlapped>>

\* The listener ends; the threads that serve clients go on.
SLinkEnds(s) ==
  /\ <<"read", s>> \in closed /\ SGo(s, "serving", "unlinked")
  /\ UNCHANGED <<nsVars, linkVars, Server_ID, cpc, overlapped>>

StorageServer(s) ==
  SSendsInit(s) \/ SReceivesID(s) \/ SFindsLinkClosed(s) \/ SListens(s) \/ SAccepts(s) \/ SLinkEnds(s)

SCrashes(s) ==
  /\ spc[s] \notin {"off", "gone"} /\ spc' = [spc EXCEPT ![s] = "gone"]
  /\ UNCHANGED <<nsVars, linkVars, Server_ID, cpc, overlapped>>

-----------------------------------------------------------------------------
(* The acceptor                                                            *)

AcceptsServer ==
  /\ acceptor.at = "accept" /\ backlog # <<>>
  /\ acceptor' = [at |-> "add", server |-> Head(backlog)]
  /\ backlog' = Tail(backlog)
  /\ serverHandle' = [serverHandle EXCEPT !.addr = Head(backlog)]
  /\ UNCHANGED <<listVars, threadVars, closed, mounted, down, linkVars, spc, Server_ID, cpc, overlapped>>

\* GetServerID: from the address and port in the struct.
GetServerID == serverHandle.addr

AcceptorAddsNew ==
  /\ acceptor.at = "add" /\ acceptor' = [acceptor EXCEPT !.at = "create"]
  /\ AddServerNew(GetServerID, serverHandle.ServerID)
  /\ serverHandle' = [serverHandle EXCEPT !.ServerID = GetServerID]
  /\ UNCHANGED <<backlog, threadVars, closed, mounted, down, linkVars, spc, Server_ID, cpc, overlapped>>

\* The list holds the ID that the struct has from the server before.
AcceptorAddsAgain ==
  /\ acceptor.at = "add" /\ acceptor' = [acceptor EXCEPT !.at = "create"]
  /\ AddServerAgain(serverHandle.ServerID)
  /\ UNCHANGED <<serverHandle, backlog, threadVars, closed, mounted, down, linkVars, spc, Server_ID, cpc, overlapped>>

AcceptorCreatesThread ==
  /\ acceptor.at = "create" /\ acceptor' = [at |-> "accept", server |-> NoServer]
  /\ hpc' = [hpc EXCEPT ![acceptor.server] = "begin"]
  /\ UNCHANGED <<listVars, serverHandle, backlog, waits, target, tries, slot, closed, mounted, down,
                 linkVars, spc, Server_ID, cpc, overlapped>>

Acceptor == AcceptsServer \/ AcceptorAddsNew \/ AcceptorAddsAgain \/ AcceptorCreatesThread

-----------------------------------------------------------------------------
(* Storage_Server_Handler_Thread.  The semaphore before the first step     *)
(* blocks nobody: a handler waits for it after it has posted it.           *)

HGo(h, from, to) == hpc[h] = from /\ hpc' = [hpc EXCEPT ![h] = to]

Closed(s) == <<"write", s>> \in closed
Gone(s) == spc[s] = "gone"

\* recv on the server's connection of this moment.
ReceivesFrom(h, from, to) ==
  /\ HGo(h, from, IF Closed(serverHandle.addr) THEN "remove" ELSE to)
  /\ waits' = [waits EXCEPT ![h] = IF Closed(serverHandle.addr) THEN NoServer ELSE serverHandle.addr]
  /\ UNCHANGED <<listVars, handleVars, target, tries, slot, closed, mounted, down,
                 linkVars, spc, Server_ID, cpc, overlapped>>

HWaitsForInit(h) == ReceivesFrom(h, "begin", "init")

\* Fault: a server that is in the list already keeps the ports it had.
HKeepsPorts(h) ==
  /\ waits[h] \in init /\ HGo(h, "init", "assign")
  /\ waits' = [waits EXCEPT ![h] = NoServer]
  /\ init' = init \ {waits[h]}
  /\ serverHandle' = [serverHandle EXCEPT !.port = IF mounted THEN @ ELSE waits[h]]
  /\ mounted' = TRUE
  /\ UNCHANGED <<listVars, acceptor, backlog, target, tries, slot, closed, down,
                 toServer, linked, spc, Server_ID, cpc, overlapped>>

HReceivesInit(h) ==
  /\ waits[h] \in init /\ HGo(h, "init", "assign")
  /\ waits' = [waits EXCEPT ![h] = NoServer]
  /\ init' = init \ {waits[h]}
  /\ serverHandle' = [serverHandle EXCEPT !.port = waits[h]]
  /\ mounted' = TRUE
  /\ UNCHANGED <<listVars, acceptor, backlog, target, tries, slot, closed, down,
                 toServer, linked, spc, Server_ID, cpc, overlapped>>

(* What the stack may hold in place of a packet: the one of an earlier     *)
(* handler, or no port and no path that anything could be done with.       *)
LeftOnStack == {NoServer} \cup {s \in Server : hpc[s] \notin {"none", "begin", "init"}}

(* A server that dies without unread data ends the stream, which is no     *)
(* error, and the packet is used as the stack has it; with unread data it  *)
(* resets the connection.                                                  *)
HInitEnds(h) ==
  /\ hpc[h] = "init" /\ waits[h] \notin init /\ Gone(waits[h])
  /\ \/ /\ toServer[waits[h]] # <<>> /\ HGo(h, "init", "remove")
        /\ UNCHANGED serverHandle
     \/ /\ toServer[waits[h]] = <<>>
        /\ \E to \in {"assign", "remove"}, port \in LeftOnStack :
             HGo(h, "init", to) /\ serverHandle' = [serverHandle EXCEPT !.port = port]
  /\ waits' = [waits EXCEPT ![h] = NoServer]
  /\ UNCHANGED <<listVars, acceptor, backlog, target, tries, slot, closed, mounted, down,
                 linkVars, spc, Server_ID, cpc, overlapped>>

(* With BACKUP_SERVERS = 0 there is nothing to assign to a server in the   *)
(* list.  One that is not in it would be removed by the ServerID that the  *)
(* struct holds by then, not by its address as elsewhere.                  *)
HAssignsBackups(h) ==
  /\ HGo(h, "assign", IF FirstWith(serverHandle.ServerID, Active) = {} THEN "removeListed" ELSE "sendID")
  /\ UNCHANGED <<listVars, handleVars, waits, target, tries, slot, closed, mounted, down,
                 linkVars, spc, Server_ID, cpc, overlapped>>

(* send to a server: what is sent to one that is gone is lost, or raises   *)
(* SIGPIPE.                                                                *)
Send(s, message) ==
  \/ ~Gone(s) /\ toServer' = [toServer EXCEPT ![s] = Append(@, message)] /\ UNCHANGED down
  \/ Gone(s) /\ down' \in BOOLEAN /\ UNCHANGED toServer

HCannotSendID(h) ==
  /\ Closed(serverHandle.addr) /\ HGo(h, "sendID", "remove")
  /\ UNCHANGED <<listVars, handleVars, waits, target, tries, slot, closed, mounted, down,
                 linkVars, spc, Server_ID, cpc, overlapped>>

\* Fault: the server is sent the ID of its address, not the one in the list.
HSendsOwnID(h) ==
  /\ ~Closed(serverHandle.addr) /\ HGo(h, "sendID", "connect")
  /\ Send(serverHandle.addr, GetServerID)
  /\ target' = [target EXCEPT ![h] = serverHandle.port]
  /\ UNCHANGED <<listVars, handleVars, waits, tries, slot, closed, mounted, init, linked,
                 spc, Server_ID, cpc, overlapped>>

HSendsID(h) ==
  /\ ~Closed(serverHandle.addr) /\ HGo(h, "sendID", "connect")
  /\ Send(serverHandle.addr, serverHandle.ServerID)
  /\ target' = [target EXCEPT ![h] = serverHandle.port]
  /\ UNCHANGED <<listVars, handleVars, waits, tries, slot, closed, mounted, init, linked,
                 spc, Server_ID, cpc, overlapped>>

Reachable(s) == s # NoServer /\ spc[s] \in {"listening", "serving", "unlinked"}

HConnects(h) ==
  /\ Reachable(target[h]) /\ HGo(h, "connect", "loop")
  /\ linked' = linked \cup {target[h]}
  /\ serverHandle' = [serverHandle EXCEPT !.sSocket_Read = target[h]]
  /\ UNCHANGED <<listVars, acceptor, backlog, waits, target, tries, slot, closed, mounted, down,
                 init, toServer, spc, Server_ID, cpc, overlapped>>

HConnectFails(h) ==
  /\ hpc[h] = "connect" /\ ~Reachable(target[h])
  /\ IF tries[h] > MAX_CONN_REQ
     THEN HGo(h, "connect", "remove") /\ UNCHANGED tries
     ELSE tries' = [tries EXCEPT ![h] = @ + 1] /\ UNCHANGED hpc
  /\ UNCHANGED <<listVars, handleVars, waits, target, slot, closed, mounted, down,
                 linkVars, spc, Server_ID, cpc, overlapped>>

(* The loop: storage servers send nothing on this connection, and recv     *)
(* returns when the server is gone, with 0 or, if it has left data unread, *)
(* with an error.                                                          *)
HWaits(h) == ReceivesFrom(h, "loop", "recv")

HReceivesEnd(h) ==
  /\ hpc[h] = "recv" /\ Gone(waits[h]) /\ HGo(h, "recv", IF toServer[waits[h]] = <<>> THEN "close" ELSE "remove")
  /\ waits' = [waits EXCEPT ![h] = NoServer]
  /\ UNCHANGED <<listVars, handleVars, target, tries, slot, closed, mounted, down,
                 linkVars, spc, Server_ID, cpc, overlapped>>

HClosesBoth(h) ==
  /\ HGo(h, "close", "find")
  /\ closed' = closed \cup {<<"write", serverHandle.addr>>, <<"read", serverHandle.sSocket_Read>>}
  /\ UNCHANGED <<listVars, handleVars, waits, target, tries, slot, mounted, down,
                 linkVars, spc, Server_ID, cpc, overlapped>>

HFindsSlot(h) ==
  /\ slot' = [slot EXCEPT ![h] = FirstWith(serverHandle.ServerID, Active)]
  /\ HGo(h, "find", IF slot'[h] = {} THEN "remove" ELSE "inactive")
  /\ UNCHANGED <<listVars, handleVars, waits, target, tries, closed, mounted, down,
                 linkVars, spc, Server_ID, cpc, overlapped>>

HSetsInactive(h) ==
  /\ \E i \in slot[h] : SetsInactive(i)
  /\ HGo(h, "inactive", "left")
  /\ UNCHANGED <<handleVars, waits, target, tries, slot, closed, mounted, down,
                 linkVars, spc, Server_ID, cpc, overlapped>>

HRemovesServer(h) ==
  /\ hpc[h] \in {"remove", "removeListed"} /\ hpc' = [hpc EXCEPT ![h] = "closeOne"]
  /\ RemoveServer(IF hpc[h] = "remove" THEN GetServerID ELSE serverHandle.ServerID)
  /\ UNCHANGED <<handleVars, waits, target, tries, slot, closed, mounted, down,
                 linkVars, spc, Server_ID, cpc, overlapped>>

HClosesOne(h) ==
  /\ HGo(h, "closeOne", "failed")
  /\ closed' = closed \cup {<<"write", serverHandle.addr>>}
  /\ UNCHANGED <<listVars, handleVars, waits, target, tries, slot, mounted, down,
                 linkVars, spc, Server_ID, cpc, overlapped>>

Handler(h) ==
  \/ HWaitsForInit(h) \/ HReceivesInit(h) \/ HInitEnds(h) \/ HAssignsBackups(h)
  \/ HCannotSendID(h) \/ HSendsID(h) \/ HConnects(h) \/ HConnectFails(h)
  \/ HWaits(h) \/ HReceivesEnd(h) \/ HClosesBoth(h) \/ HFindsSlot(h) \/ HSetsInactive(h)
  \/ HRemovesServer(h) \/ HClosesOne(h)

-----------------------------------------------------------------------------
(* RENAME: the client handler resolves the path, which ends at the one     *)
(* struct, asks whether its server is active, and forwards the request.    *)
(* The client is told and waits for the acknowledgement.                   *)

CGo(c, from, to) == cpc[c] = from /\ cpc' = [cpc EXCEPT ![c] = to]

(* Whether the look-up may find a server.  It takes source and target for  *)
(* one path and finds it by accident only: in the cache by the hash alone, *)
(* in the trie by the hash or by a name with a space in it.                *)
ResolvePath == mounted

\* A client whose request is refused has nothing to wait for, and may ask again.
Resolves(c) ==
  /\ ResolvePath /\ IsActive(serverHandle.ServerID) # 0
  /\ CGo(c, "idle", "forward")
  /\ UNCHANGED <<nsVars, linkVars, spc, Server_ID, overlapped>>

CannotForward(c) ==
  /\ Closed(serverHandle.addr) /\ CGo(c, "forward", "idle")
  /\ UNCHANGED <<nsVars, linkVars, spc, Server_ID, overlapped>>

Forwards(c) ==
  /\ ~Closed(serverHandle.addr) /\ CGo(c, "forward", "waitAck")
  /\ Send(serverHandle.addr, Request)
  /\ UNCHANGED <<listVars, handleVars, threadVars, closed, mounted, init, linked, spc, Server_ID, overlapped>>

Next ==
  /\ ~down
  /\ \/ \E s \in Server : SConnects(s) \/ StorageServer(s) \/ SCrashes(s) \/ Handler(s)
     \/ Acceptor
     \/ \E c \in Client : Resolves(c) \/ CannotForward(c) \/ Forwards(c)

Spec == Init /\ [][Next]_vars

(* Some thread that can go on does; nobody has to connect, to ask or to    *)
(* crash.  As each thread takes a bounded number of steps, this makes all  *)
(* of them go on.                                                          *)
Threads == Acceptor \/ \E s \in Server : StorageServer(s) \/ Handler(s)

LiveSpec == Spec /\ WF_vars(~down /\ Threads)

-----------------------------------------------------------------------------
InSession == {"begin", "init", "assign", "sendID", "connect", "loop", "recv"}
HPosition == InSession \cup {"none", "close", "find", "inactive", "left", "remove", "removeListed",
                          "closeOne", "failed"}
SPosition == {"off", "connected", "waitID", "start", "listening", "serving", "unlinked", "gone"}

TypeOK ==
  /\ ListTypeOK
  /\ serverHandle \in [{"ServerID", "addr", "port", "sSocket_Read"} -> Server \cup {NoServer}]
  /\ acceptor \in [at : {"accept", "add", "create"}, server : Server \cup {NoServer}]
  /\ backlog \in Seq(Server) /\ hpc \in [Server -> HPosition]
  /\ {waits, target} \subseteq [Server -> Server \cup {NoServer}]
  /\ tries \in [Server -> 0 .. MAX_CONN_REQ + 1] /\ slot \in [Server -> SUBSET Slot]
  /\ closed \subseteq {"read", "write"} \X (Server \cup {NoServer})
  /\ {mounted, down, overlapped} \subseteq BOOLEAN
  /\ spc \in [Server -> SPosition] /\ Server_ID \in [Server -> Server \cup {NoServer, Request}]
  /\ init \subseteq Server /\ linked \subseteq Server
  /\ toServer \in [Server -> Seq(Server \cup {Request})]
  /\ cpc \in [Client -> {"idle", "forward", "waitAck"}]

(* However sessions overlap, the counter is the number of active slots, of *)
(* which there is one at most, the one of the ID in the acceptor's struct: *)
(* the list never fills up, although no slot of a server that left is ever *)
(* given back.                                                             *)
ListInv ==
  /\ iServerCount = Cardinality(Active) /\ Running \subseteq Active
  /\ Active \subseteq {0} /\ \A i \in Active : serverList[i] = serverHandle.ServerID

(* The list says that a server is up as long as its handler is in session, *)
(* and that it is not once the handler has seen it leave.                  *)
SessionIsListed ==
  /\ \A h \in Server : hpc[h] \in InSession => IsActive(serverHandle.ServerID) = 1
  /\ \A h \in Server : hpc[h] = "left" /\ serverHandle.addr = h /\ acceptor.at = "accept"
       => IsActive(serverHandle.ServerID) = 0

\* It does for servers that come one after the other, each after the session of the last.
SessionIsListedAlone == ~overlapped => SessionIsListed

(* For servers that come alone, once a server's packet is in, the address  *)
(* and the port that clients are told are the ones of the same server, and *)
(* it is this server that was connected back to.                           *)
HandleOfOneServerAlone ==
  ~overlapped =>
    \A h \in Server :
      /\ hpc[h] \in {"assign", "sendID", "connect", "loop", "recv"} =>
           serverHandle.addr = h /\ (serverHandle.port = h \/ Gone(h))
      /\ hpc[h] \in {"loop", "recv"} => serverHandle.sSocket_Read = h

(* A server that comes alone and stays knows the ID that it has in the     *)
(* list and is connected back to, unless the naming server gives up        *)
(* connecting or a RENAME gets in before the ID.                           *)
RegistersAlone ==
  \A s \in Server :
    spc[s] = "connected" ~>
      \/ spc[s] = "serving" /\ \E i \in Running : serverList[i] = Server_ID[s]
      \/ spc[s] = "gone" \/ hpc[s] = "failed"
      \/ overlapped \/ down \/ Server_ID[s] = Request

(* "rename requested path to new path, send an ack to server after         *)
(* completion": a client that was told that its RENAME is on its way       *)
(* hears of it again, if no server leaves.                                 *)
RenameReturns ==
  \A c \in Client :
    cpc[c] = "waitAck" ~> cpc[c] # "waitAck" \/ \E s \in Server : spc[s] = "gone"
=============================================================================
