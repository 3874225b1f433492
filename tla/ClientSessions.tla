--------------------------- MODULE ClientSessions ---------------------------
(***************************************************************************)
(* The client side of the naming server (src/Naming Sever/NS.c): the       *)
(* acceptor thread, one handler thread per client, and the client list.    *)
(*                                                                         *)
(* The acceptor fills one CLIENT_HANDLE_STRUCT on its stack, passes its    *)
(* address to every handler it creates, and fills it again for the next    *)
(* client; a handler follows the pointer at every call it makes.  A        *)
(* handler is named by the connection it was created for.                  *)
(***************************************************************************)
EXTENDS ClientList

CONSTANTS NoConn,      \* no connection; ID is also the set of connections: an
                       \* address and port make one connection and one ID
          MinusOne,    \* the ClientID that AddClient writes before it looks for a slot
          MaxOpen      \* bound: how many clients are served at a time

ASSUME SessionsAssumption ==
  /\ NoConn \notin ID /\ MinusOne \notin ID \cup {NoID}
  /\ IsFiniteSet(ID) /\ MaxOpen \in Nat

Conn == ID
Fd == 1 .. Cardinality(Conn) + 1

VARIABLES fd,           \* the naming server's descriptors: the connection behind each
          clientHandle, \* the acceptor's local struct
          acceptor,     \* the acceptor's position and the connection it is busy with
          pc,           \* position of each handler
          ClientID,     \* each handler's own variable ClientID
          waits,        \* the connection whose data a handler is blocked on
          request,      \* the client whose request a handler is working on
          inbox,        \* connections with a request that was sent and not received
          closed,       \* connections closed by the client, or refused
          leaving,      \* those whose last request is CLOSE_CONNECTION
          ids,          \* IDs each client was sent
          asked,        \* clients that sent their request
          answers,      \* for each client, whose requests the answers it got belong to
          met           \* history: clients that were accepted while a handler was running,
                        \* and those whose handlers these were

threadVars == <<pc, ClientID, waits, request>>
clientVars == <<inbox, closed, leaving, ids, asked, answers>>
vars == <<listVars, fd, clientHandle, acceptor, threadVars, clientVars, met>>

FreeFd == CHOOSE f \in Fd : fd[f] = NoConn /\ \A g \in Fd : fd[g] = NoConn => f <= g

\* The connection behind client->iClientSocket at this moment.
Peer == fd[clientHandle.iClientSocket]

Running == {h \in Conn : pc[h] \notin {"none", "done"}}
Connected == {c \in Conn : acceptor.conn = c \/ \E f \in Fd : fd[f] = c}

Init ==
  /\ InitializeClientHandleList
  /\ fd = [f \in Fd |-> NoConn]
  /\ clientHandle = [ClientID |-> NoID, iClientSocket |-> 1]
  /\ acceptor = [at |-> "accept", conn |-> NoConn]
  /\ pc = [h \in Conn |-> "none"] /\ ClientID = [h \in Conn |-> NoID]
  /\ waits = [h \in Conn |-> NoConn] /\ request = [h \in Conn |-> NoConn]
  /\ inbox = {} /\ closed = {} /\ leaving = {} /\ asked = {}
  /\ ids = [c \in Conn |-> {}] /\ answers = [c \in Conn |-> {}]
  /\ met = {}

-----------------------------------------------------------------------------
(* The acceptor                                                            *)

(* accept() returns the lowest free descriptor; the struct gets the new    *)
(* socket, and AddClient writes -1 to ClientID before it takes its mutex.  *)
Accept(c) ==
  /\ acceptor.at = "accept" /\ pc[c] = "none" /\ c \notin closed
  /\ Cardinality(Running) < MaxOpen
  /\ fd' = [fd EXCEPT ![FreeFd] = c]
  /\ clientHandle' = [ClientID |-> MinusOne, iClientSocket |-> FreeFd]
  /\ acceptor' = [at |-> "add", conn |-> c]
  /\ met' = met \cup Running \cup (IF Running = {} THEN {} ELSE {c})
  /\ UNCHANGED <<listVars, threadVars, clientVars>>

AcceptorAdds ==
  /\ acceptor.at = "add"
  /\ AddClient(acceptor.conn)
  /\ clientHandle' = [clientHandle EXCEPT !.ClientID = acceptor.conn]
  /\ acceptor' = [acceptor EXCEPT !.at = "create"]
  /\ UNCHANGED <<fd, threadVars, clientVars, met>>

(* The refused client's socket is closed; the struct keeps its number.     *)
AcceptorRefuses ==
  /\ acceptor.at = "add"
  /\ AddClientFails
  /\ fd' = [fd EXCEPT ![clientHandle.iClientSocket] = NoConn]
  /\ acceptor' = [at |-> "accept", conn |-> NoConn]
  /\ closed' = closed \cup {acceptor.conn}
  /\ UNCHANGED <<clientHandle, threadVars, inbox, leaving, ids, asked, answers, met>>

AcceptorCreatesThread ==
  /\ acceptor.at = "create"
  /\ pc' = [pc EXCEPT ![acceptor.conn] = "begin"]
  /\ acceptor' = [at |-> "accept", conn |-> NoConn]
  /\ UNCHANGED <<listVars, fd, clientHandle, ClientID, waits, request, clientVars, met>>

-----------------------------------------------------------------------------
(* Client_Handler_Thread                                                   *)

Go(h, from, to) == pc[h] = from /\ pc' = [pc EXCEPT ![h] = to]

HandlerBegins(h) ==
  /\ Go(h, "begin", "sendID")
  /\ ClientID' = [ClientID EXCEPT ![h] = clientHandle.ClientID]
  /\ UNCHANGED <<listVars, fd, clientHandle, acceptor, waits, request, clientVars, met>>

\* A send on a descriptor that was closed fails, and the handler gives up.
SendsID(h) ==
  /\ Go(h, "sendID", IF Peer = NoConn THEN "remove" ELSE "peek")
  /\ ids' = IF Peer = NoConn THEN ids ELSE [ids EXCEPT ![Peer] = @ \cup {ClientID[h]}]
  /\ UNCHANGED <<listVars, fd, clientHandle, acceptor, ClientID, waits, request,
                 inbox, closed, leaving, asked, answers, met>>

\* IsSocketConnected: a blocking recv with MSG_PEEK on the socket of this moment.
Peeks(h) ==
  /\ Go(h, "peek", "peeking")
  /\ waits' = [waits EXCEPT ![h] = Peer]
  /\ UNCHANGED <<listVars, fd, clientHandle, acceptor, ClientID, request, clientVars, met>>

(* It returned 1 or the error -1, which the loop takes for connected; the  *)
(* recv that follows reads the socket from the struct again.               *)
PeekReturns(h) ==
  /\ waits[h] \in inbox \cup {NoConn}
  /\ Go(h, "peeking", "receiving")
  /\ waits' = [waits EXCEPT ![h] = Peer]
  /\ UNCHANGED <<listVars, fd, clientHandle, acceptor, ClientID, request, clientVars, met>>

EndOfStream(h) == waits[h] \in closed \ inbox

PeekFindsEnd(h) ==
  /\ EndOfStream(h) /\ Go(h, "peeking", "remove")
  /\ waits' = [waits EXCEPT ![h] = NoConn]
  /\ UNCHANGED <<listVars, fd, clientHandle, acceptor, ClientID, request, clientVars, met>>

Receives(h) ==
  /\ waits[h] \in inbox \ leaving
  /\ Go(h, "receiving", "answer")
  /\ request' = [request EXCEPT ![h] = waits[h]]
  /\ inbox' = inbox \ {waits[h]}
  /\ waits' = [waits EXCEPT ![h] = NoConn]
  /\ UNCHANGED <<listVars, fd, clientHandle, acceptor, ClientID, closed, leaving,
                 ids, asked, answers, met>>

ReceivesClose(h) ==
  /\ waits[h] \in inbox \cap leaving
  /\ Go(h, "receiving", "remove")
  /\ inbox' = inbox \ {waits[h]}
  /\ waits' = [waits EXCEPT ![h] = NoConn]
  /\ UNCHANGED <<listVars, fd, clientHandle, acceptor, ClientID, request, closed, leaving,
                 ids, asked, answers, met>>

ReceiveFails(h) ==
  /\ EndOfStream(h) \/ waits[h] = NoConn
  /\ Go(h, "receiving", "remove")
  /\ waits' = [waits EXCEPT ![h] = NoConn]
  /\ UNCHANGED <<listVars, fd, clientHandle, acceptor, ClientID, request, clientVars, met>>

\* Fault: the answer goes out and the request stays to be answered again.
AnswersTwice(h) ==
  /\ Go(h, "answer", IF Peer = NoConn THEN "remove" ELSE "answer")
  /\ answers' = IF Peer = NoConn THEN answers ELSE [answers EXCEPT ![Peer] = @ \cup {request[h]}]
  /\ UNCHANGED <<listVars, fd, clientHandle, acceptor, ClientID, waits, request,
                 inbox, closed, leaving, ids, asked, met>>

\* Fault: the response is built in a buffer that all handlers share.
AnswersFromSharedBuffer(h) ==
  /\ Go(h, "answer", IF Peer = NoConn THEN "remove" ELSE "peek")
  /\ \E r \in asked :
       answers' = IF Peer = NoConn THEN answers ELSE [answers EXCEPT ![Peer] = @ \cup {r}]
  /\ request' = [request EXCEPT ![h] = NoConn]
  /\ UNCHANGED <<listVars, fd, clientHandle, acceptor, ClientID, waits,
                 inbox, closed, leaving, ids, asked, met>>

Answers(h) ==
  /\ Go(h, "answer", IF Peer = NoConn THEN "remove" ELSE "peek")
  /\ answers' = IF Peer = NoConn THEN answers ELSE [answers EXCEPT ![Peer] = @ \cup {request[h]}]
  /\ request' = [request EXCEPT ![h] = NoConn]
  /\ UNCHANGED <<listVars, fd, clientHandle, acceptor, ClientID, waits,
                 inbox, closed, leaving, ids, asked, met>>

\* Fault: the handler ends without taking its client out of the list.
KeepsClient(h) ==
  Go(h, "remove", "close")
  /\ UNCHANGED <<listVars, fd, clientHandle, acceptor, ClientID, waits, request, clientVars, met>>

RemovesClient(h) ==
  /\ Go(h, "remove", "close")
  /\ RemoveClient(ClientID[h])
  /\ UNCHANGED <<fd, clientHandle, acceptor, ClientID, waits, request, clientVars, met>>

ClosesSocket(h) ==
  /\ Go(h, "close", "done")
  /\ fd' = [fd EXCEPT ![clientHandle.iClientSocket] = NoConn]
  /\ UNCHANGED <<listVars, clientHandle, acceptor, ClientID, waits, request, clientVars, met>>

Handler(h) ==
  \/ HandlerBegins(h) \/ SendsID(h) \/ Peeks(h) \/ PeekReturns(h) \/ PeekFindsEnd(h)
  \/ Receives(h) \/ ReceivesClose(h) \/ ReceiveFails(h) \/ Answers(h)
  \/ RemovesClient(h) \/ ClosesSocket(h)

-----------------------------------------------------------------------------
(* The clients: each sends one request once it has an ID, and may close,   *)
(* with CLOSE_CONNECTION or without.                                       *)

Asks(c) ==
  /\ ids[c] # {} /\ c \notin asked \cup closed
  /\ asked' = asked \cup {c} /\ inbox' = inbox \cup {c}
  /\ UNCHANGED <<listVars, fd, clientHandle, acceptor, threadVars, closed, leaving, ids, answers, met>>

Closes(c) ==
  /\ c \in Connected \ closed
  /\ closed' = closed \cup {c}
  /\ UNCHANGED <<listVars, fd, clientHandle, acceptor, threadVars, inbox, leaving, ids, asked, answers, met>>

\* Ecmd of the client sends CLOSE_CONNECTION, and the client exits.
Leaves(c) ==
  /\ ids[c] # {} /\ c \in Connected \ closed /\ c \notin inbox
  /\ inbox' = inbox \cup {c} /\ closed' = closed \cup {c} /\ leaving' = leaving \cup {c}
  /\ UNCHANGED <<listVars, fd, clientHandle, acceptor, threadVars, ids, asked, answers, met>>

Acceptor == AcceptorAdds \/ AcceptorRefuses \/ AcceptorCreatesThread

Next == \/ \E c \in Conn : Accept(c) \/ Asks(c) \/ Closes(c) \/ Leaves(c) \/ Handler(c)
        \/ Acceptor

Spec == Init /\ [][Next]_vars

-----------------------------------------------------------------------------
Position == {"none", "begin", "sendID", "peek", "peeking", "receiving", "answer",
             "remove", "close", "done"}

TypeOK ==
  /\ ListTypeOK
  /\ fd \in [Fd -> Conn \cup {NoConn}]
  /\ clientHandle \in [ClientID : ID \cup {NoID, MinusOne}, iClientSocket : Fd]
  /\ acceptor \in [at : {"accept", "add", "create"}, conn : Conn \cup {NoConn}]
  /\ pc \in [Conn -> Position] /\ ClientID \in [Conn -> ID \cup {NoID, MinusOne}]
  /\ {waits, request} \subseteq [Conn -> Conn \cup {NoConn}]
  /\ {inbox, closed, leaving, asked} \subseteq SUBSET Conn
  /\ ids \in [Conn -> SUBSET (ID \cup {MinusOne})] /\ answers \in [Conn -> SUBSET Conn]
  /\ met \subseteq Conn

(* The counter may fall behind the slots in use, when an ID is removed     *)
(* twice, and never gets ahead of them: AddClient cannot run over the end  *)
(* of the table however the handlers mix up their clients.                 *)
CounterWithinSlots == iClientCount <= Cardinality(InUse)

(* A request is worked on by one handler and answered to one client at     *)
(* most, although several handlers may wait on the same connection.        *)
AtMostOneAnswer ==
  \A c \in Conn : Cardinality({h \in Conn : pc[h] = "answer" /\ request[h] = c})
                  + Cardinality({d \in Conn : c \in answers[d]}) <= 1

(* A client that meets no other on the way is sent its own ID and the      *)
(* answer to its own request, and its request goes to no other client,     *)
(* whatever was left behind by sessions that did meet.                     *)
OwnAnswers ==
  \A c \in Conn \ met :
    /\ ids[c] \subseteq {c} /\ answers[c] \subseteq {c}
    /\ \A d \in Conn : c \in answers[d] => d = c

(* The handler of a client that has met no other leaves neither its entry  *)
(* in the list nor its socket behind; and the counter has lost no more     *)
(* than one client for each that has met another.                          *)
NothingLeaks ==
  /\ \A c \in Conn \ met : pc[c] = "done" =>
       /\ \A i \in InUse : clientList[i] # c
       /\ \A f \in Fd : fd[f] # c
  /\ Cardinality(InUse) <= iClientCount + Cardinality(met)

(* "Send The Client It alloted ID", "Send the response to the client": a   *)
(* client is sent no other ID than its own, and the answer to no request   *)
(* but its own, with whom ever it is connected at the same time.           *)
ClientsGetTheirOwn == \A c \in Conn : ids[c] \subseteq {c} /\ answers[c] \subseteq {c}
=============================================================================
