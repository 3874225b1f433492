------------------------ MODULE ClientSessionsProofs ------------------------
(***************************************************************************)
(* Theorems about ClientSessions for every number of slots and clients.    *)
(*                                                                         *)
(* Whatever the handlers do to each other through the one struct, the      *)
(* counter of the client list never gets ahead of the slots in use, no     *)
(* request is answered twice, and every variable keeps its type.  A client *)
(* that meets no other gets its own ID and answers and leaves nothing      *)
(* behind, even among what others have left.                               *)
(***************************************************************************)
EXTENDS ClientSessions, FiniteSetTheorems, WellFoundedInduction, TLAPS

-----------------------------------------------------------------------------
(* The counter                                                             *)

CounterInv == InUseList \in [Slot -> BOOLEAN] /\ iClientCount \in Nat /\ CounterWithinSlots

LEMMA InUseFinite == IsFiniteSet(InUse) /\ Cardinality(InUse) \in Nat
<1>1. IsFiniteSet(Slot)
  BY MaxClientsAssumption, FS_Interval DEF Slot
<1> QED BY <1>1, FS_Subset, FS_CardinalityType DEF InUse

LEMMA AddClientCounts ==
  ASSUME CounterInv, NEW id, AddClient(id)
  PROVE  CounterInv'
<1>1. PICK i \in Slot : ~InUseList[i] /\ InUseList' = [InUseList EXCEPT ![i] = TRUE]
  BY DEF AddClient, FirstFree
<1>2. InUse' = InUse \cup {i} /\ i \notin InUse
  BY <1>1 DEF InUse, CounterInv
<1>3. Cardinality(InUse') = Cardinality(InUse) + 1
  BY <1>2, InUseFinite, FS_AddElement
<1>4. iClientCount' = iClientCount + 1
  BY DEF AddClient
<1> QED BY <1>1, <1>3, <1>4, InUseFinite DEF CounterInv, CounterWithinSlots

LEMMA RemoveClientCounts ==
  ASSUME CounterInv, NEW id, RemoveClient(id)
  PROVE  CounterInv'
<1>1. CASE UNCHANGED listVars
  BY <1>1 DEF listVars, CounterInv, CounterWithinSlots, InUse
<1>2. CASE ~UNCHANGED listVars
  <2>1. PICK i \in Slot : InUseList' = [InUseList EXCEPT ![i] = FALSE]
    BY <1>2 DEF RemoveClient
  <2>2. iClientCount # 0 /\ iClientCount' = iClientCount - 1
    BY <1>2 DEF RemoveClient
  <2>3. InUse' = InUse \ {i}
    BY <2>1 DEF InUse, CounterInv
  <2>4. Cardinality(InUse') >= Cardinality(InUse) - 1
    <3>1. CASE i \in InUse
      <4>1. Cardinality(InUse \ {i}) = Cardinality(InUse) - 1
        BY <3>1, InUseFinite, FS_RemoveElement
      <4> QED BY <4>1, <2>3, InUseFinite
    <3>2. CASE i \notin InUse
      <4>1. InUse' = InUse
        BY <3>2, <2>3
      <4> QED BY <4>1, InUseFinite
    <3> QED BY <3>1, <3>2
  <2>5. Cardinality(InUse') \in Nat
    BY <2>3, InUseFinite, FS_Subset, FS_CardinalityType
  <2> QED BY <2>1, <2>2, <2>4, <2>5, InUseFinite DEF CounterInv, CounterWithinSlots
<1> QED BY <1>1, <1>2

LEMMA CounterUnchanged ==
  ASSUME CounterInv, UNCHANGED listVars
  PROVE  CounterInv'
  BY DEF listVars, CounterInv, CounterWithinSlots, InUse

LEMMA HandlerCounts ==
  ASSUME CounterInv, NEW h \in Conn, Handler(h)
  PROVE  CounterInv'
<1>1. CASE RemovesClient(h)
  BY <1>1, RemoveClientCounts DEF RemovesClient
<1>2. CASE ~RemovesClient(h)
  <2>1. UNCHANGED listVars
    BY <1>2 DEF Handler, HandlerBegins, SendsID, Peeks, PeekReturns, PeekFindsEnd, Receives,
                ReceivesClose, ReceiveFails, Answers, ClosesSocket
  <2> QED BY <2>1, CounterUnchanged
<1> QED BY <1>1, <1>2

LEMMA OthersCount ==
  ASSUME CounterInv, Acceptor \/ \E c \in Conn : Accept(c) \/ Asks(c) \/ Closes(c) \/ Leaves(c)
  PROVE  CounterInv'
<1>1. CASE AcceptorAdds
  BY <1>1, AddClientCounts DEF AcceptorAdds
<1>2. CASE ~AcceptorAdds
  <2>1. UNCHANGED listVars
    BY <1>2 DEF Acceptor, AcceptorRefuses, AddClientFails, AcceptorCreatesThread, Accept, Asks, Closes, Leaves
  <2> QED BY <2>1, CounterUnchanged
<1> QED BY <1>1, <1>2

(* The counter never gets ahead of the slots in use, although handlers     *)
(* remove each other's clients: AddClient cannot run over the table's end. *)
THEOREM CounterNeverAhead == Spec => []CounterWithinSlots
<1>1. Init => CounterInv
  BY InUseFinite DEF Init, InitializeClientHandleList, CounterInv, CounterWithinSlots
<1>2. CounterInv /\ [Next]_vars => CounterInv'
  BY HandlerCounts, OthersCount, CounterUnchanged DEF Next, vars
<1>3. CounterInv => CounterWithinSlots
  BY DEF CounterInv
<1> QED BY <1>1, <1>2, <1>3, PTL DEF Spec

-----------------------------------------------------------------------------
(* One answer for each request: it is in the socket, with a handler, or    *)
(* answered, and never in two of these places.                             *)

WorksOn(h, c) == pc[h] = "answer" /\ request[h] = c
Waiting(c) == c \in inbox \ leaving

OneAnswer(c) ==
  /\ Waiting(c) => c \in asked
  /\ c \notin asked \/ Waiting(c) => \A h \in Conn : ~WorksOn(h, c) /\ c \notin answers[h]
  /\ \A h, d \in Conn : WorksOn(h, c) => c \notin answers[d]
  /\ \A g, h \in Conn : WorksOn(g, c) /\ WorksOn(h, c) => g = h
  /\ \A d, e \in Conn : c \in answers[d] /\ c \in answers[e] => d = e

AnswerInv ==
  /\ pc \in [Conn -> Position] /\ request \in [Conn -> Conn \cup {NoConn}]
  /\ answers \in [Conn -> SUBSET Conn]
  /\ inbox \subseteq Conn /\ \A h \in Conn : pc[h] = "answer" => request[h] \in Conn
  /\ \A c \in Conn : OneAnswer(c)

LEMMA InitAnswer == Init => AnswerInv
  BY DEF Init, AnswerInv, OneAnswer, WorksOn, Waiting, Position

LEMMA HandlerAnswers ==
  ASSUME AnswerInv, NEW h \in Conn, Handler(h)
  PROVE  AnswerInv'
<1> USE SessionsAssumption DEF AnswerInv, OneAnswer, WorksOn, Waiting, Position, Go, clientVars, Conn
<1>1. CASE HandlerBegins(h) \/ Peeks(h) \/ PeekReturns(h) \/ PeekFindsEnd(h) \/ ReceiveFails(h)
  BY <1>1 DEF HandlerBegins, Peeks, PeekReturns, PeekFindsEnd, ReceiveFails
<1>2. CASE SendsID(h)
  BY <1>2 DEF SendsID
<1>3. CASE Receives(h)
  BY <1>3 DEF Receives
<1>4. CASE ReceivesClose(h)
  BY <1>4 DEF ReceivesClose
<1>5. CASE Answers(h)
  <2>1. CASE Peer \in Conn
    BY <1>5, <2>1 DEF Answers
  <2>2. CASE Peer \notin Conn
    BY <1>5, <2>2 DEF Answers
  <2> QED BY <2>1, <2>2
<1>6. CASE RemovesClient(h) \/ ClosesSocket(h)
  BY <1>6 DEF RemovesClient, ClosesSocket
<1> QED BY <1>1, <1>2, <1>3, <1>4, <1>5, <1>6 DEF Handler

LEMMA OthersAnswer ==
  ASSUME AnswerInv, Acceptor \/ \E c \in Conn : Accept(c) \/ Asks(c) \/ Closes(c) \/ Leaves(c)
  PROVE  AnswerInv'
<1> USE DEF AnswerInv, OneAnswer, WorksOn, Waiting, Position, threadVars, clientVars
<1>1. CASE AcceptorAdds \/ AcceptorRefuses
  BY <1>1 DEF AcceptorAdds, AcceptorRefuses
<1>2. CASE AcceptorCreatesThread
  BY <1>2 DEF AcceptorCreatesThread
<1>3. ASSUME NEW c \in Conn, Accept(c) \/ Asks(c) \/ Closes(c) \/ Leaves(c) PROVE AnswerInv'
  BY <1>3 DEF Accept, Asks, Closes, Leaves
<1> QED BY <1>1, <1>2, <1>3 DEF Acceptor

LEMMA AnswerUnchanged ==
  ASSUME AnswerInv, UNCHANGED vars
  PROVE  AnswerInv'
  BY DEF vars, threadVars, clientVars, AnswerInv, OneAnswer, WorksOn, Waiting

(* A request is worked on by one handler and answered to one client at     *)
(* most, although several handlers may wait on the same connection.        *)
THEOREM AnsweredOnce == Spec => []AtMostOneAnswer
<1>1. AnswerInv /\ [Next]_vars => AnswerInv'
  BY HandlerAnswers, OthersAnswer, AnswerUnchanged DEF Next
<1>2. AnswerInv => AtMostOneAnswer
  <2> SUFFICES ASSUME AnswerInv, NEW c \in Conn
               PROVE  Cardinality({h \in Conn : WorksOn(h, c)}) + Cardinality({d \in Conn : c \in answers[d]}) <= 1
    BY DEF AtMostOneAnswer, WorksOn
  <2> DEFINE W == {h \in Conn : WorksOn(h, c)}
             A == {d \in Conn : c \in answers[d]}
  <2>1. OneAnswer(c)
    BY DEF AnswerInv
  <2>2. W = {} \/ A = {}
    BY <2>1 DEF OneAnswer
  <2>3. W = {} \/ \E h : W = {h}
    BY <2>1 DEF OneAnswer
  <2>4. A = {} \/ \E d : A = {d}
    BY <2>1 DEF OneAnswer
  <2>5. Cardinality({}) = 0 /\ \A x : Cardinality({x}) = 1
    BY FS_EmptySet, FS_Singleton
  <2> HIDE DEF W, A
  <2>6. Cardinality(W) \in {0, 1} /\ Cardinality(A) \in {0, 1}
    BY <2>3, <2>4, <2>5
  <2>7. Cardinality(W) = 0 \/ Cardinality(A) = 0
    BY <2>2, <2>5
  <2>8. Cardinality(W) + Cardinality(A) <= 1
    BY <2>6, <2>7
  <2> QED BY <2>8 DEF W, A
<1> QED BY <1>1, <1>2, InitAnswer, PTL DEF Spec

-----------------------------------------------------------------------------
(* Types.  That accept() always finds a free descriptor takes a count: each *)
(* descriptor in use belongs to another client, and there is one more.     *)

LEMMA MinimalOf ==
  ASSUME NEW R, IsWellFoundedOn(R, Nat), NEW T, T \subseteq Nat, T # {}
  PROVE  \E m \in T : \A k \in T : <<k, m>> \notin R
  BY WFMin

LEMMA SomeOrder == \E R : IsWellFoundedOn(R, Nat) /\ \A k, m \in Nat : k < m => <<k, m>> \in R
<1>1. IsWellFoundedOn(OpToRel(<, Nat), Nat)
  BY NatLessThanWellFounded, Zenon
<1>2. \A k, m \in Nat : k < m => <<k, m>> \in OpToRel(<, Nat)
  BY DEF OpToRel
<1> QED BY <1>1, <1>2, Zenon

\* Every set of natural numbers that is not empty has a least one.
LEMMA LeastNumber ==
  ASSUME NEW T, T \subseteq Nat, T # {}
  PROVE  \E m \in T : \A k \in T : m <= k
<1>1. PICK R : IsWellFoundedOn(R, Nat) /\ \A k, m \in Nat : k < m => <<k, m>> \in R
  BY SomeOrder
<1>2. PICK m \in T : \A k \in T : <<k, m>> \notin R
  BY <1>1, MinimalOf
<1>3. \A k \in T : ~(k < m)
  BY <1>1, <1>2
<1> QED BY <1>3

FdInv ==
  /\ fd \in [Fd -> Conn \cup {NoConn}]
  /\ \A f, g \in Fd : fd[f] = fd[g] /\ fd[f] # NoConn => f = g
  /\ \A f \in Fd : fd[f] \in Conn =>
       \/ pc[fd[f]] # "none"
       \/ /\ acceptor.at # "accept" /\ acceptor.conn = fd[f]
          /\ acceptor.at = "add" => f = clientHandle.iClientSocket

LEMMA FdIsFinite == /\ IsFiniteSet(Conn) /\ Cardinality(Conn) \in Nat
                    /\ IsFiniteSet(Fd) /\ Cardinality(Fd) = Cardinality(Conn) + 1 /\ 1 \in Fd /\ Fd \subseteq Nat
<1>1. IsFiniteSet(Conn) /\ Cardinality(Conn) \in Nat
  BY SessionsAssumption, FS_CardinalityType DEF Conn
<1>2. IsFiniteSet(Fd) /\ Cardinality(Fd) = Cardinality(Conn) + 1
  BY <1>1, FS_Interval DEF Fd
<1> QED BY <1>1, <1>2 DEF Fd

LEMMA TwoFdsShare ==
  ASSUME NEW g \in [Fd -> Conn]
  PROVE  \E x, y \in Fd : x # y /\ g[x] = g[y]
<1>1. IsFiniteSet(Fd) /\ IsFiniteSet(Conn)
  BY FdIsFinite
<1>2. Cardinality(Conn) < Cardinality(Fd)
  BY FdIsFinite
<1> HIDE DEF Fd, Conn
<1> QED BY <1>1, <1>2, FS_PigeonHole, Zenon

LEMMA FindsFd ==
  ASSUME FdInv
  PROVE  FreeFd \in Fd /\ fd[FreeFd] = NoConn
<1> DEFINE Free == {f \in Fd : fd[f] = NoConn}
<1>1. Free # {}
  <2> SUFFICES ASSUME Free = {} PROVE FALSE
    OBVIOUS
  <2>1. fd \in [Fd -> Conn]
    BY DEF FdInv
  <2>2. \E f, g \in Fd : f # g /\ fd[f] = fd[g]
    BY <2>1, TwoFdsShare
  <2> QED BY <2>1, <2>2, SessionsAssumption DEF FdInv, Conn
<1>2. PICK f \in Free : \A g \in Free : f <= g
  BY <1>1, FdIsFinite, LeastNumber
<1>3. \E h : h \in Fd /\ fd[h] = NoConn /\ \A g \in Fd : fd[g] = NoConn => h <= g
  BY <1>2
<1> QED BY <1>3 DEF FreeFd

HandleInv ==
  /\ acceptor \in [at : {"accept", "add", "create"}, conn : Conn \cup {NoConn}]
  /\ acceptor.at # "accept" => acceptor.conn \in Conn /\ pc[acceptor.conn] = "none"
  /\ clientHandle \in [ClientID : ID \cup {NoID, MinusOne}, iClientSocket : Fd]
  /\ clientHandle.ClientID = NoID => acceptor.at = "accept" /\ \A h \in Conn : pc[h] = "none"
  /\ ClientID \in [Conn -> ID \cup {NoID, MinusOne}]
  /\ \A h \in Conn : pc[h] = "sendID" => ClientID[h] # NoID

TypeInv == TypeOK /\ FdInv /\ HandleInv /\ CounterInv /\ AnswerInv

LEMMA ListStaysTyped ==
  ASSUME ListTypeOK, CounterInv',
         (\E id \in ID : AddClient(id)) \/ (\E id : RemoveClient(id)) \/ UNCHANGED listVars
  PROVE  ListTypeOK'
<1>1. IsFiniteSet(Slot) /\ Cardinality(Slot) = MAX_CLIENTS
  BY MaxClientsAssumption, FS_Interval DEF Slot
<1>2. (InUse \subseteq Slot)'
  BY DEF InUse
<1>3. Cardinality(InUse') \in Nat /\ Cardinality(InUse') <= MAX_CLIENTS
  BY <1>1, <1>2, FS_Subset, FS_CardinalityType
<1>4. iClientCount' \in 0 .. MAX_CLIENTS
  BY <1>3, MaxClientsAssumption DEF CounterInv, CounterWithinSlots
<1>5. clientList' \in [Slot -> ID \cup {NoID}]
  BY DEF ListTypeOK, AddClient, RemoveClient, listVars
<1> QED BY <1>4, <1>5 DEF ListTypeOK, CounterInv

LEMMA HandlerMoves ==
  ASSUME TypeInv, NEW h \in Conn, Handler(h)
  PROVE  /\ pc' \in [Conn -> Position]
         /\ \A g \in Conn \ {h} : pc'[g] = pc[g] /\ ClientID'[g] = ClientID[g]
         /\ pc[h] \notin {"none", "done"} /\ pc'[h] # "none"
         /\ UNCHANGED <<clientHandle, acceptor>>
         /\ fd' = fd \/ fd' = [fd EXCEPT ![clientHandle.iClientSocket] = NoConn]
         /\ UNCHANGED listVars \/ RemoveClient(ClientID[h])
<1> USE DEF Go, TypeInv, AnswerInv, HandleInv, Position
<1>1. CASE HandlerBegins(h) \/ Peeks(h) \/ PeekReturns(h) \/ PeekFindsEnd(h) \/ ReceiveFails(h)
  BY <1>1 DEF HandlerBegins, Peeks, PeekReturns, PeekFindsEnd, ReceiveFails
<1>2. CASE SendsID(h) \/ Answers(h) \/ Receives(h) \/ ReceivesClose(h)
  BY <1>2 DEF SendsID, Answers, Receives, ReceivesClose
<1>3. CASE RemovesClient(h) \/ ClosesSocket(h)
  BY <1>3 DEF RemovesClient, ClosesSocket
<1> QED BY <1>1, <1>2, <1>3 DEF Handler

LEMMA HandlerKeepsFds ==
  ASSUME TypeInv, NEW h \in Conn, Handler(h)
  PROVE  FdInv' /\ HandleInv'
<1>1. FdInv'
  BY HandlerMoves, SessionsAssumption DEF TypeInv, FdInv, HandleInv, Conn
<1>2. ClientID' \in [Conn -> ID \cup {NoID, MinusOne}]
  BY DEF TypeInv, HandleInv, Handler, HandlerBegins, SendsID, Peeks, PeekReturns, PeekFindsEnd, Receives,
         ReceivesClose, ReceiveFails, Answers, RemovesClient, ClosesSocket
<1>3. pc'[h] = "sendID" => ClientID'[h] # NoID
  <2>1. CASE HandlerBegins(h)
    BY <2>1 DEF HandlerBegins, TypeInv, HandleInv, Go
  <2>2. CASE ~HandlerBegins(h)
    <3>1. pc'[h] # "sendID"
      BY <2>2 DEF TypeInv, AnswerInv, Go, Handler, SendsID, Peeks, PeekReturns, PeekFindsEnd, Receives,
             ReceivesClose, ReceiveFails, Answers, RemovesClient, ClosesSocket
    <3> QED BY <3>1
  <2> QED BY <2>1, <2>2
<1> QED BY <1>1, <1>2, <1>3, HandlerMoves DEF TypeInv, HandleInv

LEMMA HandlerKeepsTypes ==
  ASSUME TypeInv, NEW h \in Conn, Handler(h)
  PROVE  TypeOK'
<1>1. ListTypeOK'
  BY HandlerMoves, HandlerCounts, ListStaysTyped DEF TypeInv, TypeOK
<1>2. (fd \in [Fd -> Conn \cup {NoConn}])' /\ HandleInv' /\ AnswerInv'
  BY HandlerKeepsFds, HandlerAnswers DEF FdInv, TypeInv
<1>3. Peer \in Conn \cup {NoConn}
  BY DEF Peer, TypeInv, FdInv, HandleInv
<1>4. waits' \in [Conn -> Conn \cup {NoConn}]
  BY <1>3 DEF TypeInv, TypeOK, Handler, HandlerBegins, SendsID, Peeks, PeekReturns, PeekFindsEnd, Receives,
         ReceivesClose, ReceiveFails, Answers, RemovesClient, ClosesSocket, clientVars
<1>5. {inbox', closed', leaving', asked'} \subseteq SUBSET Conn
  BY DEF TypeInv, TypeOK, Handler, HandlerBegins, SendsID, Peeks, PeekReturns, PeekFindsEnd, Receives,
         ReceivesClose, ReceiveFails, Answers, RemovesClient, ClosesSocket, clientVars
<1>6. ids' \in [Conn -> SUBSET (ID \cup {MinusOne})]
  <2>1. CASE SendsID(h)
    <3>1. ClientID[h] \in ID \cup {MinusOne}
      BY <2>1 DEF SendsID, Go, TypeInv, HandleInv
    <3> QED BY <2>1, <3>1, <1>3 DEF SendsID, TypeInv, TypeOK
  <2>2. CASE ~SendsID(h)
    BY <2>2 DEF TypeInv, TypeOK, Handler, HandlerBegins, Peeks, PeekReturns, PeekFindsEnd, Receives,
         ReceivesClose, ReceiveFails, Answers, RemovesClient, ClosesSocket, clientVars
  <2> QED BY <2>1, <2>2
<1>7. met' \subseteq Conn
  BY DEF TypeInv, TypeOK, Handler, HandlerBegins, SendsID, Peeks, PeekReturns, PeekFindsEnd, Receives,
         ReceivesClose, ReceiveFails, Answers, RemovesClient, ClosesSocket
<1> QED BY <1>1, <1>2, <1>4, <1>5, <1>6, <1>7 DEF TypeOK, HandleInv, AnswerInv

LEMMA AcceptKeepsTypes ==
  ASSUME TypeInv, NEW c \in Conn, Accept(c)
  PROVE  TypeOK' /\ FdInv' /\ HandleInv'
<1>1. FreeFd \in Fd /\ fd[FreeFd] = NoConn
  BY FindsFd DEF TypeInv
<1>2. FdInv' /\ HandleInv'
  <2> DEFINE f0 == FreeFd
  <2>1. /\ f0 \in Fd /\ fd[f0] = NoConn /\ fd' = [fd EXCEPT ![f0] = c] /\ clientHandle'.iClientSocket = f0
        /\ clientHandle' = [ClientID |-> MinusOne, iClientSocket |-> f0]
    BY <1>1 DEF Accept
  <2> HIDE DEF f0
  <2>2. /\ acceptor.at = "accept" /\ pc[c] = "none" /\ acceptor' = [at |-> "add", conn |-> c]
        /\ pc' = pc /\ ClientID' = ClientID
    BY DEF Accept, threadVars
  <2>3. \A f \in Fd : fd[f] # c
    BY <2>2, SessionsAssumption DEF TypeInv, FdInv, Conn
  <2>4. FdInv'
    BY <2>1, <2>2, <2>3, SessionsAssumption DEF TypeInv, FdInv, Conn
  <2> QED BY <2>1, <2>2, <2>4, SessionsAssumption DEF TypeInv, HandleInv
<1>3. ListTypeOK'
  BY DEF Accept, listVars, TypeInv, TypeOK, ListTypeOK
<1>4. met' \subseteq Conn
  BY DEF Accept, Running, TypeInv, TypeOK
<1> QED BY <1>2, <1>3, <1>4 DEF TypeInv, TypeOK, FdInv, HandleInv, Accept, threadVars, clientVars

LEMMA AcceptorKeepsTypes ==
  ASSUME TypeInv, Acceptor
  PROVE  TypeOK' /\ FdInv' /\ HandleInv'
<1>1. CASE AcceptorAdds
  <2>1. acceptor.conn \in ID /\ AddClient(acceptor.conn) /\ acceptor' = [acceptor EXCEPT !.at = "create"]
    BY <1>1 DEF AcceptorAdds, TypeInv, HandleInv, Conn
  <2>2. ListTypeOK'
    BY <2>1, AddClientCounts, ListStaysTyped DEF TypeInv, TypeOK
  <2>3. HandleInv'
    BY <1>1, <2>1, IDAssumption DEF AcceptorAdds, TypeInv, HandleInv, threadVars
  <2>4. FdInv'
    BY <1>1, <2>1 DEF AcceptorAdds, TypeInv, FdInv, HandleInv, threadVars
  <2> QED BY <1>1, <2>2, <2>3, <2>4 DEF AcceptorAdds, TypeInv, TypeOK, FdInv, HandleInv, threadVars, clientVars
<1>2. CASE AcceptorRefuses
  <2>1. ListTypeOK'
    BY <1>2 DEF AcceptorRefuses, AddClientFails, listVars, TypeInv, TypeOK, ListTypeOK
  <2>2. FdInv' /\ HandleInv'
    BY <1>2, SessionsAssumption DEF AcceptorRefuses, TypeInv, FdInv, HandleInv, threadVars, Conn
  <2>3. acceptor.conn \in Conn
    BY <1>2 DEF AcceptorRefuses, TypeInv, HandleInv
  <2> QED BY <1>2, <2>1, <2>2, <2>3 DEF AcceptorRefuses, TypeInv, TypeOK, FdInv, HandleInv, threadVars
<1>3. CASE AcceptorCreatesThread
  <2>1. ListTypeOK'
    BY <1>3 DEF AcceptorCreatesThread, listVars, TypeInv, TypeOK, ListTypeOK
  <2>2. FdInv' /\ HandleInv'
    BY <1>3 DEF AcceptorCreatesThread, TypeInv, TypeOK, FdInv, HandleInv
  <2> QED BY <1>3, <2>1, <2>2 DEF AcceptorCreatesThread, TypeInv, TypeOK, FdInv, HandleInv, clientVars, Position
<1> QED BY <1>1, <1>2, <1>3 DEF Acceptor

LEMMA ClientsKeepTypes ==
  ASSUME TypeInv, NEW c \in Conn, Asks(c) \/ Closes(c) \/ Leaves(c)
  PROVE  TypeOK' /\ FdInv' /\ HandleInv'
<1>1. UNCHANGED <<listVars, fd, clientHandle, acceptor, threadVars, ids, answers>>
  BY DEF Asks, Closes, Leaves
<1>2. FdInv' /\ HandleInv' /\ ListTypeOK'
  BY <1>1 DEF TypeInv, TypeOK, FdInv, HandleInv, ListTypeOK, listVars, threadVars
<1>3. {inbox', closed', leaving', asked'} \subseteq SUBSET Conn
  BY DEF TypeInv, TypeOK, Asks, Closes, Leaves
<1>4. met' \subseteq Conn
  BY DEF TypeInv, TypeOK, Asks, Closes, Leaves
<1> QED BY <1>1, <1>2, <1>3, <1>4 DEF TypeInv, TypeOK, threadVars

LEMMA TypeInvUnchanged ==
  ASSUME TypeInv, UNCHANGED vars
  PROVE  TypeInv'
<1>1. CounterInv' /\ AnswerInv'
  BY CounterUnchanged, AnswerUnchanged DEF TypeInv, vars
<1>2. FdInv' /\ HandleInv' /\ ListTypeOK'
  BY DEF TypeInv, TypeOK, FdInv, HandleInv, ListTypeOK, listVars, threadVars, vars
<1> QED BY <1>1, <1>2 DEF TypeInv, TypeOK, threadVars, clientVars, vars

LEMMA TypeInvStep == TypeInv /\ [Next]_vars => TypeInv'
<1> SUFFICES ASSUME TypeInv, [Next]_vars PROVE TypeInv'
  OBVIOUS
<1>1. CASE UNCHANGED vars
  BY <1>1, TypeInvUnchanged
<1>2. ASSUME NEW h \in Conn, Handler(h) PROVE TypeInv'
  BY <1>2, HandlerKeepsTypes, HandlerKeepsFds, HandlerCounts, HandlerAnswers DEF TypeInv
<1>3. ASSUME NEW c \in Conn, Accept(c) \/ Asks(c) \/ Closes(c) \/ Leaves(c) PROVE TypeInv'
  BY <1>3, AcceptKeepsTypes, ClientsKeepTypes, OthersCount, OthersAnswer DEF TypeInv
<1>4. CASE Acceptor
  BY <1>4, AcceptorKeepsTypes, OthersCount, OthersAnswer DEF TypeInv
<1> QED BY <1>1, <1>2, <1>3, <1>4 DEF Next

LEMMA InitTypeInv == Init => TypeInv
<1> SUFFICES ASSUME Init PROVE TypeInv
  OBVIOUS
<1>1. CounterInv /\ AnswerInv
  BY InUseFinite, InitAnswer DEF Init, InitializeClientHandleList, CounterInv, CounterWithinSlots
<1>2. ListTypeOK
  BY MaxClientsAssumption DEF Init, InitializeClientHandleList, ListTypeOK
<1>3. FdInv
  BY SessionsAssumption DEF Init, FdInv, Conn
<1>4. HandleInv
  BY FdIsFinite DEF Init, HandleInv
<1> QED BY <1>1, <1>2, <1>3, <1>4 DEF TypeInv, TypeOK, Init, Position, FdInv, HandleInv

(* Every variable keeps its type; in particular accept() finds a free      *)
(* descriptor whatever was closed or leaked, the counter stays within the  *)
(* table, and no client is sent the zero of a struct never filled.         *)
THEOREM TypeCorrectness == Spec => []TypeOK
<1>1. TypeInv => TypeOK
  BY DEF TypeInv
<1> QED BY <1>1, InitTypeInv, TypeInvStep, PTL DEF Spec
-----------------------------------------------------------------------------
(* Clients that meet no other.  While such a client is served, its handler *)
(* is the only one: the struct names this client, and the list holds it;   *)
(* what sessions that met have left behind does not come in between.       *)

Listed(c) == \E i \in InUse : clientList[i] = c

\* Each ID is in one slot at most, and in none before its client is added.
IDsOnce ==
  /\ \A i, j \in Slot : clientList[i] = clientList[j] /\ clientList[i] # NoID => i = j
  /\ \A i \in Slot, c \in Conn : clientList[i] = c =>
       pc[c] # "none" \/ (acceptor.at = "create" /\ acceptor.conn = c)

Accepting(c) ==
  /\ Running = {} /\ Peer = c
  /\ acceptor.at = "create" => clientHandle.ClientID = c /\ Listed(c) /\ iClientCount # 0

Serving(c) ==
  /\ acceptor.at = "accept" /\ Running = {c} /\ Peer = c /\ clientHandle.ClientID = c
  /\ pc[c] # "begin" => ClientID[c] = c
  /\ IF pc[c] = "close" THEN ~Listed(c) ELSE Listed(c) /\ iClientCount # 0
  /\ pc[c] \in {"peeking", "receiving"} => waits[c] = c
  /\ pc[c] = "answer" => request[c] = c

Left(c) == ~Listed(c) /\ \A f \in Fd : fd[f] # c

OnlyItsOwn(c) ==
  /\ ids[c] \subseteq {c} /\ answers[c] \subseteq {c} /\ \A d \in Conn : c \in answers[d] => d = c
  /\ \A h \in Conn : waits[h] = c \/ WorksOn(h, c) => h = c

Undisturbed(c) ==
  /\ pc[c] = "none" => ids[c] = {} /\ answers[c] = {}
  /\ acceptor.at # "accept" /\ acceptor.conn = c => Accepting(c)
  /\ c \in Running => Serving(c)
  /\ pc[c] = "done" => Left(c)
  /\ OnlyItsOwn(c)

MeetInv == IDsOnce /\ \A c \in Conn \ met : Undisturbed(c)

\* What a handler's step leaves alone.
LEMMA HandlerTouches ==
  ASSUME TypeInv, NEW h \in Conn, Handler(h)
  PROVE  /\ UNCHANGED met
         /\ \A g \in Conn \ {h} : waits'[g] = waits[g] /\ request'[g] = request[g]
         /\ waits'[h] \in {waits[h], Peer, NoConn}
         /\ pc'[h] = "answer" => pc[h] = "receiving" /\ request'[h] = waits[h]
         /\ \A d \in Conn : d # Peer => ids'[d] = ids[d] /\ answers'[d] = answers[d]
         /\ \A d \in Conn : \A c \in answers'[d] : c \in answers[d] \/ WorksOn(h, c)
<1> USE DEF Go, TypeInv, TypeOK, Position, clientVars, WorksOn
<1>1. CASE HandlerBegins(h) \/ Peeks(h) \/ PeekReturns(h) \/ PeekFindsEnd(h) \/ ReceiveFails(h)
  BY <1>1 DEF HandlerBegins, Peeks, PeekReturns, PeekFindsEnd, ReceiveFails
<1>2. CASE Receives(h) \/ ReceivesClose(h)
  BY <1>2 DEF Receives, ReceivesClose
<1>3. CASE SendsID(h) \/ Answers(h)
  BY <1>3 DEF SendsID, Answers
<1>4. CASE RemovesClient(h) \/ ClosesSocket(h)
  BY <1>4 DEF RemovesClient, ClosesSocket
<1> QED BY <1>1, <1>2, <1>3, <1>4 DEF Handler

LEMMA RemovesOwnSlot ==
  ASSUME TypeInv, IDsOnce, NEW c \in Conn, Listed(c), iClientCount # 0, RemoveClient(c)
  PROVE  /\ ~Listed(c)' /\ \E i \in InUse : InUse' = InUse \ {i}
         /\ iClientCount' = iClientCount - 1
<1>0. c # NoID /\ InUseList \in [Slot -> BOOLEAN]
  BY IDAssumption DEF Conn, TypeInv, TypeOK, ListTypeOK
<1>1. PICK i \in InUse : clientList[i] = c
  BY DEF Listed
<1>2. i \in Slot
  BY DEF InUse
<1>3. PICK j \in Slot : FirstWith(c, j) /\ InUseList' = [InUseList EXCEPT ![j] = FALSE]
  BY <1>1, <1>2 DEF RemoveClient
<1>4. j = i
  BY <1>0, <1>1, <1>2, <1>3 DEF FirstWith, IDsOnce
<1>5. InUse' = InUse \ {i}
  BY <1>0, <1>3, <1>4 DEF InUse
<1>6. clientList' = clientList /\ iClientCount' = iClientCount - 1
  BY <1>1, <1>2 DEF RemoveClient
<1>7. \A k \in InUse' : clientList'[k] # c
  BY <1>0, <1>1, <1>2, <1>5, <1>6 DEF IDsOnce, InUse
<1> QED BY <1>1, <1>5, <1>6, <1>7 DEF Listed

\* Nothing that handlers do lists anybody.
LEMMA ListShrinks ==
  ASSUME TypeInv, NEW h \in Conn, Handler(h)
  PROVE  clientList' = clientList /\ InUse' \subseteq InUse
<1>1. CASE UNCHANGED listVars
  BY <1>1 DEF listVars, InUse
<1>2. CASE RemoveClient(ClientID[h])
  BY <1>2 DEF RemoveClient, listVars, InUse, TypeInv, TypeOK, ListTypeOK
<1> QED BY <1>1, <1>2, HandlerMoves

LEMMA HandlerServes ==
  ASSUME TypeInv, MeetInv, NEW h \in Conn \ met, Handler(h)
  PROVE  Undisturbed(h)'
<1>1. Serving(h) /\ OnlyItsOwn(h) /\ IDsOnce
  BY HandlerMoves DEF MeetInv, Undisturbed, Running
<1>2. acceptor' = acceptor /\ clientHandle' = clientHandle /\ UNCHANGED met
  BY HandlerMoves, HandlerTouches
<1>3. Peer = h /\ Peer # NoConn
  BY <1>1, SessionsAssumption DEF Serving, Conn
<1>4. Running' = IF pc'[h] = "done" THEN {} ELSE {h}
  BY <1>1, HandlerMoves DEF Serving, Running
<1>5. CASE HandlerBegins(h) \/ SendsID(h) \/ Peeks(h) \/ PeekReturns(h) \/ PeekFindsEnd(h)
           \/ Receives(h) \/ ReceivesClose(h) \/ ReceiveFails(h) \/ Answers(h)
  <2>1. UNCHANGED <<listVars, fd>> /\ pc[h] # "close"
    BY <1>5 DEF HandlerBegins, SendsID, Peeks, PeekReturns, PeekFindsEnd,
                Receives, ReceivesClose, ReceiveFails, Answers, Go
  <2>2. pc'[h] \notin {"none", "close", "done"}
    BY <1>5 DEF HandlerBegins, SendsID, Peeks, PeekReturns, PeekFindsEnd,
                Receives, ReceivesClose, ReceiveFails, Answers, Go, TypeInv, TypeOK
  <2>3. Listed(h)' /\ iClientCount' # 0
    BY <1>1, <2>1 DEF Serving, Listed, listVars, InUse
  <2>4. Peer' = h
    BY <1>2, <1>3, <2>1 DEF Peer
  <2>5. /\ pc'[h] # "begin" /\ ClientID'[h] = h
        /\ pc'[h] \in {"peeking", "receiving"} => waits'[h] = h
        /\ pc'[h] = "answer" => request'[h] = h
    BY <1>1, <1>3, <1>5 DEF HandlerBegins, SendsID, Peeks, PeekReturns, PeekFindsEnd,
                Receives, ReceivesClose, ReceiveFails, Answers, Go, TypeInv, TypeOK, Serving
  <2>6. Serving(h)'
    BY <1>1, <1>2, <1>4, <2>2, <2>3, <2>4, <2>5 DEF Serving
  <2>7. ids'[h] \subseteq {h} /\ answers'[h] \subseteq {h}
    BY <1>1, <1>3, <1>5 DEF HandlerBegins, SendsID, Peeks, PeekReturns, PeekFindsEnd,
                Receives, ReceivesClose, ReceiveFails, Answers, Go, TypeInv, TypeOK, Serving,
                OnlyItsOwn, clientVars
  <2>8. \A d \in Conn : h \in answers'[d] => d = h
    BY <1>1, <1>3, HandlerTouches DEF OnlyItsOwn
  <2>9. \A g \in Conn : (waits'[g] = h => g = h) /\ (WorksOn(g, h)' => g = h)
    BY <1>1, HandlerTouches, HandlerMoves DEF OnlyItsOwn, WorksOn
  <2> QED BY <1>1, <1>2, <2>2, <2>6, <2>7, <2>8, <2>9 DEF Undisturbed, OnlyItsOwn, Serving
<1>6. CASE RemovesClient(h)
  <2>1. /\ pc[h] = "remove" /\ pc'[h] = "close" /\ RemoveClient(ClientID[h])
        /\ UNCHANGED <<fd, ClientID, waits, request, ids, answers>>
    BY <1>6 DEF RemovesClient, Go, TypeInv, TypeOK, clientVars
  <2>2. ~Listed(h)'
    BY <1>1, <2>1, RemovesOwnSlot DEF Serving
  <2>3. Serving(h)'
    BY <1>1, <1>2, <1>4, <2>1, <2>2 DEF Serving, Peer
  <2>4. OnlyItsOwn(h)'
    BY <1>1, <2>1, HandlerMoves DEF OnlyItsOwn, WorksOn
  <2> QED BY <1>1, <1>2, <2>1, <2>3, <2>4 DEF Undisturbed, Serving
<1>7. CASE ClosesSocket(h)
  <2>1. /\ pc[h] = "close" /\ pc'[h] = "done" /\ UNCHANGED <<listVars, waits, request, ids, answers>>
        /\ fd' = [fd EXCEPT ![clientHandle.iClientSocket] = NoConn]
    BY <1>7 DEF ClosesSocket, Go, TypeInv, TypeOK, clientVars
  <2>2. ~Listed(h)'
    BY <1>1, <2>1 DEF Serving, Listed, listVars, InUse
  <2>3. \A f \in Fd : fd'[f] # h
    BY <1>3, <2>1, SessionsAssumption DEF Peer, TypeInv, FdInv, HandleInv, Conn
  <2>4. OnlyItsOwn(h)'
    BY <1>1, <2>1, HandlerMoves DEF OnlyItsOwn, WorksOn
  <2> QED BY <1>1, <1>2, <1>4, <2>1, <2>2, <2>3, <2>4 DEF Undisturbed, Left, Serving
<1> QED BY <1>5, <1>6, <1>7 DEF Handler

LEMMA OthersUndisturbed ==
  ASSUME TypeInv, MeetInv, NEW h \in Conn, Handler(h), NEW c \in Conn \ met, c # h
  PROVE  Undisturbed(c)'
<1>1. h \in Running /\ Undisturbed(c)
  BY HandlerMoves DEF MeetInv, Running
<1>2. c \notin Running /\ ~(acceptor.at # "accept" /\ acceptor.conn = c)
  BY <1>1 DEF Undisturbed, Serving, Accepting
<1>3. pc'[c] = pc[c] /\ acceptor' = acceptor /\ pc[c] \in {"none", "done"} /\ c \notin Running'
  BY <1>2, HandlerMoves DEF Running
<1>4. Peer # c
  <2>1. SUFFICES ASSUME Peer = c PROVE FALSE
    OBVIOUS
  <2>2. clientHandle.iClientSocket \in Fd /\ fd[clientHandle.iClientSocket] = c
    BY <2>1 DEF Peer, TypeInv, HandleInv
  <2>3. CASE pc[c] = "none"
    BY <1>2, <2>2, <2>3 DEF TypeInv, FdInv
  <2>4. CASE pc[c] = "done"
    BY <1>1, <2>2, <2>4 DEF Undisturbed, Left
  <2> QED BY <1>3, <2>3, <2>4
<1>5. ids'[c] = ids[c] /\ answers'[c] = answers[c]
  BY <1>4, HandlerTouches
<1>6. OnlyItsOwn(c)
  BY <1>1 DEF Undisturbed
<1>7. \A d \in Conn : c \in answers'[d] => d = c
  <2>1. ~WorksOn(h, c)
    BY <1>6 DEF OnlyItsOwn
  <2> QED BY <1>6, <2>1, HandlerTouches DEF OnlyItsOwn
<1>8. \A g \in Conn : waits'[g] = c => g = c
  BY <1>4, <1>6, HandlerTouches, SessionsAssumption DEF OnlyItsOwn, Conn
<1>9. \A g \in Conn : WorksOn(g, c)' => g = c
  BY <1>6, HandlerTouches, HandlerMoves DEF OnlyItsOwn, WorksOn
<1>10. pc[c] = "done" => Left(c)'
  <2>1. \A f \in Fd : fd'[f] = fd[f] \/ fd'[f] = NoConn
    BY HandlerMoves DEF TypeInv, FdInv
  <2> QED BY <1>1, <2>1, ListShrinks, SessionsAssumption DEF Undisturbed, Left, Listed, Conn
<1>11. OnlyItsOwn(c)'
  BY <1>5, <1>6, <1>7, <1>8, <1>9 DEF OnlyItsOwn
<1> QED BY <1>1, <1>2, <1>3, <1>5, <1>10, <1>11 DEF Undisturbed

LEMMA HandlerMeets ==
  ASSUME TypeInv, MeetInv, NEW h \in Conn, Handler(h)
  PROVE  MeetInv'
<1>1. IDsOnce'
  BY ListShrinks, HandlerMoves DEF MeetInv, IDsOnce
<1>2. \A c \in Conn \ met' : Undisturbed(c)'
  BY HandlerServes, OthersUndisturbed, HandlerTouches
<1> QED BY <1>1, <1>2 DEF MeetInv

LEMMA AcceptMeets ==
  ASSUME TypeInv, MeetInv, NEW d \in Conn, Accept(d)
  PROVE  MeetInv'
<1>1. FreeFd \in Fd /\ fd[FreeFd] = NoConn
  BY FindsFd DEF TypeInv
<1>2. /\ acceptor.at = "accept" /\ pc[d] = "none" /\ acceptor' = [at |-> "add", conn |-> d]
      /\ fd' = [fd EXCEPT ![FreeFd] = d] /\ Peer' = d
      /\ UNCHANGED <<clientList, InUseList, iClientCount, pc, waits, request, ids, answers>>
  BY <1>1 DEF Accept, Peer, listVars, threadVars, clientVars, TypeInv, FdInv
<1>3. UNCHANGED <<Running, InUse>>
  BY <1>2 DEF Running, InUse
<1>4. IDsOnce'
  BY <1>2 DEF MeetInv, IDsOnce
<1>5. ASSUME NEW c \in Conn \ met' PROVE Undisturbed(c)'
  <2>1. c \notin met /\ c \notin Running /\ (c = d => Running = {})
    BY <1>5 DEF Accept
  <2>2. Undisturbed(c)
    BY <2>1 DEF MeetInv
  <2>3. acceptor'.conn = c => Accepting(c)'
    BY <1>2, <1>3, <2>1 DEF Accepting
  <2>4. pc[c] = "done" => Left(c)'
    BY <1>1, <1>2, <1>3, <2>2 DEF Undisturbed, Left, Listed, TypeInv, FdInv
  <2>5. OnlyItsOwn(c)'
    BY <1>2, <2>2 DEF Undisturbed, OnlyItsOwn, WorksOn
  <2> QED BY <1>2, <1>3, <2>1, <2>2, <2>3, <2>4, <2>5 DEF Undisturbed
<1> QED BY <1>4, <1>5 DEF MeetInv

LEMMA AddsOwnSlot ==
  ASSUME TypeInv, IDsOnce, NEW id \in Conn, \A i \in Slot : clientList[i] # id, AddClient(id)
  PROVE  /\ Listed(id)' /\ iClientCount' = iClientCount + 1 /\ iClientCount' # 0
         /\ \E i \in Slot \ InUse : InUse' = InUse \cup {i} /\ clientList' = [clientList EXCEPT ![i] = id]
<1>1. PICK i \in Slot : /\ FirstFree(i) /\ clientList' = [clientList EXCEPT ![i] = id]
                        /\ InUseList' = [InUseList EXCEPT ![i] = TRUE]
  BY DEF AddClient
<1>2. InUse' = InUse \cup {i} /\ i \notin InUse
  BY <1>1 DEF InUse, FirstFree, TypeInv, TypeOK, ListTypeOK
<1>3. clientList'[i] = id
  BY <1>1 DEF TypeInv, TypeOK, ListTypeOK
<1>4. iClientCount' = iClientCount + 1 /\ iClientCount' # 0
  BY MaxClientsAssumption DEF AddClient, TypeInv, TypeOK, ListTypeOK
<1> QED BY <1>1, <1>2, <1>3, <1>4 DEF Listed

LEMMA AddsMeets ==
  ASSUME TypeInv, MeetInv, AcceptorAdds
  PROVE  MeetInv'
<1>1. PICK d \in Conn : acceptor.conn = d /\ acceptor.at = "add" /\ pc[d] = "none"
  BY DEF AcceptorAdds, TypeInv, HandleInv
<1>2. /\ AddClient(d) /\ clientHandle' = [clientHandle EXCEPT !.ClientID = d]
      /\ acceptor' = [acceptor EXCEPT !.at = "create"]
      /\ UNCHANGED <<fd, pc, ClientID, waits, request, ids, answers, met>>
  BY <1>1 DEF AcceptorAdds, threadVars, clientVars
<1>3. /\ acceptor'.at = "create" /\ acceptor'.conn = d /\ clientHandle'.ClientID = d
      /\ Peer' = Peer /\ Running' = Running
  BY <1>1, <1>2 DEF TypeInv, HandleInv, Peer, Running
<1>4. \A i \in Slot : clientList[i] # d
  BY <1>1 DEF MeetInv, IDsOnce
<1>5. /\ Listed(d)' /\ iClientCount' # 0
      /\ \E i \in Slot \ InUse : InUse' = InUse \cup {i} /\ clientList' = [clientList EXCEPT ![i] = d]
  BY <1>2, <1>4, AddsOwnSlot DEF MeetInv
<1>6. PICK i \in Slot \ InUse : InUse' = InUse \cup {i} /\ clientList' = [clientList EXCEPT ![i] = d]
  BY <1>5
<1>7. clientList \in [Slot -> ID \cup {NoID}]
  BY DEF TypeInv, TypeOK, ListTypeOK
<1>8. IDsOnce'
  BY <1>1, <1>2, <1>3, <1>4, <1>6, <1>7 DEF MeetInv, IDsOnce
<1>9. ASSUME NEW c \in Conn \ met' PROVE Undisturbed(c)'
  <2>1. Undisturbed(c)
    BY <1>2, <1>9 DEF MeetInv
  <2>2. c \notin Running
    BY <1>1, <2>1 DEF Undisturbed, Serving
  <2>3. c = d => Accepting(c)'
    BY <1>1, <1>3, <1>5, <2>1 DEF Undisturbed, Accepting
  <2>4. pc[c] = "done" => Left(c)'
    <3>1. SUFFICES ASSUME pc[c] = "done" PROVE Left(c)'
      OBVIOUS
    <3>2. Left(c) /\ c # d
      BY <1>1, <2>1, <3>1 DEF Undisturbed
    <3>3. \A j \in InUse' : clientList'[j] # c
      BY <1>6, <1>7, <3>2 DEF Left, Listed, InUse
    <3> QED BY <1>2, <3>2, <3>3 DEF Left, Listed
  <2>5. OnlyItsOwn(c)'
    BY <1>2, <2>1 DEF Undisturbed, OnlyItsOwn, WorksOn
  <2> QED BY <1>2, <1>3, <2>1, <2>2, <2>3, <2>4, <2>5 DEF Undisturbed
<1> QED BY <1>8, <1>9 DEF MeetInv

LEMMA RefusesMeets ==
  ASSUME TypeInv, MeetInv, AcceptorRefuses
  PROVE  MeetInv'
<1>1. /\ acceptor.at = "add" /\ acceptor'.at = "accept"
      /\ fd' = [fd EXCEPT ![clientHandle.iClientSocket] = NoConn]
      /\ UNCHANGED <<clientList, InUseList, iClientCount, pc, waits, request, ids, answers, met>>
  BY DEF AcceptorRefuses, AddClientFails, listVars, threadVars
<1>2. UNCHANGED <<Running, InUse>>
  BY <1>1 DEF Running, InUse
<1>3. IDsOnce'
  BY <1>1 DEF MeetInv, IDsOnce
<1>4. ASSUME NEW c \in Conn \ met' PROVE Undisturbed(c)'
  <2>1. Undisturbed(c)
    BY <1>1, <1>4 DEF MeetInv
  <2>2. c \notin Running
    BY <1>1, <2>1 DEF Undisturbed, Serving
  <2>3. pc[c] = "done" => Left(c)'
    BY <1>1, <1>2, <2>1, SessionsAssumption DEF Undisturbed, Left, Listed, TypeInv, FdInv, Conn
  <2>4. OnlyItsOwn(c)'
    BY <1>1, <2>1 DEF Undisturbed, OnlyItsOwn, WorksOn
  <2> QED BY <1>1, <1>2, <2>1, <2>2, <2>3, <2>4 DEF Undisturbed
<1> QED BY <1>3, <1>4 DEF MeetInv

LEMMA CreatesMeets ==
  ASSUME TypeInv, MeetInv, AcceptorCreatesThread
  PROVE  MeetInv'
<1>1. PICK d \in Conn : acceptor.conn = d /\ acceptor.at = "create" /\ pc[d] = "none"
  BY DEF AcceptorCreatesThread, TypeInv, HandleInv
<1>2. /\ pc' = [pc EXCEPT ![d] = "begin"] /\ acceptor'.at = "accept"
      /\ UNCHANGED <<clientList, InUseList, iClientCount, fd, clientHandle, ClientID, waits, request,
                     ids, answers, met>>
  BY <1>1 DEF AcceptorCreatesThread, listVars, clientVars
<1>3. Running' = Running \cup {d} /\ UNCHANGED <<InUse, Peer>> /\ pc'[d] = "begin"
  BY <1>1, <1>2 DEF Running, InUse, Peer, TypeInv, AnswerInv
<1>4. IDsOnce'
  BY <1>1, <1>2, <1>3 DEF MeetInv, IDsOnce, TypeInv, AnswerInv
<1>5. ASSUME NEW c \in Conn \ met' PROVE Undisturbed(c)'
  <2>1. Undisturbed(c)
    BY <1>2, <1>5 DEF MeetInv
  <2>2. c \notin Running
    BY <1>1, <2>1 DEF Undisturbed, Serving
  <2>3. OnlyItsOwn(c)'
    BY <1>1, <1>2, <1>3, <2>1 DEF Undisturbed, OnlyItsOwn, WorksOn, TypeInv, AnswerInv
  <2>4. CASE c = d
    <3>1. Accepting(c) /\ acceptor.at = "create"
      BY <1>1, <2>1, <2>4 DEF Undisturbed
    <3>2. Serving(c)'
      BY <1>2, <1>3, <2>4, <3>1 DEF Serving, Accepting, Listed
    <3> QED BY <1>2, <1>3, <2>3, <2>4, <3>2 DEF Undisturbed
  <2>5. CASE c # d
    <3>1. pc'[c] = pc[c] /\ c \notin Running'
      BY <1>2, <1>3, <2>2, <2>5 DEF TypeInv, AnswerInv
    <3>2. pc[c] = "done" => Left(c)'
      BY <1>2, <1>3, <2>1 DEF Undisturbed, Left, Listed
    <3> QED BY <1>2, <2>1, <2>3, <3>1, <3>2 DEF Undisturbed
  <2> QED BY <2>4, <2>5
<1> QED BY <1>4, <1>5 DEF MeetInv

LEMMA ClientsMeet ==
  ASSUME TypeInv, MeetInv,
         UNCHANGED vars \/ \E c \in Conn : Asks(c) \/ Closes(c) \/ Leaves(c)
  PROVE  MeetInv'
<1>1. UNCHANGED <<listVars, fd, clientHandle, acceptor, threadVars, ids, answers, met>>
  BY DEF vars, clientVars, Asks, Closes, Leaves
<1>2. /\ UNCHANGED <<clientList, InUse, iClientCount, Running, Peer, fd, clientHandle, acceptor>>
      /\ UNCHANGED <<pc, ClientID, waits, request, ids, answers, met>>
  BY <1>1 DEF listVars, InUse, Running, Peer, threadVars
<1> QED BY <1>2 DEF MeetInv, IDsOnce, Undisturbed, Accepting, Serving, Left, OnlyItsOwn, Listed, WorksOn

LEMMA InitMeets == Init => MeetInv
<1> SUFFICES ASSUME Init PROVE MeetInv
  OBVIOUS
<1>1. Running = {} /\ acceptor.at = "accept"
  BY DEF Init, Running
<1>2. IDsOnce
  BY IDAssumption DEF Init, InitializeClientHandleList, IDsOnce, Conn
<1>3. \A c \in Conn : OnlyItsOwn(c)
  BY SessionsAssumption DEF Init, OnlyItsOwn, WorksOn, Conn
<1> QED BY <1>1, <1>2, <1>3 DEF Init, MeetInv, Undisturbed

LEMMA MeetStep == TypeInv /\ MeetInv /\ [Next]_vars => MeetInv'
  BY HandlerMeets, AcceptMeets, AddsMeets, RefusesMeets, CreatesMeets, ClientsMeet DEF Next, Acceptor

(* Whatever sessions have met before, and for any number of clients, one   *)
(* that meets no other is sent no other ID than its own and the answer to  *)
(* no request but its own, and the answer to it goes to no other client.   *)
THEOREM OwnAnswersUnmet == Spec => []OwnAnswers
<1>1. MeetInv => OwnAnswers
  BY DEF MeetInv, Undisturbed, OnlyItsOwn, OwnAnswers
<1> QED BY <1>1, InitTypeInv, TypeInvStep, InitMeets, MeetStep, PTL DEF Spec

-----------------------------------------------------------------------------
(* How far the counter may fall behind: each handler removes once, and     *)
(* only one whose client has met another removes what is not there.        *)

Spent == {h \in met : pc[h] \in {"close", "done"}}
CounterBehind == met \subseteq Conn /\ Cardinality(InUse) <= iClientCount + Cardinality(Spent)

LEMMA SpentFinite == met \subseteq Conn => IsFiniteSet(Spent) /\ Cardinality(Spent) \in Nat /\ IsFiniteSet(met)
  BY FdIsFinite, FS_Subset, FS_CardinalityType DEF Spent

LEMMA SpentGrows ==
  ASSUME CounterBehind, met' \subseteq Conn, Spent \subseteq Spent', InUse' = InUse, iClientCount' = iClientCount,
         iClientCount \in Nat
  PROVE  CounterBehind'
<1>1. IsFiniteSet(Spent') /\ Cardinality(Spent') \in Nat
  BY FdIsFinite, FS_Subset, FS_CardinalityType DEF Spent
<1>2. Cardinality(Spent) <= Cardinality(Spent') /\ Cardinality(Spent) \in Nat
  BY <1>1, FS_Subset, FS_CardinalityType
<1> QED BY <1>1, <1>2, InUseFinite DEF CounterBehind

LEMMA RemovesBehind ==
  ASSUME TypeInv, MeetInv, CounterBehind, NEW h \in Conn, RemovesClient(h)
  PROVE  CounterBehind'
<1>0. /\ iClientCount \in Nat /\ Cardinality(InUse) \in Nat /\ IsFiniteSet(InUse)
      /\ IsFiniteSet(Spent) /\ Cardinality(Spent) \in Nat
  BY SpentFinite, InUseFinite DEF CounterBehind, TypeInv, CounterInv
<1>1. /\ pc[h] = "remove" /\ pc' = [pc EXCEPT ![h] = "close"] /\ RemoveClient(ClientID[h])
      /\ UNCHANGED met
  BY DEF RemovesClient, Go
<1>2. pc \in [Conn -> Position]
  BY DEF TypeInv, AnswerInv
<1>3. CASE h \in met
  <2>1. Spent' = Spent \cup {h} /\ h \notin Spent
    BY <1>1, <1>2, <1>3 DEF Spent, CounterBehind
  <2>2. Cardinality(Spent') = Cardinality(Spent) + 1
    BY <1>0, <2>1, FS_AddElement
  <2>3. InUse' \subseteq InUse
    BY <1>1, ListShrinks DEF Handler
  <2>4. Cardinality(InUse') <= Cardinality(InUse) /\ Cardinality(InUse') \in Nat
    BY <1>0, <2>3, FS_Subset, FS_CardinalityType
  <2>5. iClientCount' \in {iClientCount, iClientCount - 1}
    BY <1>1 DEF RemoveClient, listVars
  <2> QED BY <1>0, <1>1, <2>2, <2>4, <2>5 DEF CounterBehind
<1>4. CASE h \notin met
  <2>1. Undisturbed(h) /\ h \in Running
    BY <1>1, <1>4 DEF MeetInv, Running
  <2>2. ClientID[h] = h /\ Listed(h) /\ iClientCount # 0
    BY <1>1, <2>1 DEF Undisturbed, Serving
  <2>3. PICK i \in InUse : InUse' = InUse \ {i}
    BY <1>1, <2>2, RemovesOwnSlot DEF MeetInv
  <2>4. iClientCount' = iClientCount - 1
    BY <1>1, <2>2, RemovesOwnSlot DEF MeetInv
  <2>5. Cardinality(InUse') = Cardinality(InUse) - 1
    BY <1>0, <2>3, FS_RemoveElement
  <2>6. Spent' = Spent
    BY <1>1, <1>2, <1>4 DEF Spent, CounterBehind
  <2> QED BY <1>0, <1>1, <2>4, <2>5, <2>6 DEF CounterBehind
<1> QED BY <1>3, <1>4

LEMMA AddsBehind ==
  ASSUME TypeInv, MeetInv, CounterBehind, AcceptorAdds
  PROVE  CounterBehind'
<1>0. /\ iClientCount \in Nat /\ Cardinality(InUse) \in Nat /\ IsFiniteSet(InUse)
      /\ IsFiniteSet(Spent) /\ Cardinality(Spent) \in Nat
  BY SpentFinite, InUseFinite DEF CounterBehind, TypeInv, CounterInv
<1>1. PICK d \in Conn : acceptor.conn = d /\ acceptor.at = "add" /\ pc[d] = "none"
  BY DEF AcceptorAdds, TypeInv, HandleInv
<1>2. AddClient(d) /\ UNCHANGED <<pc, met>> /\ \A i \in Slot : clientList[i] # d
  BY <1>1 DEF AcceptorAdds, threadVars, MeetInv, IDsOnce
<1>3. PICK i \in Slot \ InUse : InUse' = InUse \cup {i}
  BY <1>2, AddsOwnSlot DEF MeetInv
<1>4. iClientCount' = iClientCount + 1
  BY <1>2 DEF AddClient
<1>5. Cardinality(InUse') = Cardinality(InUse) + 1
  BY <1>0, <1>3, FS_AddElement
<1>6. Spent' = Spent
  BY <1>2 DEF Spent
<1> QED BY <1>0, <1>2, <1>4, <1>5, <1>6 DEF CounterBehind

LEMMA BehindStep == TypeInv /\ MeetInv /\ CounterBehind /\ [Next]_vars => CounterBehind'
<1> SUFFICES ASSUME TypeInv, MeetInv, CounterBehind, [Next]_vars PROVE CounterBehind'
  OBVIOUS
<1>0. iClientCount \in Nat /\ pc \in [Conn -> Position] /\ met \subseteq Conn
  BY DEF TypeInv, CounterInv, AnswerInv, CounterBehind
<1>1. ASSUME NEW h \in Conn, Handler(h), ~RemovesClient(h) PROVE CounterBehind'
  <2>1. UNCHANGED listVars /\ UNCHANGED met
    BY <1>1, HandlerTouches DEF Handler, HandlerBegins, SendsID, Peeks, PeekReturns, PeekFindsEnd,
                Receives, ReceivesClose, ReceiveFails, Answers, ClosesSocket
  <2>2. pc[h] \in {"close", "done"} => pc'[h] \in {"close", "done"}
    BY <1>0, <1>1 DEF Handler, HandlerBegins, SendsID, Peeks, PeekReturns, PeekFindsEnd,
                Receives, ReceivesClose, ReceiveFails, Answers, ClosesSocket, Go
  <2>3. Spent \subseteq Spent'
    BY <1>0, <1>1, <2>1, <2>2, HandlerMoves DEF Spent
  <2> QED BY <1>0, <2>1, <2>3, SpentGrows DEF listVars, InUse
<1>2. ASSUME NEW c \in Conn, Accept(c) PROVE CounterBehind'
  <2>1. UNCHANGED <<listVars, pc>> /\ met \subseteq met' /\ met' \subseteq Conn
    BY <1>0, <1>2 DEF Accept, threadVars, Running
  <2>2. Spent \subseteq Spent'
    BY <2>1 DEF Spent
  <2> QED BY <1>0, <2>1, <2>2, SpentGrows DEF listVars, InUse
<1>3. CASE AcceptorCreatesThread
  <2>1. UNCHANGED <<listVars, met>> /\ pc[acceptor.conn] = "none" /\ pc' = [pc EXCEPT ![acceptor.conn] = "begin"]
    BY <1>3 DEF AcceptorCreatesThread, TypeInv, HandleInv
  <2>2. Spent \subseteq Spent'
    BY <1>0, <2>1 DEF Spent
  <2> QED BY <1>0, <2>1, <2>2, SpentGrows DEF listVars, InUse
<1>4. CASE AcceptorRefuses \/ UNCHANGED vars \/ \E c \in Conn : Asks(c) \/ Closes(c) \/ Leaves(c)
  <2>1. UNCHANGED <<listVars, pc, met>>
    BY <1>4 DEF AcceptorRefuses, AddClientFails, vars, threadVars, Asks, Closes, Leaves
  <2>2. Spent \subseteq Spent'
    BY <2>1 DEF Spent
  <2> QED BY <1>0, <2>1, <2>2, SpentGrows DEF listVars, InUse
<1> QED BY <1>1, <1>2, <1>3, <1>4, RemovesBehind, AddsBehind DEF Next, Acceptor

(* The handler of a client that has met no other leaves neither its entry  *)
(* nor its socket behind, whatever others have left; and the counter falls *)
(* behind the slots in use by no more than one for each that has met.      *)
THEOREM NothingLeaksUnmet == Spec => []NothingLeaks
<1>1. Init => CounterBehind
  <2> SUFFICES ASSUME Init PROVE CounterBehind
    OBVIOUS
  <2>1. InUse = {} /\ Spent = {} /\ iClientCount = 0 /\ met = {}
    BY DEF Init, InitializeClientHandleList, InUse, Spent
  <2> QED BY <2>1, FS_EmptySet DEF CounterBehind
<1>2. TypeInv /\ MeetInv /\ CounterBehind => NothingLeaks
  <2> SUFFICES ASSUME TypeInv, MeetInv, CounterBehind PROVE NothingLeaks
    OBVIOUS
  <2>1. Spent \subseteq met /\ IsFiniteSet(met) /\ Cardinality(Spent) \in Nat
    BY SpentFinite DEF Spent, CounterBehind
  <2>2. Cardinality(Spent) <= Cardinality(met) /\ Cardinality(met) \in Nat
    BY <2>1, FS_Subset, FS_CardinalityType
  <2>3. Cardinality(InUse) <= iClientCount + Cardinality(met)
    BY <2>1, <2>2, InUseFinite DEF CounterBehind, TypeInv, CounterInv
  <2> QED BY <2>3 DEF NothingLeaks, MeetInv, Undisturbed, Left, Listed
<1> QED BY <1>1, <1>2, InitTypeInv, TypeInvStep, InitMeets, MeetStep, BehindStep, PTL DEF Spec
=============================================================================
