------------------------- MODULE FileServiceProofs -------------------------
(***************************************************************************)
(* Theorems about FileService for every number of clients, every trie and  *)
(* every path: no file is ever opened by its name, no client gets another  *)
(* response but to the text of a WRITE, the counts of the locks keep the   *)
(* drift that start-up gave them, and until a handler calls exit() the     *)
(* lock of every plain file is a correct reader-writer lock.               *)
(***************************************************************************)
EXTENDS FileService, FiniteSetTheorems, SequenceTheorems, TLAPS

-----------------------------------------------------------------------------
(* Types, and what a handler's position says of its own variables.         *)

Request == [op : Op, path : Path] \cup {Text}
Cut == {SubSeq(p, 1, 1) : p \in Path}
Walking == {"token", "lockNode", "child", "getLock", "lockToken", "lockChild", "lockFile", "open"}

HandlerInv(h) ==
  /\ ~Locking(h) => lk[h] = "queue"
  /\ lk[h] = "first" => ~AsWriter(h)
  /\ pc[h] = "unlink" => node[h] # <<>>
  /\ pc[h] = "search" => path[h] \in Path
  /\ pc[h] \in Walking => path[h] \in Cut
  /\ pc[h] # "none" => client \in Client
  /\ pc[h] \notin {"none", "copy"} => sock[h] \in Client

ServiceInv ==
  /\ TypeOK
  /\ inbox \in [Client -> SUBSET Request] /\ path \in [Client -> {<<>>} \cup Path \cup Cut]
  /\ \A h \in Client : HandlerInv(h)

LEMMA ChildrenFinite == \A n \in Trie : IsFiniteSet(Children(n)) /\ Cardinality(Children(n)) \in Nat
  BY TrieAssumption, FS_Subset, FS_CardinalityType DEF Children

LEMMA InitService == Init => ServiceInv
<1> SUFFICES ASSUME Init PROVE ServiceInv
  OBVIOUS
<1> USE ClientAssumption, TrieAssumption, OpAssumption DEF Init
<1>1. readerCount \in [Trie -> Int]
  BY ChildrenFinite
<1>2. TypeOK
  BY <1>1 DEF TypeOK, Position
<1>3. inbox \in [Client -> SUBSET Request] /\ path \in [Client -> {<<>>} \cup Path \cup Cut]
  OBVIOUS
<1>4. \A h \in Client : HandlerInv(h)
  BY DEF HandlerInv, Locking, AsWriter, Walking
<1> QED BY <1>2, <1>3, <1>4 DEF ServiceInv

LEMMA ServiceStep ==
  ASSUME ServiceInv, NEW h \in Client, Handler(h)
  PROVE  ServiceInv'
<1> USE ClientAssumption, OpAssumption
        DEF ServiceInv, TypeOK, HandlerInv, Locking, AsWriter, Walking, Position, Go,
            mutexVars, lockVars, walkVars, requestVars, netVars, endVars
<1>1. CASE CopiesSocket(h)
  BY <1>1 DEF CopiesSocket
<1>2. CASE ReceivesRequest(h)
  <2>1. sock[h] \in Client
    BY <1>2 DEF ReceivesRequest
  <2>2. PICK r \in Request :
          /\ Go(h, "recv", IF r.op = "OTHER" THEN "respond" ELSE "search")
          /\ inbox' = [inbox EXCEPT ![sock[h]] = {}]
          /\ op' = [op EXCEPT ![h] = r.op]
          /\ file_path' = [file_path EXCEPT ![h] = r.path]
          /\ path' = [path EXCEPT ![h] = r.path]
          /\ text' = [text EXCEPT ![sock[h]] = IF r.op = "WRITE" THEN "typing" ELSE @]
          /\ UNCHANGED <<client, lockVars, strtok, node, name, sock, reset, responses, endVars>>
    BY <1>2, <2>1 DEF ReceivesRequest
  <2>3. /\ r.op \in Op \cup {"OTHER"} /\ r.path \in Path \cup {<<>>}
        /\ r.op # "OTHER" => r.path \in Path
    BY DEF Request, Text
  <2>4. TypeOK'
    BY <2>2, <2>3
  <2>5. inbox' \in [Client -> SUBSET Request] /\ path' \in [Client -> {<<>>} \cup Path \cup Cut]
    BY <2>2, <2>3
  <2>6. \A g \in Client : HandlerInv(g)'
    BY <2>2, <2>3
  <2> QED BY <2>4, <2>5, <2>6
<1>3. CASE ReceivesNothing(h)
  BY <1>3 DEF ReceivesNothing
<1>4. CASE ReceiveOrSendFails(h)
  <2>1. CASE \E g \in Client : Exiting(g)
    BY <1>4, <2>1 DEF ReceiveOrSendFails
  <2>2. CASE ~\E g \in Client : Exiting(g)
    <3> DEFINE Fails == /\ pc' = [pc EXCEPT ![h] = "destroyLock"]
                        /\ node' = [node EXCEPT ![h] = <<>>]
                        /\ UNCHANGED <<exited, client, lockVars, strtok, path, name,
                                       requestVars, netVars, freed>>
    <3>a. Fails
      BY <1>4, <2>2 DEF ReceiveOrSendFails
    <3>1. TypeOK'
      BY <3>a, TrieAssumption
    <3>b. pc[h] \in {"recv", "respond"}
      BY <1>4 DEF ReceiveOrSendFails
    <3>2. ASSUME NEW g \in Client PROVE HandlerInv(g)'
      <4>1. CASE g = h
        BY <3>a, <3>b, <4>1
      <4>2. CASE g # h
        BY <3>a, <4>2
      <4> QED BY <4>1, <4>2
    <3> QED BY <3>a, <3>1, <3>2
  <2> QED BY <2>1, <2>2
<1>5. CASE SendKills(h)
  BY <1>5 DEF SendKills
<1>6. CASE Searches(h)
  BY <1>6, TrieAssumption DEF Searches, Cut
<1>7. CASE SearchTakesToken(h)
  BY <1>7 DEF SearchTakesToken, NextName
<1>8. CASE SearchFinds(h)
  BY <1>8 DEF SearchFinds
<1>9. CASE LooksForChild(h)
  BY <1>9 DEF LooksForChild, Read_Unlock, HasChild, Linked
<1>10. CASE GetsPathLock(h)
  BY <1>10, TrieAssumption DEF GetsPathLock
<1>11. CASE GetTakesToken(h)
  BY <1>11 DEF GetTakesToken, NextName
<1>12. CASE GetLooksForChild(h)
  BY <1>12 DEF GetLooksForChild, HasChild, Linked
<1>13. CASE LocksNull(h)
  BY <1>13 DEF LocksNull
<1>14. CASE GetReturns(h)
  BY <1>14 DEF GetReturns
<1>15. CASE TakesQueue(h)
  BY <1>15 DEF TakesQueue
<1>16. CASE CountsItself(h)
  BY <1>16 DEF CountsItself
<1>17. CASE FirstTakesWrite(h)
  BY <1>17 DEF FirstTakesWrite
<1>18. CASE WriterTakesWrite(h)
  BY <1>18 DEF WriterTakesWrite
<1>19. CASE LeavesQueue(h)
  BY <1>19 DEF LeavesQueue, Behind
<1>20. CASE ReadOrInfoFails(h)
  BY <1>20 DEF ReadOrInfoFails, Read_Unlock
<1>21. CASE WriteFails(h)
  BY <1>21 DEF WriteFails
<1>22. CASE Responds(h)
  <2>1. responses' \in [Client -> Nat]
    <3>0. sock[h] \in Client
      BY <1>22 DEF Responds
    <3>1. responses[sock[h]] \in Nat
      BY <3>0
    <3>2. responses' = [responses EXCEPT ![sock[h]] = @ + 1]
      BY <1>22 DEF Responds
    <3> HIDE DEF HandlerInv
    <3> QED BY <3>0, <3>1, <3>2
  <2>2. TypeOK'
    BY <1>22, <2>1, TrieAssumption DEF Responds
  <2>3. \A g \in Client : HandlerInv(g)'
    BY <1>22 DEF Responds
  <2> QED BY <1>22, <2>2, <2>3 DEF Responds
<1>23. CASE DestroysChild(h)
  BY <1>23 DEF DestroysChild, Children
<1>24. CASE FreesNode(h)
  <2>1. node[h] \in Trie /\ freed' = freed \cup {node[h]} /\ freed' \subseteq Trie
    BY <1>24 DEF FreesNode
  <2>2. exited \in BOOLEAN
    OBVIOUS
  <2>3. CASE node[h] = <<>>
    <3>1. exited' \in BOOLEAN
      BY <1>24, <2>3 DEF FreesNode
    <3> QED BY <1>24, <2>1, <2>3, <3>1 DEF FreesNode
  <2>4. CASE node[h] # <<>>
    <3>1. exited' \in BOOLEAN
      BY <1>24, <2>2, <2>4, Zenon DEF FreesNode
    <3>2. pc' = [pc EXCEPT ![h] = "unlink"] /\ pc[h] = "destroy"
      BY <1>24, <2>4 DEF FreesNode
    <3> QED BY <1>24, <2>1, <2>4, <3>1, <3>2 DEF FreesNode
  <2> QED BY <2>3, <2>4
<1>25. CASE UnlinksChild(h)
  BY <1>25, TrieAssumption DEF UnlinksChild, Parent
<1>26. CASE TouchesFreed(h)
  BY <1>26 DEF TouchesFreed
<1> QED BY <1>1, <1>2, <1>3, <1>4, <1>5, <1>6, <1>7, <1>8, <1>9, <1>10, <1>11, <1>12, <1>13, <1>14, <1>15, <1>16, <1>17, <1>18, <1>19, <1>20, <1>21, <1>22, <1>23, <1>24, <1>25, <1>26 DEF Handler

LEMMA NetStep ==
  ASSUME ServiceInv, NEW c \in Client, Accept(c) \/ Types(c) \/ Resets(c)
  PROVE  ServiceInv'
<1> USE ClientAssumption, OpAssumption
        DEF ServiceInv, TypeOK, HandlerInv, Locking, AsWriter, Walking, Position, Go,
            mutexVars, lockVars, walkVars, requestVars, netVars, endVars
<1>3. CASE Types(c)
  BY <1>3 DEF Types, Request
<1>1. CASE Accept(c)
  <2>1. inbox' \in [Client -> SUBSET Request]
    BY <1>1 DEF Accept, Request
  <2>2. TypeOK'
    BY <1>1 DEF Accept
  <2>3. \A g \in Client : HandlerInv(g)'
    BY <1>1 DEF Accept
  <2> QED BY <1>1, <2>1, <2>2, <2>3 DEF Accept
<1>2. CASE Resets(c)
  BY <1>2 DEF Resets
<1> QED BY <1>1, <1>2, <1>3

LEMMA ServiceStutters ==
  ASSUME ServiceInv, UNCHANGED vars
  PROVE  ServiceInv'
  BY DEF ServiceInv, TypeOK, HandlerInv, Locking, AsWriter, vars,
         mutexVars, lockVars, walkVars, requestVars, netVars, endVars

\* The variables have their types, and each handler's agree with its position.
THEOREM ServiceInvariant == Spec => []ServiceInv
<1>1. ServiceInv /\ [Next]_vars => ServiceInv'
  BY ServiceStep, NetStep, ServiceStutters DEF Next
<1> QED BY InitService, <1>1, PTL DEF Spec

\* Every variable has its type.
THEOREM TypeCorrectness == Spec => []TypeOK
<1>1. ServiceInv => TypeOK
  BY DEF ServiceInv
<1> QED BY <1>1, ServiceInvariant, PTL

-----------------------------------------------------------------------------
\* What a search has cut a path to has nothing behind its first token.
LEMMA NothingBehindFirst == \A p \in Cut : Tail(p) = <<>>
<1> SUFFICES ASSUME NEW q \in Path PROVE Tail(SubSeq(q, 1, 1)) = <<>>
  BY DEF Cut
<1>1. q \in Seq(ToSet(q)) /\ q # <<>> /\ Len(q) >= 1 /\ Len(q) \in Nat
  BY PathAssumption, LenProperties
<1>2. SubSeq(q, 1, 1) \in Seq(ToSet(q)) /\ Len(SubSeq(q, 1, 1)) = 1
  BY <1>1, SubSeqProperties
<1>3. SubSeq(q, 1, 1) # <<>>
  <2>1. Len(<<>>) = 0
    OBVIOUS
  <2>2. 0 # 1
    OBVIOUS
  <2> QED BY <1>2, <2>1, <2>2, Zenon
<1>4. Tail(SubSeq(q, 1, 1)) \in Seq(ToSet(q)) /\ Len(Tail(SubSeq(q, 1, 1))) = 0
  BY <1>2, <1>3, HeadTailProperties
<1> QED BY <1>4, EmptySeq

(* Whatever the handlers do to each other's strtok, READ, WRITE and INFO   *)
(* open the empty name.                                                    *)
THEOREM OpensEmptyName == Spec => []NameIsEmpty
<1>1. ServiceInv => NameIsEmpty
  BY NothingBehindFirst DEF ServiceInv, HandlerInv, Walking, NameIsEmpty, OpenName
<1> QED BY <1>1, ServiceInvariant, PTL

-----------------------------------------------------------------------------
(* One response for each connection: as long as its client sends nothing   *)
(* but its request, the request, a handler that has received it, and the   *)
(* response are never there together.                                      *)

Serving(h) == pc[h] \in Walking \cup {"search", "respond"}

Alone(c) ==
  /\ responses[c] <= 1
  /\ inbox[c] # {} => responses[c] = 0
  /\ \A h \in Client : Serving(h) /\ sock[h] = c =>
       /\ inbox[c] = {} /\ responses[c] = 0
       /\ \A g \in Client : Serving(g) /\ sock[g] = c => g = h

Done(h, c) == pc[h] = "done" /\ sock[h] = c

OneEach(c) ==
  /\ pc[c] = "none" => inbox[c] = {} /\ responses[c] = 0 /\ client # c /\ text[c] = "none"
  /\ \A h \in Client : pc[h] \notin {"none", "copy"} /\ sock[h] = c => pc[c] # "none"
  /\ text[c] = "none" => Alone(c)
  /\ responses[c] > 0 => \E h \in Client : Done(h, c)
  /\ responses[c] > 1 => TwoServed(c)

ResponseInv == \A c \in Client : OneEach(c)

LEMMA InitResponse == Init => ResponseInv
  BY ClientAssumption DEF Init, ResponseInv, OneEach, Alone, Done, TwoServed, Serving, Walking

(* A step that receives and sends nothing, and of a handler that had its   *)
(* socket before, leaves the account as it is.                             *)
Silent(h) ==
  /\ UNCHANGED <<client, sock, inbox, responses, text>>
  /\ \A g \in Client \ {h} : pc'[g] = pc[g]
  /\ pc[h] \notin {"none", "copy", "done"} /\ pc'[h] \notin {"none", "copy"}
  /\ Serving(h)' => Serving(h)

LEMMA SilentSteps ==
  ASSUME ServiceInv, NEW h \in Client,
         ReceivesNothing(h) \/ ReceiveOrSendFails(h) \/ SendKills(h) \/ Searches(h) \/
         SearchTakesToken(h) \/ SearchFinds(h) \/ LooksForChild(h) \/ GetsPathLock(h) \/
         GetTakesToken(h) \/ GetLooksForChild(h) \/ LocksNull(h) \/ GetReturns(h) \/
         TakesQueue(h) \/ CountsItself(h) \/ FirstTakesWrite(h) \/ WriterTakesWrite(h) \/
         LeavesQueue(h) \/ ReadOrInfoFails(h) \/ WriteFails(h) \/ DestroysChild(h) \/
         FreesNode(h) \/ UnlinksChild(h) \/ TouchesFreed(h)
  PROVE  Silent(h)
<1>1. pc \in [Client -> Position]
  BY DEF ServiceInv, TypeOK
<1> USE <1>1 DEF Silent, Serving, Walking, Locking, AsWriter, Go,
                 mutexVars, lockVars, walkVars, requestVars, netVars, endVars
<1>2. CASE ReceivesNothing(h)
  BY <1>2 DEF ReceivesNothing
<1>3. CASE ReceiveOrSendFails(h)
  BY <1>3 DEF ReceiveOrSendFails
<1>4. CASE SendKills(h)
  BY <1>4 DEF SendKills
<1>5. CASE Searches(h)
  BY <1>5 DEF Searches
<1>6. CASE SearchTakesToken(h)
  BY <1>6 DEF SearchTakesToken
<1>7. CASE SearchFinds(h)
  BY <1>7 DEF SearchFinds
<1>8. CASE LooksForChild(h)
  BY <1>8 DEF LooksForChild
<1>9. CASE GetsPathLock(h)
  BY <1>9 DEF GetsPathLock
<1>10. CASE GetTakesToken(h)
  BY <1>10 DEF GetTakesToken
<1>11. CASE GetLooksForChild(h)
  BY <1>11 DEF GetLooksForChild
<1>12. CASE LocksNull(h)
  BY <1>12 DEF LocksNull
<1>13. CASE GetReturns(h)
  BY <1>13 DEF GetReturns
<1>14. CASE TakesQueue(h)
  BY <1>14 DEF TakesQueue
<1>15. CASE CountsItself(h)
  BY <1>15 DEF CountsItself
<1>16. CASE FirstTakesWrite(h)
  BY <1>16 DEF FirstTakesWrite
<1>17. CASE WriterTakesWrite(h)
  BY <1>17 DEF WriterTakesWrite
<1>18. CASE LeavesQueue(h)
  BY <1>18 DEF LeavesQueue, Behind
<1>19. CASE ReadOrInfoFails(h)
  BY <1>19 DEF ReadOrInfoFails
<1>20. CASE WriteFails(h)
  BY <1>20 DEF WriteFails
<1>21. CASE DestroysChild(h)
  BY <1>21 DEF DestroysChild
<1>22. CASE FreesNode(h)
  BY <1>22 DEF FreesNode
<1>23. CASE UnlinksChild(h)
  BY <1>23 DEF UnlinksChild
<1>24. CASE TouchesFreed(h)
  BY <1>24 DEF TouchesFreed
<1> QED BY <1>2, <1>3, <1>4, <1>5, <1>6, <1>7, <1>8, <1>9, <1>10, <1>11, <1>12, <1>13, <1>14, <1>15, <1>16, <1>17, <1>18, <1>19, <1>20, <1>21, <1>22, <1>23, <1>24

LEMMA SilentKeeps ==
  ASSUME ResponseInv, NEW h \in Client, Silent(h)
  PROVE  ResponseInv'
<1> SUFFICES ASSUME NEW c \in Client PROVE OneEach(c)'
  BY DEF ResponseInv
<1>1. OneEach(c)
  BY DEF ResponseInv
<1>2. \A g \in Client : /\ Serving(g)' => Serving(g)
                        /\ Done(g, c) => Done(g, c)'
                        /\ pc'[g] \notin {"none", "copy"} => pc[g] \notin {"none", "copy"}
                        /\ pc[g] = "none" <=> pc'[g] = "none"
  BY DEF Silent, Serving, Done
<1>3. TwoServed(c) => TwoServed(c)'
  BY DEF Silent, TwoServed
<1>4. Alone(c) => Alone(c)'
  BY <1>2 DEF Silent, Alone
<1> QED BY <1>1, <1>2, <1>3, <1>4 DEF OneEach, Silent

LEMMA CopyStep ==
  ASSUME ServiceInv, ResponseInv, NEW h \in Client, CopiesSocket(h)
  PROVE  ResponseInv'
<1> SUFFICES ASSUME NEW c \in Client PROVE OneEach(c)'
  BY DEF ResponseInv
<1>1. /\ OneEach(c) /\ pc \in [Client -> Position] /\ sock \in [Client -> Client \cup {NoClient}]
      /\ client \in Client /\ pc[client] # "none"
  BY DEF ResponseInv, OneEach, ServiceInv, TypeOK, HandlerInv, CopiesSocket, Go
<1>2. /\ pc[h] = "copy" /\ pc' = [pc EXCEPT ![h] = "recv"] /\ sock' = [sock EXCEPT ![h] = client]
      /\ UNCHANGED <<client, inbox, responses, text>>
  BY DEF CopiesSocket, Go, netVars
<1>3. \A g \in Client : /\ Serving(g)' => Serving(g) /\ g # h
                        /\ Done(g, c) => Done(g, c)'
                        /\ pc[g] = "none" <=> pc'[g] = "none"
  BY <1>1, <1>2 DEF Serving, Walking, Done
<1>4. TwoServed(c) => TwoServed(c)'
  BY <1>1, <1>2 DEF TwoServed
<1>5. Alone(c) => Alone(c)'
  BY <1>1, <1>2, <1>3 DEF Alone
<1>6. \A g \in Client : pc'[g] \notin {"none", "copy"} /\ sock'[g] = c => pc'[c] # "none"
  BY <1>1, <1>2 DEF OneEach
<1> QED BY <1>1, <1>2, <1>3, <1>4, <1>5, <1>6 DEF OneEach

LEMMA ReceiveStep ==
  ASSUME ServiceInv, ResponseInv, NEW h \in Client, ReceivesRequest(h)
  PROVE  ResponseInv'
<1> SUFFICES ASSUME NEW c \in Client PROVE OneEach(c)'
  BY DEF ResponseInv
<1>1. /\ OneEach(c) /\ pc \in [Client -> Position] /\ sock[h] \in Client
      /\ inbox \in [Client -> SUBSET Request] /\ text \in [Client -> {"none", "typing", "sent"}]
  BY DEF ResponseInv, ServiceInv, TypeOK, HandlerInv, ReceivesRequest
<1> PICK r \in inbox[sock[h]] :
          /\ Go(h, "recv", IF r.op = "OTHER" THEN "respond" ELSE "search")
          /\ inbox' = [inbox EXCEPT ![sock[h]] = {}]
          /\ text' = [text EXCEPT ![sock[h]] = IF r.op = "WRITE" THEN "typing" ELSE @]
          /\ UNCHANGED <<client, sock, responses>>
  BY DEF ReceivesRequest
<1>2. /\ pc[h] = "recv" /\ pc'[h] \in {"respond", "search"} /\ \A g \in Client \ {h} : pc'[g] = pc[g]
  BY <1>1 DEF Go
<1>3. \A g \in Client : /\ g # h => (Serving(g)' <=> Serving(g))
                        /\ Done(g, c) => Done(g, c)'
                        /\ pc'[g] \notin {"none", "copy"} => pc[g] \notin {"none", "copy"}
                        /\ pc[g] = "none" <=> pc'[g] = "none"
  BY <1>1, <1>2 DEF Serving, Done
<1>4. TwoServed(c) => TwoServed(c)'
  BY <1>2 DEF TwoServed
<1>5. text'[c] = "none" => Alone(c)'
  <2>1. CASE sock[h] = c
    BY <1>1, <1>2, <1>3, <2>1 DEF OneEach, Alone
  <2>2. CASE sock[h] # c
    BY <1>1, <1>2, <1>3, <2>2 DEF OneEach, Alone
  <2> QED BY <2>1, <2>2
<1>6. pc'[c] = "none" => sock[h] # c
  BY <1>1, <1>2, <1>3 DEF OneEach
<1> QED BY <1>1, <1>2, <1>3, <1>4, <1>5, <1>6 DEF OneEach

LEMMA RespondStep ==
  ASSUME ServiceInv, ResponseInv, NEW h \in Client, Responds(h)
  PROVE  ResponseInv'
<1> SUFFICES ASSUME NEW c \in Client PROVE OneEach(c)'
  BY DEF ResponseInv
<1>1. /\ OneEach(c) /\ pc \in [Client -> Position] /\ sock[h] \in Client
      /\ responses \in [Client -> Nat]
  BY DEF ResponseInv, ServiceInv, TypeOK, HandlerInv, Responds, Go
<1>2. /\ pc[h] = "respond" /\ pc' = [pc EXCEPT ![h] = "done"]
      /\ responses' = [responses EXCEPT ![sock[h]] = @ + 1]
      /\ UNCHANGED <<client, sock, inbox, text>>
  BY DEF Responds, Go
<1>3. \A g \in Client : /\ Serving(g)' => Serving(g) /\ g # h
                        /\ Done(g, c) => Done(g, c)'
                        /\ pc'[g] \notin {"none", "copy"} => pc[g] \notin {"none", "copy"}
                        /\ pc[g] = "none" <=> pc'[g] = "none"
  BY <1>1, <1>2 DEF Serving, Walking, Done
<1>4. TwoServed(c) => TwoServed(c)'
  BY <1>1, <1>2 DEF TwoServed
<1>5. CASE sock[h] # c
  <2>1. responses'[c] = responses[c]
    BY <1>1, <1>2, <1>5
  <2>2. Alone(c) => Alone(c)'
    BY <1>2, <1>3, <2>1 DEF Alone
  <2> QED BY <1>1, <1>2, <1>3, <1>4, <2>1, <2>2 DEF OneEach
<1>6. CASE sock[h] = c
  <2>1. responses'[c] = responses[c] + 1 /\ responses[c] \in Nat /\ Done(h, c)' /\ Serving(h)
    BY <1>1, <1>2, <1>6 DEF Done, Serving
  <2>2. Alone(c) => Alone(c)'
    BY <1>2, <1>3, <1>6, <2>1 DEF Alone
  <2>3. responses[c] = 1 => TwoServed(c)'
    <3>1. responses[c] = 1 => \E g \in Client : Done(g, c)
      BY <1>1 DEF OneEach
    <3>2. \A g \in Client : Done(g, c) => g # h /\ pc'[g] = "done" /\ sock'[g] = c
      BY <1>1, <1>2 DEF Done
    <3>3. pc'[h] = "done" /\ sock'[h] = c
      BY <2>1 DEF Done
    <3> QED BY <3>1, <3>2, <3>3 DEF TwoServed
  <2>4. responses'[c] > 1 => responses[c] = 1 \/ responses[c] > 1
    BY <2>1
  <2>5. pc'[c] # "none"
    BY <1>1, <1>2, <1>3, <1>6 DEF OneEach
  <2> QED BY <1>1, <1>2, <1>3, <1>4, <2>1, <2>2, <2>3, <2>4, <2>5 DEF OneEach
<1> QED BY <1>5, <1>6

LEMMA ResponseStep ==
  ASSUME ServiceInv, ResponseInv, NEW h \in Client, Handler(h)
  PROVE  ResponseInv'
BY SilentSteps, SilentKeeps, CopyStep, ReceiveStep, RespondStep DEF Handler

LEMMA ResponseNetStep ==
  ASSUME ServiceInv, ResponseInv, NEW b \in Client, Accept(b) \/ Types(b) \/ Resets(b)
  PROVE  ResponseInv'
<1> SUFFICES ASSUME NEW c \in Client PROVE OneEach(c)'
  BY DEF ResponseInv
<1>1. /\ OneEach(c) /\ pc \in [Client -> Position] /\ inbox \in [Client -> SUBSET Request]
      /\ text \in [Client -> {"none", "typing", "sent"}]
      /\ \A h \in Client : pc[h] \notin {"none", "copy"} => sock[h] \in Client
  BY DEF ResponseInv, ServiceInv, TypeOK, HandlerInv
<1>2. CASE Accept(b)
  <2>1. /\ pc[b] = "none" /\ pc' = [pc EXCEPT ![b] = "copy"] /\ client' = b
        /\ UNCHANGED <<sock, responses, text>>
        /\ c # b => inbox'[c] = inbox[c]
    BY <1>1, <1>2 DEF Accept, Go, requestVars
  <2>2. \A h \in Client : /\ Serving(h)' <=> Serving(h)
                          /\ Done(h, c) <=> Done(h, c)'
                          /\ pc'[h] \notin {"none", "copy"} <=> pc[h] \notin {"none", "copy"}
    BY <1>1, <2>1 DEF Serving, Walking, Done
  <2>3. TwoServed(c) => TwoServed(c)'
    BY <1>1, <2>1 DEF TwoServed
  <2>4. CASE c = b
    <3>1. \A h \in Client : Serving(h) => sock[h] # c
      BY <1>1, <2>1, <2>4 DEF OneEach, Serving, Walking
    <3>2. Alone(c)'
      BY <1>1, <2>1, <2>2, <2>4, <3>1 DEF OneEach, Alone
    <3> QED BY <1>1, <2>1, <2>2, <2>3, <2>4, <3>2 DEF OneEach
  <2>5. CASE c # b
    <3>1. Alone(c) => Alone(c)'
      BY <2>1, <2>2, <2>5 DEF Alone
    <3> QED BY <1>1, <2>1, <2>2, <2>3, <2>5, <3>1 DEF OneEach
  <2> QED BY <2>4, <2>5
<1>3. CASE Types(b)
  <2>1. /\ text[b] = "typing" /\ text'[b] # "none" /\ UNCHANGED <<pc, client, sock, responses>>
        /\ c # b => inbox'[c] = inbox[c] /\ text'[c] = text[c]
    BY <1>1, <1>3 DEF Types, requestVars
  <2>2. Alone(c) /\ c # b => Alone(c)'
    BY <2>1 DEF Alone, Serving
  <2> QED BY <1>1, <2>1, <2>2 DEF OneEach, Done, TwoServed
<1>4. CASE Resets(b)
  <2>1. /\ UNCHANGED <<pc, client, sock, responses, text>>
        /\ inbox'[c] # {} => inbox[c] # {}
    BY <1>1, <1>4 DEF Resets, requestVars
  <2>2. Alone(c) => Alone(c)'
    BY <2>1 DEF Alone, Serving
  <2> QED BY <1>1, <2>1, <2>2 DEF OneEach, Done, TwoServed
<1> QED BY <1>2, <1>3, <1>4

LEMMA ResponseStutters ==
  ASSUME ResponseInv, UNCHANGED vars
  PROVE  ResponseInv'
BY DEF ResponseInv, OneEach, Alone, Done, TwoServed, Serving, vars, requestVars, netVars

(* A client is sent another response only if its request was a WRITE whose *)
(* text went to a second handler that had copied its socket.               *)
THEOREM OneResponse == Spec => []OneResponseButToText
<1>1. Init => ServiceInv /\ ResponseInv
  BY InitService, InitResponse
<1>2. ServiceInv /\ ResponseInv /\ [Next]_vars => ServiceInv' /\ ResponseInv'
  BY ServiceStep, NetStep, ServiceStutters, ResponseStep, ResponseNetStep, ResponseStutters
  DEF Next
<1>3. ServiceInv /\ ResponseInv => OneResponseButToText
  <2> SUFFICES ASSUME ServiceInv, ResponseInv, NEW c \in Client, responses[c] > 1
               PROVE  text[c] # "none" /\ TwoServed(c)
    BY DEF OneResponseButToText
  <2>1. responses[c] \in Nat /\ ~(responses[c] <= 1)
    BY DEF ServiceInv, TypeOK
  <2> QED BY <2>1 DEF ResponseInv, OneEach, Alone
<1> QED BY <1>1, <1>2, <1>3, PTL DEF Spec

-----------------------------------------------------------------------------
(* The counts.  A handler is counted by the lock of its node from the step *)
(* in which it counts itself to the one in which it uncounts itself.       *)

Counted(h) ==
  \/ pc[h] = "child"
  \/ pc[h] = "open" /\ op[h] # "WRITE"
  \/ Locking(h) /\ ~AsWriter(h) /\ lk[h] = "inside"
  \/ lk[h] = "first"

CountedAt(n) == {h \in Client : node[h] = n /\ Counted(h)}

LEMMA CountedFinite == \A n : IsFiniteSet(CountedAt(n)) /\ Cardinality(CountedAt(n)) \in Nat
  BY ClientAssumption, FS_Subset, FS_CardinalityType DEF CountedAt

(* CountsWithDrift, with the handlers inside and those on their first step *)
(* counted together.                                                       *)
Counts == \A n \in Trie : readerCount[n] = Cardinality(CountedAt(n)) - Cardinality(Children(n))

FirstAt(n) == {h \in Client : node[h] = n /\ lk[h] = "first"}

LEMMA CountsTogether ==
  ASSUME ServiceInv
  PROVE  CountsWithDrift <=> Counts
<1>1. \A n \in Trie : /\ IsFiniteSet(ReadersAt(n)) /\ Cardinality(ReadersAt(n)) \in Nat
                      /\ IsFiniteSet(FirstAt(n)) /\ Cardinality(FirstAt(n)) \in Nat
  BY ClientAssumption, FS_Subset, FS_CardinalityType DEF ReadersAt, FirstAt
<1>2. ASSUME NEW n \in Trie
      PROVE  Cardinality(CountedAt(n)) = Cardinality(ReadersAt(n)) + Cardinality(FirstAt(n))
  <2>1. ASSUME NEW h \in Client PROVE h \in CountedAt(n) <=> h \in ReadersAt(n) \/ h \in FirstAt(n)
    <3>1. h \in CountedAt(n) <=> node[h] = n /\ Counted(h)
      BY DEF CountedAt
    <3>2. h \in FirstAt(n) <=> node[h] = n /\ lk[h] = "first"
      BY DEF FirstAt
    <3>3. h \in ReadersAt(n) <=>
            node[h] = n /\ (\/ pc[h] = "child"
                            \/ pc[h] = "open" /\ op[h] # "WRITE"
                            \/ Locking(h) /\ ~AsWriter(h) /\ lk[h] = "inside")
      BY DEF ReadersAt
    <3> QED BY <3>1, <3>2, <3>3 DEF Counted
  <2>2. CountedAt(n) = ReadersAt(n) \cup FirstAt(n)
    BY <2>1 DEF CountedAt, ReadersAt, FirstAt
  <2>3. ReadersAt(n) \cap FirstAt(n) = {}
    BY DEF ReadersAt, FirstAt, ServiceInv, HandlerInv, Locking
  <2>4. Cardinality({}) = 0
    BY FS_EmptySet
  <2>5. Cardinality(CountedAt(n)) = Cardinality(ReadersAt(n)) + Cardinality(FirstAt(n))
                                    - Cardinality(ReadersAt(n) \cap FirstAt(n))
    BY <1>1, <2>2, FS_Union
  <2>6. Cardinality(ReadersAt(n) \cap FirstAt(n)) = 0
    BY <2>3, <2>4, Zenon
  <2> QED BY <1>1, <2>5, <2>6
<1>3. CountsWithDrift <=>
        \A n \in Trie : readerCount[n] = Cardinality(ReadersAt(n)) - Cardinality(Children(n))
                                         + Cardinality(FirstAt(n))
  BY DEF CountsWithDrift, FirstAt
<1>4. \A n \in Trie : Cardinality(ReadersAt(n)) - Cardinality(Children(n)) + Cardinality(FirstAt(n))
                      = Cardinality(CountedAt(n)) - Cardinality(Children(n))
  BY <1>1, <1>2, ChildrenFinite
<1> QED BY <1>3, <1>4 DEF Counts

\* What a step of h leaves alone of the other handlers.
OthersStay(h) ==
  \A g \in Client \ {h} : pc'[g] = pc[g] /\ op'[g] = op[g] /\ lk'[g] = lk[g] /\ node'[g] = node[g]

LEMMA OthersCounted ==
  ASSUME NEW h \in Client, OthersStay(h)
  PROVE  \A n : \A g \in Client \ {h} : g \in CountedAt(n)' <=> g \in CountedAt(n)
<1> SUFFICES ASSUME NEW n, NEW g \in Client \ {h} PROVE g \in CountedAt(n)' <=> g \in CountedAt(n)
  OBVIOUS
<1>1. pc'[g] = pc[g] /\ op'[g] = op[g] /\ lk'[g] = lk[g] /\ node'[g] = node[g]
  BY DEF OthersStay
<1> QED BY <1>1 DEF CountedAt, Counted, Locking, AsWriter

\* A step of a handler that is counted before and after it, or not at all.
Quiet(h) ==
  /\ OthersStay(h) /\ UNCHANGED readerCount
  /\ (Counted(h)' <=> Counted(h)) /\ (Counted(h) => node'[h] = node[h])

Enters(h) ==
  /\ OthersStay(h) /\ readerCount' = [readerCount EXCEPT ![node[h]] = @ + 1]
  /\ ~Counted(h) /\ Counted(h)' /\ node'[h] = node[h]

Leaves(h) ==
  /\ OthersStay(h) /\ readerCount' = [readerCount EXCEPT ![node[h]] = @ - 1]
  /\ Counted(h) /\ ~Counted(h)'

LEMMA QuietKeeps ==
  ASSUME Counts, NEW h \in Client, Quiet(h)
  PROVE  Counts'
<1>1. \A n : h \in CountedAt(n)' <=> h \in CountedAt(n)
  BY DEF Quiet, CountedAt
<1>2. \A n : CountedAt(n)' = CountedAt(n)
  <2> SUFFICES ASSUME NEW n, NEW g \in Client PROVE g \in CountedAt(n)' <=> g \in CountedAt(n)
    BY DEF CountedAt
  <2> QED BY <1>1, OthersCounted DEF Quiet
<1> QED BY <1>2 DEF Counts, Quiet

LEMMA EntersKeeps ==
  ASSUME ServiceInv, Counts, NEW h \in Client, Enters(h)
  PROVE  Counts'
<1>1. PICK m \in Trie : m = node[h]
  BY DEF ServiceInv, TypeOK
<1>2. \A n : \A g \in Client \ {h} : g \in CountedAt(n)' <=> g \in CountedAt(n)
  BY OthersCounted DEF Enters
<1>3. \A n : h \notin CountedAt(n) /\ (h \in CountedAt(n)' <=> n = m)
  BY <1>1 DEF Enters, CountedAt
<1>4. \A n : CountedAt(n) \subseteq Client /\ CountedAt(n)' \subseteq Client
  BY DEF CountedAt
<1>5. CountedAt(m)' = CountedAt(m) \cup {h}
  <2>1. \A g \in Client \ {h} : g \in CountedAt(m)' <=> g \in CountedAt(m)
    BY <1>2
  <2> QED BY <1>3, <1>4, <2>1
<1>6. ASSUME NEW n, n # m PROVE CountedAt(n)' = CountedAt(n)
  <2>1. \A g \in Client \ {h} : g \in CountedAt(n)' <=> g \in CountedAt(n)
    BY <1>2
  <2> QED BY <1>3, <1>4, <1>6, <2>1
<1>7. Cardinality(CountedAt(m)') = Cardinality(CountedAt(m)) + 1
  BY <1>3, <1>5, CountedFinite, FS_AddElement
<1>8. /\ readerCount \in [Trie -> Int]
      /\ readerCount' = [readerCount EXCEPT ![m] = @ + 1]
  BY <1>1 DEF ServiceInv, TypeOK, Enters
<1> SUFFICES ASSUME NEW n \in Trie
             PROVE  readerCount'[n] = Cardinality(CountedAt(n)') - Cardinality(Children(n))
  BY DEF Counts
<1>9. readerCount[n] = Cardinality(CountedAt(n)) - Cardinality(Children(n))
  BY DEF Counts
<1>10. CASE n = m
  <2>1. readerCount'[m] = Cardinality(CountedAt(m)) - Cardinality(Children(m)) + 1
    BY <1>8, <1>9, <1>10
  <2>2. Cardinality(CountedAt(m)) \in Nat /\ Cardinality(Children(m)) \in Nat
    BY CountedFinite, ChildrenFinite
  <2> QED BY <1>7, <1>10, <2>1, <2>2
<1>11. CASE n # m
  BY <1>6, <1>8, <1>9, <1>11
<1> QED BY <1>10, <1>11

LEMMA LeavesKeeps ==
  ASSUME ServiceInv, Counts, NEW h \in Client, Leaves(h)
  PROVE  Counts'
<1>1. PICK m \in Trie : m = node[h]
  BY DEF ServiceInv, TypeOK
<1>2. \A n : \A g \in Client \ {h} : g \in CountedAt(n)' <=> g \in CountedAt(n)
  BY OthersCounted DEF Leaves
<1>3. \A n : h \notin CountedAt(n)' /\ (h \in CountedAt(n) <=> n = m)
  BY <1>1 DEF Leaves, CountedAt
<1>4. \A n : CountedAt(n) \subseteq Client /\ CountedAt(n)' \subseteq Client
  BY DEF CountedAt
<1>5. CountedAt(m)' = CountedAt(m) \ {h}
  <2>1. \A g \in Client \ {h} : g \in CountedAt(m)' <=> g \in CountedAt(m)
    BY <1>2
  <2> QED BY <1>3, <1>4, <2>1
<1>6. ASSUME NEW n, n # m PROVE CountedAt(n)' = CountedAt(n)
  <2>1. \A g \in Client \ {h} : g \in CountedAt(n)' <=> g \in CountedAt(n)
    BY <1>2
  <2> QED BY <1>3, <1>4, <1>6, <2>1
<1>7. Cardinality(CountedAt(m)') = Cardinality(CountedAt(m)) - 1
  BY <1>3, <1>5, CountedFinite, FS_RemoveElement
<1>8. /\ readerCount \in [Trie -> Int]
      /\ readerCount' = [readerCount EXCEPT ![m] = @ - 1]
  BY <1>1 DEF ServiceInv, TypeOK, Leaves
<1> SUFFICES ASSUME NEW n \in Trie
             PROVE  readerCount'[n] = Cardinality(CountedAt(n)') - Cardinality(Children(n))
  BY DEF Counts
<1>9. readerCount[n] = Cardinality(CountedAt(n)) - Cardinality(Children(n))
  BY DEF Counts
<1>10. CASE n = m
  <2>1. readerCount'[m] = Cardinality(CountedAt(m)) - Cardinality(Children(m)) - 1
    BY <1>8, <1>9, <1>10
  <2>2. Cardinality(CountedAt(m)) \in Nat /\ Cardinality(Children(m)) \in Nat
    BY CountedFinite, ChildrenFinite
  <2> QED BY <1>7, <1>10, <2>1, <2>2
<1>11. CASE n # m
  BY <1>6, <1>8, <1>9, <1>11
<1> QED BY <1>10, <1>11

LEMMA QuietSteps ==
  ASSUME ServiceInv, NEW h \in Client,
         CopiesSocket(h) \/ ReceivesRequest(h) \/ ReceivesNothing(h) \/
         ReceiveOrSendFails(h) \/ SendKills(h) \/ Searches(h) \/ SearchTakesToken(h) \/
         SearchFinds(h) \/ GetsPathLock(h) \/ GetTakesToken(h) \/ GetLooksForChild(h) \/
         LocksNull(h) \/ GetReturns(h) \/ TakesQueue(h) \/ FirstTakesWrite(h) \/
         WriterTakesWrite(h) \/ LeavesQueue(h) \/ WriteFails(h) \/ Responds(h) \/
         DestroysChild(h) \/ FreesNode(h) \/ UnlinksChild(h) \/ TouchesFreed(h)
  PROVE  Quiet(h)
<1> USE DEF ServiceInv, TypeOK, HandlerInv, Locking, AsWriter, Quiet, OthersStay, Counted, Go,
            mutexVars, lockVars, walkVars, requestVars, netVars, endVars
<1>1. CASE CopiesSocket(h)
  BY <1>1 DEF CopiesSocket
<1>2. CASE ReceivesRequest(h)
  BY <1>2 DEF ReceivesRequest
<1>3. CASE ReceivesNothing(h)
  BY <1>3 DEF ReceivesNothing
<1>4. CASE ReceiveOrSendFails(h)
  BY <1>4 DEF ReceiveOrSendFails
<1>5. CASE SendKills(h)
  BY <1>5 DEF SendKills
<1>6. CASE Searches(h)
  BY <1>6 DEF Searches
<1>7. CASE SearchTakesToken(h)
  BY <1>7 DEF SearchTakesToken
<1>8. CASE SearchFinds(h)
  BY <1>8 DEF SearchFinds
<1>9. CASE GetsPathLock(h)
  BY <1>9 DEF GetsPathLock
<1>10. CASE GetTakesToken(h)
  BY <1>10 DEF GetTakesToken
<1>11. CASE GetLooksForChild(h)
  BY <1>11 DEF GetLooksForChild
<1>12. CASE LocksNull(h)
  BY <1>12 DEF LocksNull
<1>13. CASE GetReturns(h)
  BY <1>13 DEF GetReturns
<1>14. CASE TakesQueue(h)
  BY <1>14 DEF TakesQueue
<1>15. CASE FirstTakesWrite(h)
  BY <1>15 DEF FirstTakesWrite
<1>16. CASE WriterTakesWrite(h)
  BY <1>16 DEF WriterTakesWrite
<1>17. CASE LeavesQueue(h)
  <2>1. /\ pc[h] \in {"lockNode", "lockFile", "destroyLock"} /\ lk[h] = "inside"
        /\ pc' = [pc EXCEPT ![h] = Behind[pc[h]]] /\ lk' = [lk EXCEPT ![h] = "queue"]
        /\ UNCHANGED <<node, op, readerCount>>
    BY <1>17 DEF LeavesQueue
  <2>2. CASE pc[h] = "lockNode"
    <3>1. pc' = [pc EXCEPT ![h] = "child"]
      BY <2>1, <2>2 DEF Behind
    <3>2. OthersStay(h) /\ UNCHANGED readerCount /\ node'[h] = node[h]
      BY <2>1, <3>1
    <3>3. Counted(h) /\ Counted(h)'
      BY <2>1, <2>2, <3>1
    <3> QED BY <3>2, <3>3
  <2>3. CASE pc[h] = "lockFile"
    BY <2>1, <2>3 DEF Behind
  <2>4. CASE pc[h] = "destroyLock"
    BY <2>1, <2>4 DEF Behind
  <2> QED BY <2>1, <2>2, <2>3, <2>4
<1>18. CASE WriteFails(h)
  BY <1>18 DEF WriteFails
<1>19. CASE Responds(h)
  BY <1>19 DEF Responds
<1>20. CASE DestroysChild(h)
  BY <1>20 DEF DestroysChild
<1>21. CASE FreesNode(h)
  BY <1>21 DEF FreesNode
<1>22. CASE UnlinksChild(h)
  BY <1>22 DEF UnlinksChild
<1>23. CASE TouchesFreed(h)
  BY <1>23 DEF TouchesFreed
<1> QED BY <1>1, <1>2, <1>3, <1>4, <1>5, <1>6, <1>7, <1>8, <1>9, <1>10, <1>11, <1>12, <1>13, <1>14, <1>15, <1>16, <1>17, <1>18, <1>19, <1>20, <1>21, <1>22, <1>23

LEMMA EnteringSteps ==
  ASSUME ServiceInv, NEW h \in Client, CountsItself(h)
  PROVE  Enters(h)
  BY DEF CountsItself, Enters, OthersStay, ServiceInv, TypeOK, HandlerInv, Locking, AsWriter, Counted,
         walkVars, requestVars

LEMMA LeavingSteps ==
  ASSUME ServiceInv, NEW h \in Client, LooksForChild(h) \/ ReadOrInfoFails(h)
  PROVE  Leaves(h)
<1> USE DEF Leaves, Read_Unlock, ServiceInv, TypeOK, HandlerInv, Locking, AsWriter, OthersStay, Counted, Go,
            walkVars, requestVars
<1>1. CASE LooksForChild(h)
  <2>1. /\ pc[h] = "child" /\ lk[h] = "queue"
        /\ \E p \in {"token", "respond"} : pc' = [pc EXCEPT ![h] = p]
        /\ readerCount' = [readerCount EXCEPT ![node[h]] = @ - 1]
        /\ UNCHANGED <<lk, op>>
    BY <1>1 DEF LooksForChild
  <2>2. \A g \in Client \ {h} : node'[g] = node[g]
    BY <1>1 DEF LooksForChild
  <2>3. OthersStay(h)
    BY <2>1, <2>2
  <2>4. Counted(h)
    BY <2>1
  <2>5. pc'[h] \in {"token", "respond"} /\ lk'[h] = "queue"
    BY <2>1
  <2>6. ~Counted(h)'
    BY <2>5
  <2> QED BY <2>1, <2>3, <2>4, <2>6
<1>2. CASE ReadOrInfoFails(h)
  BY <1>2 DEF ReadOrInfoFails
<1> QED BY <1>1, <1>2

LEMMA NetStepsQuiet ==
  ASSUME ServiceInv, NEW c \in Client, Accept(c) \/ Types(c) \/ Resets(c)
  PROVE  Quiet(c)
<1> USE DEF Quiet, ServiceInv, TypeOK, HandlerInv, Locking, AsWriter, OthersStay, Counted, Go,
            lockVars, walkVars, requestVars
<1>1. CASE Accept(c)
  BY <1>1 DEF Accept
<1>2. CASE Resets(c)
  BY <1>2 DEF Resets
<1>3. CASE Types(c)
  BY <1>3 DEF Types
<1> QED BY <1>1, <1>2, <1>3

LEMMA InitCounts == Init => Counts
<1> SUFFICES ASSUME Init, NEW n \in Trie
             PROVE  readerCount[n] = Cardinality(CountedAt(n)) - Cardinality(Children(n))
  BY DEF Counts
<1>1. CountedAt(n) = {}
  BY DEF Init, CountedAt, Counted, Locking
<1>2. Cardinality(CountedAt(n)) = 0
  BY <1>1, FS_EmptySet
<1>3. readerCount[n] = -Cardinality(Children(n))
  BY DEF Init
<1> QED BY <1>2, <1>3, ChildrenFinite

LEMMA CountsStep == ServiceInv /\ Counts /\ [Next]_vars => Counts'
<1> SUFFICES ASSUME ServiceInv, Counts, [Next]_vars PROVE Counts'
  OBVIOUS
<1>1. ASSUME NEW h \in Client, Handler(h) PROVE Counts'
  BY <1>1, QuietSteps, EnteringSteps, LeavingSteps, QuietKeeps, EntersKeeps, LeavesKeeps DEF Handler
<1>2. ASSUME NEW c \in Client, Accept(c) \/ Types(c) \/ Resets(c) PROVE Counts'
  BY <1>2, NetStepsQuiet, QuietKeeps
<1>3. CASE UNCHANGED vars
  BY <1>3 DEF vars, lockVars, walkVars, requestVars, Counts, CountedAt, Counted, Locking, AsWriter
<1> QED BY <1>1, <1>2, <1>3 DEF Next

(* The handlers lock and unlock in pairs on every path through READ, WRITE *)
(* and INFO; what start-up took too much from a count stays missing.       *)
THEOREM CountsKeepDrift == Spec => []CountsWithDrift
<1>1. ServiceInv /\ Counts => CountsWithDrift
  BY CountsTogether
<1> QED BY <1>1, CountsStep, InitCounts, ServiceInvariant, PTL DEF Spec

-----------------------------------------------------------------------------
(* The locks of files, as long as no handler has called exit().            *)

\* Who holds the inner mutexes of a node.
MutexInv ==
  \A n \in Trie, h \in Client :
    /\ serviceQ[n] = h <=> node[h] = n /\ lk[h] # "queue"
    /\ readInit[n] = h <=> node[h] = n /\ lk[h] = "first"

(* The Write_Lock belongs to the readers as a group, or to one writer, who *)
(* may keep it for good.                                                   *)
Kept == {"open", "respond", "done"}
WriterInside(h, n) == pc[h] = "lockFile" /\ op[h] = "WRITE" /\ lk[h] = "inside" /\ node[h] = n
LeafLock(n) ==
  /\ writeLock[n] = Group <=> ReadersAt(n) # {}
  /\ FirstAt(n) # {} => ReadersAt(n) = {}
  /\ \A h \in Client : WriterInside(h, n) => writeLock[n] = h
  /\ \A h \in Client : writeLock[n] = h => pc[h] \in Kept \/ WriterInside(h, n)

SomeExit == \E h \in Client : Exiting(h)
LeafInv == SomeExit \/ \A n \in Leaf : LeafLock(n)

LEMMA InitLeaf == Init => MutexInv /\ LeafInv
<1> SUFFICES ASSUME Init PROVE MutexInv /\ LeafInv
  OBVIOUS
<1>1. MutexInv
  BY ClientAssumption DEF Init, MutexInv
<1>2. \A n \in Leaf : ReadersAt(n) = {} /\ FirstAt(n) = {} /\ writeLock[n] = NoClient
  BY DEF Init, ReadersAt, FirstAt, Locking, Leaf
<1>3. \A n \in Leaf : LeafLock(n)
  BY <1>2, ClientAssumption DEF Init, LeafLock, WriterInside
<1> QED BY <1>1, <1>3 DEF LeafInv

-----------------------------------------------------------------------------
(* The inner mutexes.                                                      *)

\* Between two calls of the lock, a handler may go to another node.
Walks(h) ==
  /\ OthersStay(h) /\ UNCHANGED <<serviceQ, readInit>>
  /\ lk'[h] = lk[h] /\ (node'[h] = node[h] \/ lk[h] = "queue")

LEMMA WalksKeepsMutexes ==
  ASSUME ServiceInv, MutexInv, NEW h \in Client, Walks(h)
  PROVE  MutexInv'
<1> SUFFICES ASSUME NEW n \in Trie, NEW g \in Client
             PROVE  /\ serviceQ'[n] = g <=> node'[g] = n /\ lk'[g] # "queue"
                    /\ readInit'[n] = g <=> node'[g] = n /\ lk'[g] = "first"
  BY DEF MutexInv
<1>1. CASE g # h
  BY <1>1 DEF MutexInv, Walks, OthersStay
<1>2. CASE g = h
  BY <1>2 DEF MutexInv, Walks
<1> QED BY <1>1, <1>2

LEMMA WalkingSteps ==
  ASSUME ServiceInv, NEW h \in Client,
         CopiesSocket(h) \/ ReceivesRequest(h) \/ ReceivesNothing(h) \/
         ReceiveOrSendFails(h) \/ SendKills(h) \/ Searches(h) \/ SearchTakesToken(h) \/
         SearchFinds(h) \/ GetsPathLock(h) \/ GetTakesToken(h) \/ GetLooksForChild(h) \/
         LocksNull(h) \/ GetReturns(h) \/ WriteFails(h) \/ Responds(h) \/
         DestroysChild(h) \/ FreesNode(h) \/ UnlinksChild(h) \/ TouchesFreed(h) \/
         LooksForChild(h) \/ ReadOrInfoFails(h) \/ Accept(h) \/ Types(h) \/ Resets(h)
  PROVE  Walks(h)
<1>1. /\ pc \in [Client -> Position] /\ node \in [Client -> Trie] /\ lk \in [Client -> {"queue", "head", "first", "inside"}]
      /\ op \in [Client -> Op \cup {"OTHER"}]
      /\ pc[h] \notin {"lockNode", "lockFile", "destroyLock"} => lk[h] = "queue"
  BY DEF ServiceInv, TypeOK, HandlerInv, Locking
<1> USE <1>1 DEF Walks, OthersStay, Go, mutexVars, lockVars, walkVars, requestVars, netVars, endVars
<1>2. CASE CopiesSocket(h) \/ ReceivesRequest(h) \/ ReceivesNothing(h)
  BY <1>2 DEF CopiesSocket, ReceivesRequest, ReceivesNothing
<1>3. CASE ReceiveOrSendFails(h)
  BY <1>3 DEF ReceiveOrSendFails
<1>4. CASE SendKills(h) \/ Searches(h) \/ SearchTakesToken(h) \/ SearchFinds(h)
  BY <1>4 DEF SendKills, Searches, SearchTakesToken, SearchFinds
<1>5. CASE GetsPathLock(h) \/ GetTakesToken(h) \/ GetLooksForChild(h) \/ LocksNull(h) \/ GetReturns(h)
  BY <1>5 DEF GetsPathLock, GetTakesToken, GetLooksForChild, LocksNull, GetReturns
<1>6. CASE WriteFails(h) \/ Responds(h) \/ DestroysChild(h) \/ UnlinksChild(h) \/ TouchesFreed(h)
  BY <1>6 DEF WriteFails, Responds, DestroysChild, UnlinksChild, TouchesFreed
<1>7. CASE FreesNode(h)
  BY <1>7 DEF FreesNode
<1>8. CASE LooksForChild(h)
  BY <1>8 DEF LooksForChild, Read_Unlock
<1>9. CASE ReadOrInfoFails(h)
  BY <1>9 DEF ReadOrInfoFails, Read_Unlock
<1>10. CASE Accept(h) \/ Types(h) \/ Resets(h)
  BY <1>10 DEF Accept, Types, Resets
<1> QED BY <1>2, <1>3, <1>4, <1>5, <1>6, <1>7, <1>8, <1>9, <1>10

LEMMA LockingSteps ==
  ASSUME ServiceInv, MutexInv, NEW h \in Client,
         TakesQueue(h) \/ CountsItself(h) \/ FirstTakesWrite(h) \/ WriterTakesWrite(h) \/ LeavesQueue(h)
  PROVE  OthersStay(h) /\ node'[h] = node[h] /\ MutexInv'
<1>1. /\ pc \in [Client -> Position] /\ node \in [Client -> Trie] /\ lk \in [Client -> {"queue", "head", "first", "inside"}]
      /\ serviceQ \in [Trie -> Client \cup {NoClient}] /\ readInit \in [Trie -> Client \cup {NoClient}]
      /\ NoClient \notin Client
  BY ClientAssumption DEF ServiceInv, TypeOK
<1>2. OthersStay(h) /\ node' = node
  BY <1>1 DEF OthersStay, TakesQueue, CountsItself, FirstTakesWrite, WriterTakesWrite, LeavesQueue, walkVars, requestVars
<1>3. MutexInv'
  <2> SUFFICES ASSUME NEW n \in Trie, NEW g \in Client
               PROVE  /\ serviceQ'[n] = g <=> node[g] = n /\ lk'[g] # "queue"
                      /\ readInit'[n] = g <=> node[g] = n /\ lk'[g] = "first"
    BY <1>2 DEF MutexInv
  <2>1. /\ serviceQ[n] = g <=> node[g] = n /\ lk[g] # "queue"
        /\ readInit[n] = g <=> node[g] = n /\ lk[g] = "first"
        /\ serviceQ[n] = h <=> node[h] = n /\ lk[h] # "queue"
        /\ readInit[n] = h <=> node[h] = n /\ lk[h] = "first"
    BY DEF MutexInv
  <2>2. CASE TakesQueue(h)
    BY <1>1, <2>1, <2>2 DEF TakesQueue
  <2>3. CASE CountsItself(h)
    BY <1>1, <2>1, <2>3 DEF CountsItself
  <2>4. CASE FirstTakesWrite(h)
    BY <1>1, <2>1, <2>4 DEF FirstTakesWrite
  <2>5. CASE WriterTakesWrite(h)
    BY <1>1, <2>1, <2>5 DEF WriterTakesWrite
  <2>6. CASE LeavesQueue(h)
    BY <1>1, <2>1, <2>6 DEF LeavesQueue
  <2> QED BY <2>2, <2>3, <2>4, <2>5, <2>6
<1> QED BY <1>2, <1>3

LEMMA MutexStep == ServiceInv /\ MutexInv /\ [Next]_vars => MutexInv'
<1> SUFFICES ASSUME ServiceInv, MutexInv, [Next]_vars PROVE MutexInv'
  OBVIOUS
<1>1. CASE UNCHANGED vars
  BY <1>1 DEF vars, lockVars, mutexVars, walkVars, MutexInv
<1>2. ASSUME NEW h \in Client, Handler(h) \/ Accept(h) \/ Types(h) \/ Resets(h) PROVE MutexInv'
  BY <1>2, WalkingSteps, WalksKeepsMutexes, LockingSteps DEF Handler
<1> QED BY <1>1, <1>2 DEF Next

-----------------------------------------------------------------------------
(* What a step does at a node.                                             *)

StaysAt(n) == UNCHANGED <<ReadersAt(n), WritersAt(n), serviceQ[n]>>
StepAt(n) == [Lock(n)!Next]_<<ReadersAt(n), WritersAt(n), serviceQ[n]>>

LEMMA StaysIsStep == ASSUME NEW n, StaysAt(n) PROVE StepAt(n)
  BY DEF StaysAt, StepAt

\* The others are where they were, as readers, on their first step in, and as writers.
LEMMA OthersAt ==
  ASSUME NEW h \in Client, OthersStay(h), NEW n, NEW g \in Client \ {h}
  PROVE  /\ g \in ReadersAt(n)' <=> g \in ReadersAt(n)
         /\ g \in FirstAt(n)' <=> g \in FirstAt(n)
         /\ WriterInside(g, n)' <=> WriterInside(g, n)
         /\ pc'[g] = pc[g]
<1>1. pc'[g] = pc[g] /\ op'[g] = op[g] /\ lk'[g] = lk[g] /\ node'[g] = node[g]
  BY DEF OthersStay
<1> QED BY <1>1 DEF ReadersAt, FirstAt, WriterInside, Locking, AsWriter

\* A step that makes no difference to the lock of n but for the queue.
LEMMA NoDifference ==
  ASSUME NEW h \in Client, OthersStay(h), NEW n \in Leaf, LeafLock(n), writeLock'[n] = writeLock[n],
         h \in ReadersAt(n)' <=> h \in ReadersAt(n), h \in FirstAt(n)' <=> h \in FirstAt(n),
         WriterInside(h, n)' => WriterInside(h, n),
         pc[h] \in Kept \/ WriterInside(h, n) => pc'[h] \in Kept \/ WriterInside(h, n)'
  PROVE  LeafLock(n)' /\ ReadersAt(n)' = ReadersAt(n) /\ WritersAt(n)' = WritersAt(n)
<1>1. ReadersAt(n)' = ReadersAt(n)
  <2>1. \A g \in Client : g \in ReadersAt(n)' <=> g \in ReadersAt(n)
    BY OthersAt
  <2> QED BY <2>1 DEF ReadersAt
<1>2. FirstAt(n)' = FirstAt(n)
  <2>1. \A g \in Client : g \in FirstAt(n)' <=> g \in FirstAt(n)
    BY OthersAt
  <2> QED BY <2>1 DEF FirstAt
<1>3. ASSUME NEW g \in Client PROVE /\ WriterInside(g, n)' => writeLock'[n] = g
                                    /\ writeLock'[n] = g => pc'[g] \in Kept \/ WriterInside(g, n)'
  <2>1. /\ WriterInside(g, n) => writeLock[n] = g
        /\ writeLock[n] = g => pc[g] \in Kept \/ WriterInside(g, n)
    BY DEF LeafLock
  <2>2. CASE g = h
    BY <2>1, <2>2
  <2>3. CASE g # h
    BY <2>1, <2>3, OthersAt
  <2> QED BY <2>2, <2>3
<1>4. (writeLock[n] = Group <=> ReadersAt(n) # {}) /\ (FirstAt(n) # {} => ReadersAt(n) = {})
  BY DEF LeafLock
<1>5. LeafLock(n)'
  BY <1>1, <1>2, <1>3, <1>4 DEF LeafLock
<1> QED BY <1>1, <1>5 DEF WritersAt

\* Of a handler between its calls of the lock.
Idle(h) == lk[h] = "queue" /\ pc[h] # "child" /\ ~(pc[h] = "open" /\ op[h] # "WRITE")

LEMMA IdleNowhere ==
  ASSUME NEW h \in Client, Idle(h)
  PROVE  \A n : h \notin ReadersAt(n) /\ h \notin FirstAt(n) /\ ~WriterInside(h, n)
  BY DEF Idle, ReadersAt, FirstAt, WriterInside

LEMMA IdleNowhereNext ==
  ASSUME NEW h \in Client, Idle(h)'
  PROVE  \A n : h \notin ReadersAt(n)' /\ h \notin FirstAt(n)' /\ ~WriterInside(h, n)'
  BY DEF Idle, ReadersAt, FirstAt, WriterInside

Outside(h) ==
  /\ OthersStay(h) /\ UNCHANGED <<serviceQ, writeLock>>
  /\ (Idle(h) /\ Idle(h)') \/ (pc'[h] = pc[h] /\ op'[h] = op[h] /\ lk'[h] = lk[h] /\ node'[h] = node[h])
  /\ (pc[h] \in Kept => pc'[h] \in Kept) \/ Exiting(h)'

LEMMA OutsideStep ==
  ASSUME NEW h \in Client, Outside(h), NEW n \in Leaf, LeafLock(n)
  PROVE  StepAt(n) /\ (SomeExit' \/ LeafLock(n)')
<1>1. /\ h \in ReadersAt(n)' <=> h \in ReadersAt(n)
      /\ h \in FirstAt(n)' <=> h \in FirstAt(n)
      /\ WriterInside(h, n)' <=> WriterInside(h, n)
  <2>1. CASE Idle(h) /\ Idle(h)'
    BY <2>1, IdleNowhere, IdleNowhereNext
  <2>2. CASE pc'[h] = pc[h] /\ op'[h] = op[h] /\ lk'[h] = lk[h] /\ node'[h] = node[h]
    BY <2>2 DEF ReadersAt, FirstAt, WriterInside, Locking, AsWriter
  <2> QED BY <2>1, <2>2 DEF Outside
<1>2. ReadersAt(n)' = ReadersAt(n) /\ WritersAt(n)' = WritersAt(n)
  <2>1. \A g \in Client : g \in ReadersAt(n)' <=> g \in ReadersAt(n)
    BY <1>1, OthersAt DEF Outside
  <2> QED BY <2>1 DEF ReadersAt, WritersAt, Outside
<1>3. StaysAt(n)
  BY <1>2 DEF StaysAt, Outside
<1>4. CASE pc[h] \in Kept => pc'[h] \in Kept
  BY <1>1, <1>3, <1>4, NoDifference, StaysIsStep DEF Outside
<1>5. CASE Exiting(h)'
  BY <1>3, <1>5, StaysIsStep DEF SomeExit
<1> QED BY <1>4, <1>5 DEF Outside

LEMMA OutsideSteps ==
  ASSUME ServiceInv, ~SomeExit, NEW h \in Client,
         CopiesSocket(h) \/ ReceivesRequest(h) \/ ReceivesNothing(h) \/
         ReceiveOrSendFails(h) \/ SendKills(h) \/ Searches(h) \/ SearchTakesToken(h) \/
         SearchFinds(h) \/ GetsPathLock(h) \/ GetTakesToken(h) \/ GetLooksForChild(h) \/
         LocksNull(h) \/ GetReturns(h) \/ WriteFails(h) \/ Responds(h) \/ TouchesFreed(h) \/
         Accept(h) \/ Types(h) \/ Resets(h)
  PROVE  Outside(h)
<1>1. /\ pc \in [Client -> Position] /\ node \in [Client -> Trie] /\ lk \in [Client -> {"queue", "head", "first", "inside"}]
      /\ op \in [Client -> Op \cup {"OTHER"}]
      /\ pc[h] \notin {"lockNode", "lockFile", "destroyLock"} => lk[h] = "queue"
      /\ \A g \in Client : ~Exiting(g)
  BY DEF ServiceInv, TypeOK, HandlerInv, Locking, SomeExit
<1>2. Walks(h)
  BY WalkingSteps
<1>3. OthersStay(h) /\ UNCHANGED serviceQ /\ lk'[h] = lk[h]
  BY <1>2 DEF Walks
<1> USE <1>1, <1>3 DEF Outside, Idle, Kept, Exiting, Go, mutexVars, lockVars, walkVars, requestVars, netVars, endVars
<1>4. CASE CopiesSocket(h) \/ ReceivesRequest(h) \/ ReceivesNothing(h)
  BY <1>4 DEF CopiesSocket, ReceivesRequest, ReceivesNothing
<1>5. CASE ReceiveOrSendFails(h)
  BY <1>5 DEF ReceiveOrSendFails
<1>6. CASE Searches(h) \/ SearchTakesToken(h) \/ SearchFinds(h)
  BY <1>6 DEF Searches, SearchTakesToken, SearchFinds
<1>7. CASE GetsPathLock(h) \/ GetTakesToken(h) \/ GetLooksForChild(h) \/ GetReturns(h)
  BY <1>7 DEF GetsPathLock, GetTakesToken, GetLooksForChild, GetReturns
<1>8. CASE WriteFails(h) \/ Responds(h)
  BY <1>8 DEF WriteFails, Responds
<1>9. CASE SendKills(h) \/ LocksNull(h) \/ TouchesFreed(h) \/ Resets(h)
  BY <1>9 DEF SendKills, LocksNull, TouchesFreed, Resets
<1>10. CASE Accept(h) \/ Types(h)
  BY <1>10 DEF Accept, Types
<1> QED BY <1>4, <1>5, <1>6, <1>7, <1>8, <1>9, <1>10

-----------------------------------------------------------------------------
(* The steps of the lock, and of leaving it.                               *)

\* Of a file, the count is exact.
LEMMA CountOfLeaf ==
  ASSUME ServiceInv, Counts, NEW n \in Leaf
  PROVE  /\ CountedAt(n) = ReadersAt(n) \cup FirstAt(n)
         /\ readerCount[n] = 0 <=> CountedAt(n) = {}
         /\ readerCount[n] = 1 => \A g, h \in CountedAt(n) : g = h
         /\ \A h \in CountedAt(n) : readerCount[n] # 1 => CountedAt(n) # {h}
<1>1. n \in Trie /\ Children(n) = {}
  BY DEF Leaf
<1>2. Cardinality(Children(n)) = 0
  BY <1>1, FS_EmptySet
<1>3. readerCount[n] = Cardinality(CountedAt(n)) /\ IsFiniteSet(CountedAt(n)) /\ Cardinality(CountedAt(n)) \in Nat
  BY <1>1, <1>2, CountedFinite DEF Counts
<1>4. CountedAt(n) = ReadersAt(n) \cup FirstAt(n)
  BY DEF CountedAt, Counted, ReadersAt, FirstAt
<1>5. readerCount[n] = 0 <=> CountedAt(n) = {}
  BY <1>3, FS_EmptySet
<1>6. readerCount[n] = 1 <=> \E h : CountedAt(n) = {h}
  BY <1>3, FS_Singleton
<1> QED BY <1>4, <1>5, <1>6

LEMMA UnlockStep ==
  ASSUME ServiceInv, MutexInv, Counts, ~SomeExit, NEW h \in Client, LooksForChild(h) \/ ReadOrInfoFails(h),
         NEW n \in Leaf, LeafLock(n)
  PROVE  StepAt(n) /\ LeafLock(n)'
<1>1. /\ pc \in [Client -> Position] /\ node \in [Client -> Trie] /\ op \in [Client -> Op \cup {"OTHER"}]
      /\ lk[h] = "queue" /\ NoClient \notin Client /\ Group \notin Client /\ NoClient # Group
      /\ writeLock \in [Trie -> Client \cup {NoClient, Group}] /\ n \in Trie
  BY ClientAssumption DEF ServiceInv, TypeOK, HandlerInv, Locking, LooksForChild, ReadOrInfoFails, Go, Leaf
<1>2. Walks(h)
  BY WalkingSteps
<1>3. /\ OthersStay(h) /\ UNCHANGED serviceQ /\ lk'[h] = "queue" /\ pc'[h] \in {"token", "respond"}
      /\ pc[h] = "child" \/ (pc[h] = "open" /\ op[h] # "WRITE" /\ pc'[h] = "respond")
      /\ readInit[node[h]] = NoClient
      /\ writeLock' = [writeLock EXCEPT ![node[h]] = IF readerCount[node[h]] = 1 THEN NoClient ELSE @]
  BY <1>1, <1>2 DEF Walks, LooksForChild, ReadOrInfoFails, Read_Unlock, Go
<1>4. Idle(h)'
  BY <1>3 DEF Idle
<1>5. h \notin ReadersAt(n)' /\ h \notin FirstAt(n)' /\ ~WriterInside(h, n)'
  BY <1>4, IdleNowhereNext
<1>6. h \notin FirstAt(n) /\ ~WriterInside(h, n)
  BY <1>1, <1>3 DEF FirstAt, WriterInside
<1>7. CASE node[h] # n
  <2>1. h \notin ReadersAt(n) /\ writeLock'[n] = writeLock[n]
    BY <1>1, <1>3, <1>7 DEF ReadersAt
  <2>2. pc[h] \in Kept => pc'[h] \in Kept
    BY <1>3 DEF Kept
  <2>3. LeafLock(n)' /\ ReadersAt(n)' = ReadersAt(n) /\ WritersAt(n)' = WritersAt(n)
    BY <1>3, <1>5, <1>6, <2>1, <2>2, NoDifference
  <2>4. StaysAt(n)
    BY <1>3, <2>3 DEF StaysAt
  <2> QED BY <2>3, <2>4, StaysIsStep
<1>8. CASE node[h] = n
  <2>1. h \in ReadersAt(n) /\ writeLock[n] = Group
    BY <1>1, <1>3, <1>8 DEF ReadersAt, LeafLock
  <2>2. FirstAt(n) = {} /\ FirstAt(n)' = {}
    <3>1. ASSUME NEW g \in Client PROVE g \notin FirstAt(n)
      BY <1>1, <1>3, <1>8, <3>1 DEF MutexInv, FirstAt
    <3>2. \A g \in Client : g \notin FirstAt(n)'
      BY <1>3, <1>5, <3>1, OthersAt
    <3> QED BY <3>1, <3>2 DEF FirstAt
  <2>3. ReadersAt(n)' = ReadersAt(n) \ {h}
    <3>1. \A g \in Client : g \in ReadersAt(n)' <=> g \in ReadersAt(n) \ {h}
      BY <1>3, <1>5, OthersAt
    <3> QED BY <3>1 DEF ReadersAt
  <2>4. writeLock'[n] = (IF readerCount[n] = 1 THEN NoClient ELSE Group)
    BY <1>1, <1>3, <1>8, <2>1
  <2>5. writeLock'[n] = Group <=> ReadersAt(n)' # {}
    BY <1>1, <2>1, <2>2, <2>3, <2>4, CountOfLeaf
  <2>6. writeLock'[n] \notin Client
    BY <1>1, <2>4
  <2>7. \A g \in Client : ~WriterInside(g, n)'
    BY <1>1, <1>3, <1>5, <2>1, OthersAt DEF LeafLock
  <2>8. LeafLock(n)'
    BY <2>2, <2>5, <2>6, <2>7 DEF LeafLock
  <2>9. WritersAt(n) = {} /\ WritersAt(n)' = {}
    BY <1>1, <2>1, <2>6 DEF WritersAt
  <2>10. serviceQ[n] # h
    BY <1>1 DEF MutexInv
  <2>11. Lock(n)!EndRead(h)
    BY <1>3, <2>1, <2>3, <2>9, <2>10 DEF Lock!EndRead
  <2> QED BY <2>8, <2>11 DEF StepAt, Lock!Next, Lock!Leave
<1> QED BY <1>7, <1>8

\* A step of the lock of another node.
LEMMA ElsewhereStep ==
  ASSUME NEW h \in Client, OthersStay(h), node'[h] = node[h], NEW n \in Leaf, node[h] # n, LeafLock(n),
         writeLock'[n] = writeLock[n], serviceQ'[n] = serviceQ[n], pc[h] \in Kept => pc'[h] \in Kept
  PROVE  StepAt(n) /\ LeafLock(n)'
<1>1. /\ h \notin ReadersAt(n) /\ h \notin FirstAt(n) /\ ~WriterInside(h, n)
      /\ h \notin ReadersAt(n)' /\ h \notin FirstAt(n)' /\ ~WriterInside(h, n)'
  BY DEF ReadersAt, FirstAt, WriterInside
<1>2. LeafLock(n)' /\ ReadersAt(n)' = ReadersAt(n) /\ WritersAt(n)' = WritersAt(n)
  BY <1>1, NoDifference
<1> QED BY <1>2, StaysIsStep DEF StaysAt

LEMMA TakesQueueStep ==
  ASSUME ServiceInv, MutexInv, ~SomeExit, NEW h \in Client, TakesQueue(h),
         NEW n \in Leaf, LeafLock(n), node[h] = n
  PROVE  StepAt(n) /\ LeafLock(n)'
<1>1. /\ serviceQ \in [Trie -> Client \cup {NoClient}] /\ lk \in [Client -> {"queue", "head", "first", "inside"}]
      /\ n \in Trie /\ ~Exiting(h) /\ NoClient \notin Client
  BY ClientAssumption DEF ServiceInv, TypeOK, SomeExit, Leaf
<1>2. /\ Locking(h) /\ lk[h] = "queue" /\ serviceQ[n] = NoClient /\ serviceQ'[n] = h
      /\ lk'[h] = "head" /\ UNCHANGED <<pc, op, node, writeLock>>
  BY <1>1 DEF TakesQueue, walkVars, requestVars
<1>3. OthersStay(h)
  BY LockingSteps
<1>4. /\ h \notin ReadersAt(n) /\ h \notin FirstAt(n) /\ ~WriterInside(h, n) /\ pc[h] \notin Kept
  BY <1>2 DEF ReadersAt, FirstAt, WriterInside, Locking, Kept
<1>5. /\ h \notin ReadersAt(n)' /\ h \notin FirstAt(n)' /\ ~WriterInside(h, n)'
  BY <1>2 DEF ReadersAt, FirstAt, WriterInside, Locking
<1>6. LeafLock(n)' /\ ReadersAt(n)' = ReadersAt(n) /\ WritersAt(n)' = WritersAt(n)
  BY <1>2, <1>3, <1>4, <1>5, NoDifference
<1>7. h \notin WritersAt(n)
  BY <1>4 DEF WritersAt, LeafLock
<1>8. Lock(n)!BecomeHead(h)
  BY <1>2, <1>4, <1>6, <1>7 DEF Lock!BecomeHead
<1> QED BY <1>6, <1>8 DEF StepAt, Lock!Next

\* The reader that comes first waits for the Write_Lock; those behind it are let in.
LEMMA CountsItselfStep ==
  ASSUME ServiceInv, MutexInv, Counts, ~SomeExit, NEW h \in Client, CountsItself(h),
         NEW n \in Leaf, LeafLock(n), node[h] = n
  PROVE  StepAt(n) /\ LeafLock(n)'
<1>1. /\ lk \in [Client -> {"queue", "head", "first", "inside"}]
      /\ n \in Trie /\ NoClient \notin Client /\ Group \notin Client /\ NoClient # Group
  BY ClientAssumption DEF ServiceInv, TypeOK, Leaf
<1>2. /\ Locking(h) /\ ~AsWriter(h) /\ lk[h] = "head" /\ readInit[n] = NoClient
      /\ lk'[h] = (IF readerCount[n] = 0 THEN "first" ELSE "inside")
      /\ UNCHANGED <<pc, op, node, writeLock, serviceQ>>
  BY <1>1 DEF CountsItself, walkVars, requestVars
<1>3. OthersStay(h)
  BY LockingSteps
<1>4. serviceQ[n] = h
  BY <1>1, <1>2 DEF MutexInv
<1>5. FirstAt(n) = {}
  BY <1>1, <1>2 DEF MutexInv, FirstAt
<1>6. CountedAt(n) = ReadersAt(n) /\ (readerCount[n] = 0 <=> CountedAt(n) = {})
  <2>1. CountedAt(n) = ReadersAt(n) \cup FirstAt(n) /\ (readerCount[n] = 0 <=> CountedAt(n) = {})
    BY CountOfLeaf
  <2> QED BY <1>5, <2>1
<1>7. h \notin ReadersAt(n) /\ ~WriterInside(h, n) /\ ~WriterInside(h, n)' /\ pc[h] \notin Kept
  BY <1>2 DEF ReadersAt, WriterInside, Locking, AsWriter, Kept
<1>8. \A g \in Client : /\ WriterInside(g, n)' => WriterInside(g, n)
                        /\ WriterInside(g, n) => WriterInside(g, n)'
                        /\ pc'[g] = pc[g]
  BY <1>2, <1>3, <1>7, OthersAt
<1>9. CASE readerCount[n] = 0
  <2>1. ReadersAt(n) = {}
    BY <1>6, <1>9
  <2>2. h \notin ReadersAt(n)'
    BY <1>2, <1>9 DEF ReadersAt, Locking
  <2>3. ReadersAt(n)' = {}
    <3>1. \A g \in Client : g \notin ReadersAt(n)'
      BY <1>3, <2>1, <2>2, OthersAt
    <3> QED BY <3>1 DEF ReadersAt
  <2>4. LeafLock(n)'
    BY <1>2, <1>8, <2>1, <2>3 DEF LeafLock
  <2>5. StaysAt(n)
    BY <1>2, <2>1, <2>3 DEF StaysAt, WritersAt
  <2> QED BY <2>4, <2>5, StaysIsStep
<1>10. CASE readerCount[n] # 0
  <2>1. writeLock[n] = Group /\ WritersAt(n) = {} /\ WritersAt(n)' = {}
    BY <1>1, <1>2, <1>6, <1>10 DEF LeafLock, WritersAt
  <2>2. h \in ReadersAt(n)' /\ h \notin FirstAt(n)'
    BY <1>2, <1>10 DEF ReadersAt, FirstAt, Locking, AsWriter
  <2>3. ReadersAt(n)' = ReadersAt(n) \cup {h}
    <3>1. \A g \in Client : g \in ReadersAt(n)' <=> g \in ReadersAt(n) \cup {h}
      BY <1>3, <2>2, OthersAt
    <3> QED BY <3>1 DEF ReadersAt
  <2>4. FirstAt(n)' = {}
    <3>1. \A g \in Client : g \notin FirstAt(n)'
      BY <1>3, <1>5, <2>2, OthersAt
    <3> QED BY <3>1 DEF FirstAt
  <2>5. LeafLock(n)'
    BY <1>2, <1>8, <2>1, <2>3, <2>4 DEF LeafLock
  <2>6. Lock(n)!BeginRead(h)
    BY <1>2, <1>4, <1>7, <2>1, <2>3 DEF Lock!BeginRead
  <2> QED BY <2>5, <2>6 DEF StepAt, Lock!Next, Lock!Enter
<1> QED BY <1>9, <1>10

LEMMA FirstTakesWriteStep ==
  ASSUME ServiceInv, MutexInv, ~SomeExit, NEW h \in Client, FirstTakesWrite(h),
         NEW n \in Leaf, LeafLock(n), node[h] = n
  PROVE  StepAt(n) /\ LeafLock(n)'
<1>1. /\ lk \in [Client -> {"queue", "head", "first", "inside"}]
      /\ writeLock \in [Trie -> Client \cup {NoClient, Group}]
      /\ n \in Trie /\ NoClient \notin Client /\ Group \notin Client /\ NoClient # Group
  BY ClientAssumption DEF ServiceInv, TypeOK, Leaf
<1>2. /\ Locking(h) /\ ~AsWriter(h) /\ lk[h] = "first" /\ writeLock[n] = NoClient
      /\ writeLock'[n] = Group /\ lk'[h] = "inside" /\ UNCHANGED <<pc, op, node, serviceQ>>
  BY <1>1 DEF FirstTakesWrite, ServiceInv, HandlerInv, walkVars, requestVars
<1>3. OthersStay(h)
  BY LockingSteps
<1>4. serviceQ[n] = h /\ readInit[n] = h
  BY <1>1, <1>2 DEF MutexInv
<1>5. ReadersAt(n) = {}
  BY <1>1, <1>2 DEF LeafLock
<1>6. \A g \in Client : g \in FirstAt(n) => g = h
  BY <1>1, <1>4 DEF MutexInv, FirstAt
<1>7. h \in ReadersAt(n)' /\ h \notin FirstAt(n)' /\ ~WriterInside(h, n)'
  BY <1>2 DEF ReadersAt, FirstAt, WriterInside, Locking, AsWriter
<1>8. ReadersAt(n)' = {h}
  <2>1. \A g \in Client : g \in ReadersAt(n)' <=> g = h
    BY <1>3, <1>5, <1>7, OthersAt
  <2> QED BY <2>1 DEF ReadersAt
<1>9. FirstAt(n)' = {}
  <2>1. \A g \in Client : g \notin FirstAt(n)'
    BY <1>3, <1>6, <1>7, OthersAt
  <2> QED BY <2>1 DEF FirstAt
<1>10. \A g \in Client : ~WriterInside(g, n)'
  BY <1>1, <1>2, <1>3, <1>7, OthersAt DEF LeafLock
<1>11. LeafLock(n)'
  BY <1>1, <1>2, <1>8, <1>9, <1>10 DEF LeafLock
<1>12. WritersAt(n) = {} /\ WritersAt(n)' = {}
  BY <1>1, <1>2 DEF WritersAt
<1>13. Lock(n)!BeginRead(h)
  BY <1>2, <1>4, <1>5, <1>8, <1>12 DEF Lock!BeginRead
<1> QED BY <1>11, <1>13 DEF StepAt, Lock!Next, Lock!Enter

LEMMA WriterTakesWriteStep ==
  ASSUME ServiceInv, MutexInv, ~SomeExit, NEW h \in Client, WriterTakesWrite(h),
         NEW n \in Leaf, LeafLock(n), node[h] = n
  PROVE  StepAt(n) /\ LeafLock(n)'
<1>1. /\ lk \in [Client -> {"queue", "head", "first", "inside"}]
      /\ writeLock \in [Trie -> Client \cup {NoClient, Group}]
      /\ n \in Trie /\ NoClient \notin Client /\ Group \notin Client /\ NoClient # Group /\ ~Exiting(h)
  BY ClientAssumption DEF ServiceInv, TypeOK, Leaf, SomeExit
<1>2. /\ pc[h] = "lockFile" /\ op[h] = "WRITE" /\ lk[h] = "head" /\ writeLock[n] = NoClient
      /\ writeLock'[n] = h /\ lk'[h] = "inside" /\ UNCHANGED <<pc, op, node, serviceQ>>
  BY <1>1 DEF WriterTakesWrite, AsWriter, Exiting, walkVars, requestVars
<1>3. OthersStay(h)
  BY LockingSteps
<1>4. serviceQ[n] = h
  BY <1>1, <1>2 DEF MutexInv
<1>5. ReadersAt(n) = {}
  BY <1>1, <1>2 DEF LeafLock
<1>6. FirstAt(n) = {}
  BY <1>1, <1>2, <1>4 DEF MutexInv, FirstAt
<1>7. h \notin ReadersAt(n)' /\ h \notin FirstAt(n)' /\ WriterInside(h, n)'
  BY <1>2 DEF ReadersAt, FirstAt, WriterInside, Locking, AsWriter
<1>8. ReadersAt(n)' = {}
  <2>1. \A g \in Client : g \notin ReadersAt(n)'
    BY <1>3, <1>5, <1>7, OthersAt
  <2> QED BY <2>1 DEF ReadersAt
<1>9. FirstAt(n)' = {}
  <2>1. \A g \in Client : g \notin FirstAt(n)'
    BY <1>3, <1>6, <1>7, OthersAt
  <2> QED BY <2>1 DEF FirstAt
<1>10. \A g \in Client \ {h} : ~WriterInside(g, n)'
  BY <1>1, <1>2, <1>3, OthersAt DEF LeafLock
<1>11. LeafLock(n)'
  BY <1>1, <1>2, <1>7, <1>8, <1>9, <1>10 DEF LeafLock
<1>12. WritersAt(n) = {} /\ WritersAt(n)' = {h}
  BY <1>1, <1>2 DEF WritersAt
<1>13. Lock(n)!BeginWrite(h)
  BY <1>2, <1>4, <1>5, <1>8, <1>12 DEF Lock!BeginWrite
<1> QED BY <1>11, <1>13 DEF StepAt, Lock!Next, Lock!Enter

LEMMA LeavesQueueStep ==
  ASSUME ServiceInv, MutexInv, ~SomeExit, NEW h \in Client, LeavesQueue(h),
         NEW n \in Leaf, LeafLock(n), node[h] = n
  PROVE  StepAt(n) /\ LeafLock(n)'
<1>1. /\ lk \in [Client -> {"queue", "head", "first", "inside"}] /\ pc \in [Client -> Position]
      /\ serviceQ \in [Trie -> Client \cup {NoClient}]
      /\ n \in Trie /\ NoClient \notin Client /\ ~Exiting(h)
  BY ClientAssumption DEF ServiceInv, TypeOK, Leaf, SomeExit
<1>2. /\ pc[h] \in {"lockNode", "lockFile"} /\ lk[h] = "inside" /\ serviceQ'[n] = NoClient
      /\ pc' = [pc EXCEPT ![h] = Behind[pc[h]]]
      /\ lk'[h] = "queue" /\ UNCHANGED <<op, node, writeLock>>
  BY <1>1 DEF LeavesQueue, Locking, Exiting, walkVars, requestVars
<1>3. /\ pc[h] = "lockNode" => pc'[h] = "child"
      /\ pc[h] = "lockFile" => pc'[h] = "open"
  <2>1. CASE pc[h] = "lockNode"
    BY <1>1, <1>2, <2>1 DEF Behind
  <2>2. CASE pc[h] = "lockFile"
    BY <1>1, <1>2, <2>2 DEF Behind
  <2> QED BY <1>2, <2>1, <2>2
<1>4. OthersStay(h)
  BY LockingSteps
<1>5. serviceQ[n] = h
  BY <1>1, <1>2 DEF MutexInv
<1>6. /\ h \in ReadersAt(n)' <=> h \in ReadersAt(n)
      /\ h \notin FirstAt(n) /\ h \notin FirstAt(n)' /\ ~WriterInside(h, n)'
      /\ h \in ReadersAt(n) \/ WriterInside(h, n)
      /\ pc[h] \notin Kept /\ (WriterInside(h, n) => pc'[h] \in Kept)
  BY <1>1, <1>2, <1>3 DEF ReadersAt, FirstAt, WriterInside, Locking, AsWriter, Kept
<1>7. LeafLock(n)' /\ ReadersAt(n)' = ReadersAt(n) /\ WritersAt(n)' = WritersAt(n)
  BY <1>2, <1>4, <1>6, NoDifference
<1>8. h \in ReadersAt(n) \cup WritersAt(n)
  BY <1>6 DEF LeafLock, WritersAt
<1>9. Lock(n)!LeaveQueue(h)
  BY <1>2, <1>5, <1>7, <1>8 DEF Lock!LeaveQueue
<1> QED BY <1>7, <1>9 DEF StepAt, Lock!Next

LEMMA LockingStepsAt ==
  ASSUME ServiceInv, MutexInv, Counts, ~SomeExit, NEW h \in Client,
         TakesQueue(h) \/ CountsItself(h) \/ FirstTakesWrite(h) \/ WriterTakesWrite(h) \/ LeavesQueue(h),
         NEW n \in Leaf, LeafLock(n)
  PROVE  StepAt(n) /\ LeafLock(n)'
<1>1. CASE node[h] = n
  BY <1>1, TakesQueueStep, CountsItselfStep, FirstTakesWriteStep, WriterTakesWriteStep, LeavesQueueStep
<1>2. CASE node[h] # n
  <2>1. n \in Trie /\ serviceQ \in [Trie -> Client \cup {NoClient}]
        /\ writeLock \in [Trie -> Client \cup {NoClient, Group}] /\ pc \in [Client -> Position]
    BY DEF ServiceInv, TypeOK, Leaf
  <2>2. Locking(h)
    BY DEF TakesQueue, CountsItself, FirstTakesWrite, WriterTakesWrite, LeavesQueue, Locking, AsWriter
  <2>3. writeLock'[n] = writeLock[n] /\ serviceQ'[n] = serviceQ[n]
    BY <1>2, <2>1 DEF TakesQueue, CountsItself, FirstTakesWrite, WriterTakesWrite, LeavesQueue
  <2>4. pc[h] \notin Kept
    BY <2>2 DEF Kept, Locking
  <2> QED BY <1>2, <2>3, <2>4, LockingSteps, ElsewhereStep
<1> QED BY <1>1, <1>2

-----------------------------------------------------------------------------
(* Every step.                                                             *)

\* Who has called exit() stays in exit_handler.
LEMMA ExitStays ==
  ASSUME ServiceInv, MutexInv, NEW h \in Client, Handler(h) \/ Accept(h) \/ Types(h) \/ Resets(h),
         NEW g \in Client, Exiting(g)
  PROVE  Exiting(g)'
<1>1. pc \in [Client -> Position]
  BY DEF ServiceInv, TypeOK
<1>2. CASE g # h
  <2>1. OthersStay(h)
    BY WalkingSteps, LockingSteps DEF Walks, Handler
  <2> QED BY <1>2, <2>1 DEF OthersStay, Exiting
<1>3. CASE g = h
  <2> USE <1>1, <1>3 DEF Exiting, Go
  <2>1. CASE DestroysChild(h)
    BY <2>1 DEF DestroysChild
  <2>2. CASE FreesNode(h)
    BY <2>2 DEF FreesNode
  <2>3. CASE UnlinksChild(h)
    BY <2>3 DEF UnlinksChild
  <2>4. CASE LeavesQueue(h)
    <3>1. CASE pc[h] = "destroyLock"
      BY <2>4, <3>1 DEF LeavesQueue, Behind
    <3> QED BY <2>4, <3>1 DEF LeavesQueue, Locking
  <2>5. CASE TakesQueue(h) \/ CountsItself(h) \/ FirstTakesWrite(h) \/ WriterTakesWrite(h)
    BY <2>5 DEF TakesQueue, CountsItself, FirstTakesWrite, WriterTakesWrite
  <2>6. CASE CopiesSocket(h) \/ ReceivesRequest(h) \/ ReceivesNothing(h) \/ ReceiveOrSendFails(h) \/ SendKills(h)
    BY <2>6 DEF CopiesSocket, ReceivesRequest, ReceivesNothing, ReceiveOrSendFails, SendKills
  <2>7. CASE Searches(h) \/ SearchTakesToken(h) \/ SearchFinds(h) \/ LooksForChild(h) \/ GetsPathLock(h)
    BY <2>7 DEF Searches, SearchTakesToken, SearchFinds, LooksForChild, GetsPathLock
  <2>8. CASE GetTakesToken(h) \/ GetLooksForChild(h) \/ LocksNull(h) \/ GetReturns(h)
    BY <2>8 DEF GetTakesToken, GetLooksForChild, LocksNull, GetReturns
  <2>9. CASE ReadOrInfoFails(h) \/ WriteFails(h) \/ Responds(h) \/ TouchesFreed(h)
    BY <2>9 DEF ReadOrInfoFails, WriteFails, Responds, TouchesFreed
  <2>10. CASE Accept(h) \/ Types(h) \/ Resets(h)
    BY <2>10 DEF Accept, Types, Resets
  <2> QED BY <2>1, <2>2, <2>3, <2>4, <2>5, <2>6, <2>7, <2>8, <2>9, <2>10 DEF Handler
<1> QED BY <1>2, <1>3

LEMMA ActionAtLeaf ==
  ASSUME ServiceInv, MutexInv, Counts, ~SomeExit, NEW h \in Client,
         Handler(h) \/ Accept(h) \/ Types(h) \/ Resets(h), NEW n \in Leaf, LeafLock(n)
  PROVE  StepAt(n) /\ (SomeExit' \/ LeafLock(n)')
<1>1. CASE DestroysChild(h) \/ FreesNode(h) \/ UnlinksChild(h)
  BY <1>1 DEF SomeExit, Exiting, DestroysChild, FreesNode, UnlinksChild, Go
<1>2. CASE LooksForChild(h) \/ ReadOrInfoFails(h)
  BY <1>2, UnlockStep
<1>3. CASE TakesQueue(h) \/ CountsItself(h) \/ FirstTakesWrite(h) \/ WriterTakesWrite(h) \/ LeavesQueue(h)
  BY <1>3, LockingStepsAt
<1>4. CASE CopiesSocket(h) \/ ReceivesRequest(h) \/ ReceivesNothing(h) \/
           ReceiveOrSendFails(h) \/ SendKills(h) \/ Searches(h) \/ SearchTakesToken(h) \/
           SearchFinds(h) \/ GetsPathLock(h) \/ GetTakesToken(h) \/ GetLooksForChild(h) \/
           LocksNull(h) \/ GetReturns(h) \/ WriteFails(h) \/ Responds(h) \/ TouchesFreed(h) \/
           Accept(h) \/ Types(h) \/ Resets(h)
  BY <1>4, OutsideSteps, OutsideStep
<1> QED BY <1>1, <1>2, <1>3, <1>4 DEF Handler

\* A step at the leaves, or of the end of the process.
LeafStep == (\A n \in Leaf : StepAt(n)) \/ SomeExit

LEMMA LeavesStep ==
  ServiceInv /\ MutexInv /\ Counts /\ LeafInv /\ [Next]_vars => LeafInv' /\ LeafStep
<1> SUFFICES ASSUME ServiceInv, MutexInv, Counts, LeafInv, [Next]_vars PROVE LeafInv' /\ LeafStep
  OBVIOUS
<1>1. CASE UNCHANGED vars
  <2>1. \A n \in Leaf : StaysAt(n) /\ (LeafLock(n) => LeafLock(n)')
    BY <1>1 DEF vars, lockVars, mutexVars, walkVars, requestVars, StaysAt, LeafLock, ReadersAt, WritersAt,
                FirstAt, WriterInside, Locking, AsWriter
  <2>2. SomeExit => SomeExit'
    BY <1>1 DEF vars, SomeExit, Exiting
  <2> QED BY <2>1, <2>2, StaysIsStep DEF LeafInv, LeafStep
<1>2. ASSUME NEW h \in Client, Handler(h) \/ Accept(h) \/ Types(h) \/ Resets(h) PROVE LeafInv' /\ LeafStep
  <2>1. CASE SomeExit
    BY <1>2, <2>1, ExitStays DEF SomeExit, LeafInv, LeafStep
  <2>2. CASE ~SomeExit
    <3>1. \A n \in Leaf : StepAt(n) /\ (SomeExit' \/ LeafLock(n)')
      BY <1>2, <2>2, ActionAtLeaf DEF LeafInv
    <3> QED BY <3>1 DEF LeafInv, LeafStep
  <2> QED BY <2>1, <2>2
<1> QED BY <1>1, <1>2 DEF Next

(* As long as no handler has called exit(), the lock of a plain file is    *)
(* what AbstractRWLock says of it: Read_Lock, Write_Lock and Read_Unlock   *)
(* as READ, WRITE and INFO call them let in many readers or one writer.    *)
THEOREM FileLocksImplement == Spec => FileLocksAsAgreed
<1>1. Init => \A n \in Leaf : Lock(n)!Init
  <2>1. Init => \A n \in Leaf : ReadersAt(n) = {} /\ WritersAt(n) = {} /\ serviceQ[n] = NoClient
    BY ClientAssumption DEF Init, ReadersAt, WritersAt, Locking, Leaf
  <2> QED BY <2>1 DEF Lock!Init
<1>2. LeafStep <=> (\/ \A n \in Leaf : [Lock(n)!Next]_<<ReadersAt(n), WritersAt(n), serviceQ[n]>>
                    \/ \E h \in Client : Exiting(h))
  BY DEF LeafStep, StepAt, SomeExit
<1> QED BY <1>1, <1>2, CountsStep, InitCounts, InitLeaf, MutexStep, LeavesStep, ServiceInvariant, PTL
        DEF Spec, FileLocksAsAgreed
=============================================================================
