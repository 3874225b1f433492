---------------------------- MODULE FileService ----------------------------
(***************************************************************************)
(* The client side of a storage server (src/Storage Server/SS.c): the      *)
(* listener thread, one handler thread per connection, the file trie and   *)
(* the Reader_Writer_Lock of each of its nodes.                            *)
(*                                                                         *)
(* The locks are the ones of RWLock in the state that start-up leaves them *)
(* in (FileTrie): trie_insert unlocks once too often for every child that  *)
(* it creates.  The unlocking of Read_Init_Lock goes with the step before  *)
(* it, which loses nothing, as nobody else can move while it is held.      *)
(*                                                                         *)
(* A path is a sequence of names whose first is the mount; a node of the   *)
(* trie is the sequence of names that leads to it, the root being <<>>.    *)
(* Every handler calls strtok, which keeps its place in one static         *)
(* variable: the names that are left of whatever string was given last.    *)
(***************************************************************************)
EXTENDS Integers, Sequences, FiniteSets, SequencesExt

CONSTANTS Client,     \* the connections, and the handlers created for them
          NoClient,
          Group,      \* in place of a handler: the readers of a node, together
          Trie,       \* the nodes of the file trie
          Path,       \* the paths that clients ask for
          Op,         \* the operations they ask for
          CanReset,   \* connections that may be reset by their client
          MaxOpen     \* how many handlers run at a time

ASSUME ClientAssumption ==
  IsFiniteSet(Client) /\ NoClient \notin Client /\ Group \notin Client /\ NoClient # Group
ASSUME TrieAssumption ==
  /\ IsFiniteSet(Trie) /\ <<>> \in Trie
  /\ \A n \in Trie : n = <<>> \/ SubSeq(n, 1, Len(n) - 1) \in Trie
ASSUME PathAssumption == \A p \in Path : p # <<>> /\ p \in Seq(ToSet(p))
ASSUME OpAssumption == Op \subseteq {"READ", "WRITE", "INFO", "OTHER"}

VARIABLES client,    \* the listener's local struct: the socket accepted last
          strtok,    \* the names that strtok(NULL) would return, in order
          serviceQ, readInit, writeLock, readerCount,   \* the lock of each node
          pc,        \* position of each handler
          lk,        \* how far its call of Read_Lock or Write_Lock has come
          sock,      \* the socket each handler copied
          op,        \* operation of its request
          file_path, \* its copy of sRequestPath as that was received
          path,      \* sRequestPath as it is now
          node,      \* the trie node it has reached
          name,      \* the path token it looks for there, or <<>>
          inbox,     \* what was sent on a connection and not received, as a set
          text,      \* what each client has of a WRITE's text: "none", "typing" or "sent"
          reset,     \* connections that were reset
          responses, \* number of responses each client was sent
          freed,     \* trie nodes that were freed on exit
          exited     \* the process has gone

mutexVars == <<serviceQ, readInit, writeLock>>
lockVars == <<mutexVars, readerCount, lk>>
walkVars == <<strtok, path, node, name>>
requestVars == <<sock, op, file_path>>
netVars == <<inbox, reset, responses, text>>
endVars == <<freed, exited>>
vars == <<client, pc, lockVars, walkVars, requestVars, netVars, endVars>>

Children(n) == {c \in Trie : Len(c) = Len(n) + 1 /\ SubSeq(c, 1, Len(n)) = n}
Leaf == {n \in Trie : Children(n) = {}}

Running == {h \in Client : pc[h] \notin {"none", "done"}}

Init ==
  /\ client = NoClient /\ strtok = <<>> /\ freed = {} /\ exited = FALSE
  /\ serviceQ = [n \in Trie |-> NoClient] /\ readInit = [n \in Trie |-> NoClient]
  /\ writeLock = [n \in Trie |-> NoClient]
  /\ readerCount = [n \in Trie |-> -Cardinality(Children(n))]
  /\ pc = [h \in Client |-> "none"] /\ lk = [h \in Client |-> "queue"]
  /\ sock = [h \in Client |-> NoClient] /\ op = [h \in Client |-> "OTHER"]
  /\ file_path = [h \in Client |-> <<>>] /\ path = [h \in Client |-> <<>>]
  /\ node = [h \in Client |-> <<>>] /\ name = [h \in Client |-> <<>>]
  /\ inbox = [c \in Client |-> {}] /\ reset = {}
  /\ text = [c \in Client |-> "none"]
  /\ responses = [c \in Client |-> 0]

Go(h, from, to) == pc[h] = from /\ pc' = [pc EXCEPT ![h] = to]

-----------------------------------------------------------------------------
(* Client_Listner_Thread, and the clients: each connects, sends a request  *)
(* and, for a WRITE, text and its end once it has the stop sequence.       *)

Accept(c) ==
  /\ Go(c, "none", "copy") /\ Cardinality(Running) < MaxOpen
  /\ client' = c
  /\ \E o \in Op, p \in Path : inbox' = [inbox EXCEPT ![c] = {[op |-> o, path |-> p]}]
  /\ UNCHANGED <<lockVars, walkVars, requestVars, reset, responses, text, endVars>>

(* Whoever receives the text as a request finds an operation that there is *)
(* not.  What is sent between two calls of recv is received by one.        *)
Text == [op |-> "OTHER", path |-> <<>>]

Types(c) ==
  /\ text[c] = "typing" /\ c \notin reset
  /\ inbox' = [inbox EXCEPT ![c] = @ \cup {Text}]
  /\ \E t \in {"typing", "sent"} : text' = [text EXCEPT ![c] = t]
  /\ UNCHANGED <<client, pc, lockVars, walkVars, requestVars, reset, responses, endVars>>

Resets(c) ==
  /\ c \in CanReset \ reset /\ pc[c] # "none"
  /\ reset' = reset \cup {c} /\ inbox' = [inbox EXCEPT ![c] = {}]
  /\ UNCHANGED <<client, pc, lockVars, walkVars, requestVars, responses, text, endVars>>

-----------------------------------------------------------------------------
(* Client_Handler_Thread: the request                                      *)

CopiesSocket(h) ==
  /\ Go(h, "copy", "recv")
  /\ sock' = [sock EXCEPT ![h] = client]
  /\ UNCHANGED <<client, lockVars, walkVars, op, file_path, netVars, endVars>>

\* Fault: the request is peeked at and stays in the socket.
PeeksRequest(h) ==
  pc[h] = "recv" /\ \E r \in inbox[sock[h]] :
    /\ Go(h, "recv", IF r.op = "OTHER" THEN "respond" ELSE "search")
    /\ op' = [op EXCEPT ![h] = r.op]
    /\ file_path' = [file_path EXCEPT ![h] = r.path]
    /\ path' = [path EXCEPT ![h] = r.path]
    /\ UNCHANGED <<client, lockVars, strtok, node, name, sock, netVars, endVars>>

(* OTHER stands for what is answered with an error at once: the operations *)
(* that only the naming server may ask for, unknown ones, and WRITE with a *)
(* flag that is neither append nor overwrite.  Of a WRITE, the client is   *)
(* sent the stop sequence, and sends its text, whatever becomes of it; a   *)
(* second handler that copied the socket receives that as its request.     *)
ReceivesRequest(h) ==
  pc[h] = "recv" /\ \E r \in inbox[sock[h]] :
    /\ Go(h, "recv", IF r.op = "OTHER" THEN "respond" ELSE "search")
    /\ inbox' = [inbox EXCEPT ![sock[h]] = {}]
    /\ op' = [op EXCEPT ![h] = r.op]
    /\ file_path' = [file_path EXCEPT ![h] = r.path]
    /\ path' = [path EXCEPT ![h] = r.path]
    /\ text' = [text EXCEPT ![sock[h]] = IF r.op = "WRITE" THEN "typing" ELSE @]
    /\ UNCHANGED <<client, lockVars, strtok, node, name, sock, reset, responses, endVars>>

\* A client closes its connection when it has a response, and nothing left to send.
Closed(c) == responses[c] > 0 /\ text[c] # "typing"

\* The handler that shares its socket finds the stream closed, after the other's answer.
ReceivesNothing(h) ==
  /\ pc[h] = "recv" /\ inbox[sock[h]] = {} /\ Closed(sock[h])
  /\ Go(h, "recv", "done")
  /\ UNCHANGED <<client, lockVars, walkVars, requestVars, netVars, endVars>>

Exiting(h) == pc[h] \in {"destroyLock", "destroy", "unlink"}

(* An error of recv or of the last send calls exit(), which runs           *)
(* exit_handler in this thread while the others go on.  A second call of   *)
(* exit() finds no handler left to run and ends the process.               *)
ReceiveOrSendFails(h) ==
  /\ pc[h] \in {"recv", "respond"} /\ sock[h] \in reset
  /\ IF \E g \in Client : Exiting(g)
     THEN exited' = TRUE /\ UNCHANGED <<pc, node>>
     ELSE /\ pc' = [pc EXCEPT ![h] = "destroyLock"]
          /\ node' = [node EXCEPT ![h] = <<>>]
          /\ UNCHANGED exited
  /\ UNCHANGED <<client, lockVars, strtok, path, name, requestVars, netVars, freed>>

(* READ and WRITE send more than once; to send again on a socket that is   *)
(* reset, or that its client closed after another's answer, raises SIGPIPE. *)
SendKills(h) ==
  /\ pc[h] = "respond"
  /\ \/ op[h] \in {"READ", "WRITE"} /\ sock[h] \in reset
     \/ Closed(sock[h])
  /\ exited' = TRUE
  /\ UNCHANGED <<client, pc, lockVars, walkVars, requestVars, netVars, freed>>

-----------------------------------------------------------------------------
(* trie_search and trie_get_path_lock: the same walk, the first with a     *)
(* Read_Lock on each node while it looks for the child, the second without. *)

\* Fault: trie_search works on a copy of the path.
SearchesCopy(h) ==
  /\ Go(h, "search", "token")
  /\ strtok' = Tail(path[h])
  /\ node' = [node EXCEPT ![h] = <<>>]
  /\ UNCHANGED <<client, lockVars, name, path, requestVars, netVars, endVars>>

Searches(h) ==
  /\ Go(h, "search", "token")
  /\ strtok' = Tail(path[h])
  /\ path' = [path EXCEPT ![h] = SubSeq(@, 1, 1)]
  /\ node' = [node EXCEPT ![h] = <<>>]
  /\ UNCHANGED <<client, lockVars, name, requestVars, netVars, endVars>>

\* strtok(NULL) of a walk that is at "token" or "lockToken".
NextName(h) ==
  /\ strtok # <<>>
  /\ strtok' = Tail(strtok)
  /\ name' = [name EXCEPT ![h] = <<Head(strtok)>>]

SearchTakesToken(h) ==
  /\ Go(h, "token", "lockNode") /\ NextName(h)
  /\ UNCHANGED <<client, lockVars, path, node, requestVars, netVars, endVars>>

SearchFinds(h) ==
  /\ strtok = <<>> /\ Go(h, "token", "getLock")
  /\ UNCHANGED <<client, lockVars, walkVars, requestVars, netVars, endVars>>

Child(h) == node[h] \o name[h]

\* A node that trie_destroy has freed stays in its parent's table until it returns.
Linked(n) == n \in Trie /\ (n \in freed => \E g \in Client : pc[g] = "unlink" /\ node[g] = n)
HasChild(h) == Linked(Child(h))

(* Read_Unlock: Read_Init_Lock is held by a reader that waits for the      *)
(* Write_Lock, and whoever wants to leave waits behind it.                 *)
Read_Unlock(n) ==
  /\ readInit[n] = NoClient
  /\ readerCount' = [readerCount EXCEPT ![n] = @ - 1]
  /\ writeLock' = [writeLock EXCEPT ![n] = IF readerCount[n] = 1 THEN NoClient ELSE @]
  /\ UNCHANGED <<serviceQ, readInit, lk>>

\* Fault: the search goes on without asking whether there is a child.
ChildNotChecked(h) ==
  /\ Go(h, "child", "token")
  /\ Read_Unlock(node[h])
  /\ node' = [node EXCEPT ![h] = Child(h)]
  /\ UNCHANGED <<client, strtok, path, name, requestVars, netVars, endVars>>

LooksForChild(h) ==
  /\ Go(h, "child", IF HasChild(h) THEN "token" ELSE "respond")
  /\ Read_Unlock(node[h])
  /\ node' = [node EXCEPT ![h] = IF HasChild(h) THEN Child(h) ELSE @]
  /\ name' = [name EXCEPT ![h] = <<>>]
  /\ UNCHANGED <<client, strtok, path, requestVars, netVars, endVars>>

GetsPathLock(h) ==
  /\ Go(h, "getLock", "lockToken")
  /\ strtok' = Tail(file_path[h])
  /\ node' = [node EXCEPT ![h] = <<>>]
  /\ UNCHANGED <<client, lockVars, path, name, requestVars, netVars, endVars>>

GetTakesToken(h) ==
  /\ Go(h, "lockToken", "lockChild") /\ NextName(h)
  /\ UNCHANGED <<client, lockVars, path, node, requestVars, netVars, endVars>>

\* Without the child it returns NULL, and the caller locks through that pointer.
GetLooksForChild(h) ==
  /\ HasChild(h) /\ Go(h, "lockChild", "lockToken")
  /\ node' = [node EXCEPT ![h] = Child(h)]
  /\ name' = [name EXCEPT ![h] = <<>>]
  /\ UNCHANGED <<client, lockVars, strtok, path, requestVars, netVars, endVars>>

LocksNull(h) ==
  /\ pc[h] = "lockChild" /\ ~HasChild(h)
  /\ exited' = TRUE
  /\ UNCHANGED <<client, pc, lockVars, walkVars, requestVars, netVars, freed>>

GetReturns(h) ==
  /\ strtok = <<>> /\ Go(h, "lockToken", "lockFile")
  /\ UNCHANGED <<client, lockVars, walkVars, requestVars, netVars, endVars>>

-----------------------------------------------------------------------------
(* Read_Lock and Write_Lock                                                *)

Locking(h) == pc[h] \in {"lockNode", "lockFile", "destroyLock"}
AsWriter(h) == pc[h] = "destroyLock" \/ (pc[h] = "lockFile" /\ op[h] = "WRITE")

Behind == [lockNode |-> "child", lockFile |-> "open", destroyLock |-> "destroy"]

TakesQueue(h) ==
  /\ Locking(h) /\ lk[h] = "queue" /\ serviceQ[node[h]] = NoClient
  /\ serviceQ' = [serviceQ EXCEPT ![node[h]] = h]
  /\ lk' = [lk EXCEPT ![h] = "head"]
  /\ UNCHANGED <<client, pc, readInit, writeLock, readerCount, walkVars, requestVars, netVars, endVars>>

CountsItself(h) ==
  /\ Locking(h) /\ ~AsWriter(h) /\ lk[h] = "head" /\ readInit[node[h]] = NoClient
  /\ readerCount' = [readerCount EXCEPT ![node[h]] = @ + 1]
  /\ LET first == readerCount[node[h]] = 0
     IN /\ readInit' = IF first THEN [readInit EXCEPT ![node[h]] = h] ELSE readInit
        /\ lk' = [lk EXCEPT ![h] = IF first THEN "first" ELSE "inside"]
  /\ UNCHANGED <<client, pc, serviceQ, writeLock, walkVars, requestVars, netVars, endVars>>

\* Fault: the first reader does not wait for the writer inside.
FirstBesideWriter(h) ==
  /\ Locking(h) /\ lk[h] = "first"
  /\ readInit' = [readInit EXCEPT ![node[h]] = NoClient]
  /\ lk' = [lk EXCEPT ![h] = "inside"]
  /\ UNCHANGED <<client, pc, serviceQ, writeLock, readerCount, walkVars, requestVars, netVars, endVars>>

FirstTakesWrite(h) ==
  /\ Locking(h) /\ lk[h] = "first" /\ writeLock[node[h]] = NoClient
  /\ writeLock' = [writeLock EXCEPT ![node[h]] = Group]
  /\ readInit' = [readInit EXCEPT ![node[h]] = NoClient]
  /\ lk' = [lk EXCEPT ![h] = "inside"]
  /\ UNCHANGED <<client, pc, serviceQ, readerCount, walkVars, requestVars, netVars, endVars>>

WriterTakesWrite(h) ==
  /\ AsWriter(h) /\ lk[h] = "head" /\ writeLock[node[h]] = NoClient
  /\ writeLock' = [writeLock EXCEPT ![node[h]] = h]
  /\ lk' = [lk EXCEPT ![h] = "inside"]
  /\ UNCHANGED <<client, pc, serviceQ, readInit, readerCount, walkVars, requestVars, netVars, endVars>>

\* Fault: the service queue is not unlocked.
KeepsQueue(h) ==
  /\ Locking(h) /\ lk[h] = "inside"
  /\ pc' = [pc EXCEPT ![h] = Behind[pc[h]]]
  /\ lk' = [lk EXCEPT ![h] = "queue"]
  /\ UNCHANGED <<client, mutexVars, readerCount, walkVars, requestVars, netVars, endVars>>

LeavesQueue(h) ==
  /\ Locking(h) /\ lk[h] = "inside"
  /\ pc' = [pc EXCEPT ![h] = Behind[pc[h]]]
  /\ serviceQ' = [serviceQ EXCEPT ![node[h]] = NoClient]
  /\ lk' = [lk EXCEPT ![h] = "queue"]
  /\ UNCHANGED <<client, readInit, writeLock, readerCount, walkVars, requestVars, netVars, endVars>>

-----------------------------------------------------------------------------
(* The file is opened, or its status read, under what is left of           *)
(* sRequestPath behind its first token.  That is the empty name            *)
(* (NameIsEmpty), for which fopen and stat fail: the branches that move    *)
(* the contents are never entered.                                         *)

OpenName(h) == Tail(path[h])

\* Fault: these branches have no Read_Unlock either.
ForgetsLock(h) ==
  /\ op[h] \in {"READ", "INFO"} /\ Go(h, "open", "respond")
  /\ UNCHANGED lockVars
  /\ UNCHANGED <<client, walkVars, requestVars, netVars, endVars>>

ReadOrInfoFails(h) ==
  /\ op[h] \in {"READ", "INFO"} /\ Go(h, "open", "respond")
  /\ Read_Unlock(node[h])
  /\ UNCHANGED <<client, walkVars, requestVars, netVars, endVars>>

\* This branch has no Write_Unlock.
WriteFails(h) ==
  /\ op[h] = "WRITE" /\ Go(h, "open", "respond")
  /\ UNCHANGED <<client, lockVars, walkVars, requestVars, netVars, endVars>>

(* The thread ends, and its variables go with it. *)
Responds(h) ==
  /\ Go(h, "respond", "done") /\ sock[h] \notin reset
  /\ responses' = [responses EXCEPT ![sock[h]] = @ + 1]
  /\ op' = [op EXCEPT ![h] = "OTHER"]
  /\ file_path' = [file_path EXCEPT ![h] = <<>>]
  /\ path' = [path EXCEPT ![h] = <<>>] /\ node' = [node EXCEPT ![h] = <<>>]
  /\ UNCHANGED <<client, lockVars, strtok, name, sock, inbox, reset, text, endVars>>

-----------------------------------------------------------------------------
(* exit_handler: trie_destroy write-locks a node, destroys its children    *)
(* and frees it.  The locks stay locked.                                   *)

Parent(n) == SubSeq(n, 1, Len(n) - 1)

DestroysChild(h) ==
  /\ \E n \in Children(node[h]) \ freed : node' = [node EXCEPT ![h] = n]
  /\ Go(h, "destroy", "destroyLock")
  /\ UNCHANGED <<client, lockVars, strtok, path, name, requestVars, netVars, endVars>>

FreesNode(h) ==
  /\ pc[h] = "destroy" /\ Children(node[h]) \subseteq freed
  /\ freed' = freed \cup {node[h]}
  /\ IF node[h] = <<>> THEN exited' = TRUE /\ UNCHANGED pc
     ELSE pc' = [pc EXCEPT ![h] = "unlink"] /\ UNCHANGED exited
  /\ UNCHANGED <<client, lockVars, walkVars, requestVars, netVars>>

UnlinksChild(h) ==
  /\ Go(h, "unlink", "destroy")
  /\ node' = [node EXCEPT ![h] = Parent(@)]
  /\ UNCHANGED <<client, lockVars, strtok, path, name, requestVars, netVars, endVars>>

\* A handler that is at a freed node may find it as it was, or crash the process.
TouchesFreed(h) ==
  /\ node[h] \in freed /\ pc[h] \in {"lockNode", "child", "lockChild", "lockToken"}
  /\ exited' = TRUE
  /\ UNCHANGED <<client, pc, lockVars, walkVars, requestVars, netVars, freed>>

-----------------------------------------------------------------------------
Handler(h) ==
  /\ ~exited
  /\ \/ CopiesSocket(h) \/ ReceivesRequest(h) \/ ReceivesNothing(h) \/ ReceiveOrSendFails(h)
     \/ SendKills(h)
     \/ Searches(h) \/ SearchTakesToken(h) \/ SearchFinds(h) \/ LooksForChild(h)
     \/ GetsPathLock(h) \/ GetTakesToken(h) \/ GetLooksForChild(h) \/ LocksNull(h) \/ GetReturns(h)
     \/ TakesQueue(h) \/ CountsItself(h) \/ FirstTakesWrite(h) \/ WriterTakesWrite(h) \/ LeavesQueue(h)
     \/ ReadOrInfoFails(h) \/ WriteFails(h) \/ Responds(h)
     \/ DestroysChild(h) \/ FreesNode(h) \/ UnlinksChild(h) \/ TouchesFreed(h)

Next == \E c \in Client : Handler(c) \/ (~exited /\ (Accept(c) \/ Types(c) \/ Resets(c)))

Spec == Init /\ [][Next]_vars
LiveSpec == Spec /\ \A h \in Client : WF_vars(Handler(h))

-----------------------------------------------------------------------------
Position == {"none", "copy", "recv", "search", "token", "lockNode", "child", "getLock",
             "lockToken", "lockChild", "lockFile", "open", "respond", "done",
             "destroyLock", "destroy", "unlink"}

TypeOK ==
  /\ client \in Client \cup {NoClient} /\ exited \in BOOLEAN /\ freed \subseteq Trie
  /\ {serviceQ, readInit} \subseteq [Trie -> Client \cup {NoClient}]
  /\ writeLock \in [Trie -> Client \cup {NoClient, Group}]
  /\ readerCount \in [Trie -> Int]
  /\ pc \in [Client -> Position] /\ lk \in [Client -> {"queue", "head", "first", "inside"}]
  /\ sock \in [Client -> Client \cup {NoClient}]
  /\ op \in [Client -> Op \cup {"OTHER"}] /\ node \in [Client -> Trie]
  /\ file_path \in [Client -> Path \cup {<<>>}]
  /\ reset \subseteq Client /\ responses \in [Client -> Nat]
  /\ text \in [Client -> {"none", "typing", "sent"}]

(* The name handed to fopen and stat is empty, for every request: the      *)
(* search before it has cut the path, whatever other handlers do to strtok. *)
NameIsEmpty == \A h \in Client : pc[h] = "open" => OpenName(h) = <<>>

\* Two handlers have copied the socket of c and have ended.
TwoServed(c) ==
  \E g, h \in Client : g # h /\ pc[g] = "done" /\ pc[h] = "done" /\ sock[g] = c /\ sock[h] = c

(* A request is answered once, also when two handlers have copied its      *)
(* socket: a client that is sent another response is one whose WRITE text  *)
(* went to a second handler, which took it for a request.                  *)
OneResponseButToText ==
  \A c \in Client : responses[c] > 1 => text[c] # "none" /\ TwoServed(c)

\* The handlers that are inside the lock of a node as readers, or on their last step in.
ReadersAt(n) ==
  {h \in Client : node[h] = n /\ (\/ pc[h] = "child"
                                  \/ pc[h] = "open" /\ op[h] # "WRITE"
                                  \/ Locking(h) /\ ~AsWriter(h) /\ lk[h] = "inside")}
WritersAt(n) == {writeLock[n]} \cap Client

(* The count of a node is the number of handlers inside, less one for each *)
(* child: the handlers lock and unlock in pairs on every path through      *)
(* READ, WRITE and INFO, and what start-up took too much stays missing.    *)
CountsWithDrift ==
  \A n \in Trie :
    readerCount[n] = Cardinality(ReadersAt(n)) - Cardinality(Children(n))
                     + Cardinality({h \in Client : node[h] = n /\ lk[h] = "first"})

(* Of a node that has no children, a plain file, the lock is a correct     *)
(* reader-writer lock in the handlers' hands.  (trie_destroy is out: it    *)
(* may lock what its own thread has kept.)                                 *)
Lock(n) == INSTANCE AbstractRWLock WITH
  Thread <- Client, NoThread <- NoClient,
  head <- serviceQ[n], readers <- ReadersAt(n), writers <- WritersAt(n)

FileLocksAsAgreed ==
  /\ \A n \in Leaf : Lock(n)!Init
  /\ [][(\A n \in Leaf : [Lock(n)!Next]_<<ReadersAt(n), WritersAt(n), serviceQ[n]>>)
        \/ \E h \in Client : Exiting(h)]_vars

(* "Gets the lock corresponding to a path": the lock that guards a file    *)
(* access is the lock of the requested path.                               *)
LocksRequestedNode ==
  \A h \in Client : pc[h] = "open" => node[h] = Tail(file_path[h])

(* A failed WRITE leaves the Write_Lock of its node locked for good: such  *)
(* a lock is one that its owner holds without being in trie_destroy with it. *)
Destroying(h, n) ==
  Exiting(h) /\ (\/ n \in freed \/ IsStrictPrefix(n, node[h])
                 \/ n = node[h] /\ (pc[h] = "destroy" \/ lk[h] = "inside"))
Leaked ==
  \E h \in Client, n \in Trie :
    writeLock[n] = h /\ ~Destroying(h, n) /\ (pc[h] \in {"respond", "done"} \/ Exiting(h))

\* Two handlers may have copied the same socket.
SocketShared == \E h \in Client : pc[h] \notin {"none", "copy"} /\ sock[h] # h

(* "destroys the trie and closes the log file": once a handler has called  *)
(* exit(), the process comes to its end, and a lock that a WRITE has left  *)
(* locked is the only thing that may hold trie_destroy up.                 *)
ExitCompletes == (\E h \in Client : Exiting(h)) ~> exited \/ Leaked

(* A client that has connected is answered while the process lives, unless *)
(* its socket went to another handler as well or a lock was leaked.        *)
AnsweredUnlessLeaked ==
  \A c \in Client : pc[c] = "copy" ~> responses[c] > 0 \/ exited \/ Leaked \/ SocketShared
=============================================================================
