--------------------------- MODULE DirectCommands ---------------------------
(***************************************************************************)
(* The command loop of a client (src/Client/Client.c) and the commands     *)
(* READ, WRITE and INFO (src/Client/DirectConnFunc.c), which ask the       *)
(* naming server where a path is and then talk to a storage server on a    *)
(* connection of their own.  At the other end of it, one handler of the    *)
(* storage server per connection, in the branches that it can reach: the   *)
(* file never opens (NameIsEmpty of FileService, where two handlers may    *)
(* also have copied one socket).  Of RENAME and LIST the exchange with the *)
(* naming server, whose handlers may send a client what another is to get  *)
(* (ClientSessions).                                                       *)
(*                                                                         *)
(* A connection is a stream of bytes.  What is sent arrives whole, but a   *)
(* recv takes whatever has arrived, up to the length that it asks for: of  *)
(* one send, of several, or the end of one and the beginning of the next.  *)
(***************************************************************************)
EXTENDS CommandTable, FiniteSets, FiniteSetsExt

CONSTANTS Client, NoClient,
          Word          \* per client, the words to choose from for its first command, its
                        \* second and so on: a bound on what users type, besides empty
                        \* and blank lines

ASSUME WordAssumption == Word \in [Client -> Seq(SUBSET DOMAIN Characters) \ {<<>>}]
ASSUME ClientsAssumption == NoClient \notin Client /\ NULL \notin DOMAIN Characters

(* A handler, and its connection, belong to one command of one client. *)
Conn == UNION {{c} \X (1 .. Len(Word[c])) : c \in Client}

VARIABLES round,        \* number of the command that the client is at
          typed,        \* the word in its cInput, NULL before the first line
          cmd,          \* the function that runs, or has run last
          cpc,          \* the client's position
          nsUp,         \* its connection with the naming server is there
          requests,     \* requests on their way to it, per client
          answers,      \* what was sent to the client, not received yet
          answered,     \* the command that the last answer received is about
          interrupted,  \* clients whose user has interrupted a recv from it
          torn,         \* clients with the end of an answer left in the socket
          mixed,        \* history: clients whose answer another was sent or none,
                        \* and those who were sent another's
          up,           \* the storage server is running
          op,           \* what each of its handlers was asked for
          spc,          \* the handlers' positions
          readers, writer,  \* the lock of the file
          toClient,     \* what was sent on the connection and not yet received whole
          eaten,        \* bytes of the first of these that were received
          shown,        \* connections whose error text the user has seen
          joined        \* connections on which a recv has cut a send in two

loopVars == <<round, typed, cmd>>
nsVars == <<nsUp, requests, answers, answered, interrupted, torn, mixed>>
serverVars == <<op, spc, readers, writer>>
streamVars == <<toClient, eaten, shown, joined>>
vars == <<loopVars, cpc, nsVars, up, serverVars, streamVars>>

Direct == {"READ", "WRITE", "INFO"}

MAX_BUFFER_SIZE == 1024
SIZE_RESPONSE == 1048
Size(x) == CASE x = "error" -> 32 [] x = "stop" -> MAX_BUFFER_SIZE [] x = "response" -> SIZE_RESPONSE

conn(c) == <<c, round[c]>>

Init ==
  /\ round = [c \in Client |-> 1] /\ typed = [c \in Client |-> NULL] /\ cmd = [c \in Client |-> NULL]
  /\ cpc = [c \in Client |-> "poll"]
  /\ nsUp = [c \in Client |-> TRUE] /\ requests = [c \in Client |-> <<>>] /\ answers = [c \in Client |-> <<>>]
  /\ answered = [c \in Client |-> <<c, 0>>] /\ interrupted = {} /\ torn = {} /\ mixed = {}
  /\ up = TRUE /\ op = [h \in Conn |-> NULL] /\ spc = [h \in Conn |-> "none"]
  /\ readers = {} /\ writer = NoClient
  /\ toClient = [h \in Conn |-> <<>>] /\ eaten = [h \in Conn |-> 0] /\ shown = {} /\ joined = {}

CGo(c, from, to) == cpc[c] = from /\ cpc' = [cpc EXCEPT ![c] = to]
SGo(h, from, to) == spc[h] = from /\ spc' = [spc EXCEPT ![h] = to]

-----------------------------------------------------------------------------
(* main: the command loop                                                  *)

(* A socket that can be written to counts as online, and so does one whose *)
(* other end has gone: the branch that connects again is never taken.      *)
pollServer(c) ==
  /\ CGo(c, "poll", "prompt")
  /\ UNCHANGED <<loopVars, nsVars, up, serverVars, streamVars>>

(* READ, WRITE, INFO, LIST and RENAME go on to ask the naming server, or   *)
(* refuse their arguments, as EXIT may.  "ran" stands for what the others  *)
(* do, and for the end of the client when EXIT ran.                        *)
Starts(f) ==
  CASE f = NULL -> {"unknown"}
    [] f \in Direct \cup {"LIST", "RENAME"} -> {"ask", "failed"}
    [] f = "EXIT" -> {"ran", "failed"}
    [] OTHER -> {"ran"}

Types(c, w) ==
  /\ typed' = [typed EXCEPT ![c] = w] /\ cmd' = [cmd EXCEPT ![c] = Function[w]]
  /\ \E to \in Starts(Function[w]) : CGo(c, "prompt", to)
  /\ UNCHANGED <<round, nsVars, up, serverVars, streamVars>>

(* scanf("%[^\n]%*c") matches nothing in an empty line and leaves it where *)
(* it is.  cInput keeps the word before, which strtok has cut off from its *)
(* arguments, and its function runs without one, again and again until     *)
(* Ctrl-C; but EXIT exits, and HELP's getchar() takes the line away.       *)
(* Before the first line cInput holds anything.                            *)
PressesEnter(c) ==
  /\ \E f \in IF typed[c] = NULL THEN Runnable ELSE {cmd[c]} :
       /\ cmd' = [cmd EXCEPT ![c] = f]
       /\ CGo(c, "prompt", IF f \in {"HELP", "EXIT"} THEN "ran" ELSE "repeats")
  /\ UNCHANGED <<round, typed, nsVars, up, serverVars, streamVars>>

\* strtok finds no word in a line of blanks, and hash follows the NULL that it returns.
TypesBlanks(c) ==
  /\ CGo(c, "prompt", "killed")
  /\ UNCHANGED <<loopVars, nsVars, up, serverVars, streamVars>>

NextRound(c) ==
  /\ cpc[c] \in {"unknown", "failed", "ok"} \/ (cpc[c] = "ran" /\ cmd[c] # "EXIT")
  /\ round[c] < Len(Word[c])
  /\ cpc' = [cpc EXCEPT ![c] = "poll"]
  /\ round' = [round EXCEPT ![c] = @ + 1]
  /\ UNCHANGED <<typed, cmd, nsVars, up, serverVars, streamVars>>

-----------------------------------------------------------------------------
(* The naming server's part                                                *)

Request(c) == [about |-> conn(c), op |-> cmd[c]]

\* Fault: the request is sent again to be sure.
AsksTwice(c) ==
  /\ CGo(c, "ask", "answer")
  /\ requests' = [requests EXCEPT ![c] = @ \o <<Request(c), Request(c)>>]
  /\ UNCHANGED <<loopVars, nsUp, answers, answered, interrupted, torn, mixed,
                 up, serverVars, streamVars>>

Asks(c) ==
  /\ CGo(c, "ask", "answer")
  /\ requests' = [requests EXCEPT ![c] = Append(@, Request(c))]
  /\ UNCHANGED <<loopVars, nsUp, answers, answered, interrupted, torn, mixed,
                 up, serverVars, streamVars>>

\* To send once more after the peer has gone raises SIGPIPE, or fails.
AskFails(c) ==
  /\ ~nsUp[c] /\ \E to \in {"failed", "killed"} : CGo(c, "ask", to)
  /\ UNCHANGED <<loopVars, nsVars, up, serverVars, streamVars>>

(* What is answered is the path's server, or that there is none to use; to *)
(* LIST, a listing; to RENAME, that it was forwarded.                      *)
Verdicts(f) ==
  {"refused", CASE f = "LIST" -> "listing" [] f = "RENAME" -> "forwarded" [] OTHER -> "server"}

(* The response is sent to the client that the shared handle names by then,*)
(* which is another only if there is another; or it is sent nowhere, or    *)
(* the request is not received at all, when handlers have left with the    *)
(* sockets of others.                                                      *)
Receivers(c) == IF Client = {c} THEN {c} ELSE {d \in Client : nsUp[d]} \cup {NoClient}

NSAnswers(c) ==
  /\ nsUp[c] /\ requests[c] # <<>>
  /\ requests' = [requests EXCEPT ![c] = Tail(@)]
  /\ LET r == Head(requests[c]) IN
     \E d \in Receivers(c), v \in Verdicts(r.op) :
       /\ answers' = [e \in Client |-> IF e # d THEN answers[e]
                        ELSE Append(answers[e], [about |-> r.about, verdict |-> v])]
       /\ mixed' = IF d = c THEN mixed ELSE mixed \cup ({c, d} \ {NoClient})
  /\ UNCHANGED <<loopVars, cpc, nsUp, answered, interrupted, torn, up, serverVars, streamVars>>

(* LIST prints what it is sent, and RENAME waits for an acknowledgement;   *)
(* the others take it for an address, which a server's alone is.  To LIST  *)
(* and RENAME the flag of a backup's is a failure, and so may be that of   *)
(* 1048 bytes which begin in the middle of an answer.                      *)
AfterAnswer(f, v) ==
  CASE v = "refused" -> {"failed"}
    [] v # "refused" /\ f \in Direct -> {IF v = "server" THEN "connect" ELSE "failed"}
    [] OTHER -> {IF f = "LIST" THEN "ok" ELSE "ack"} \cup IF v \in {"server", "torn"} THEN {"failed"} ELSE {}

ReceivesAnswer(c) ==
  /\ answers[c] # <<>>
  /\ \E to \in AfterAnswer(cmd[c], IF c \in torn THEN "torn" ELSE Head(answers[c]).verdict) :
       CGo(c, "answer", to)
  /\ answers' = [answers EXCEPT ![c] = Tail(@)]
  /\ answered' = [answered EXCEPT ![c] = Head(answers[c]).about]
  /\ UNCHANGED <<loopVars, nsUp, requests, interrupted, torn, mixed, up, serverVars, streamVars>>

(* No acknowledgement is ever sent.  An answer that is one too many passes *)
(* for it; it is longer, by 16 bytes that stay in the socket.              *)
ReceivesAck(c) ==
  /\ answers[c] # <<>> /\ \E to \in {"ok", "failed"} : CGo(c, "ack", to)
  /\ answers' = [answers EXCEPT ![c] = Tail(@)]
  /\ answered' = [answered EXCEPT ![c] = Head(answers[c]).about]
  /\ torn' = torn \cup {c}
  /\ UNCHANGED <<loopVars, nsUp, requests, interrupted, mixed, up, serverVars, streamVars>>

\* They are too few for an answer when they are received by themselves.
ReceivesRemnant(c) ==
  /\ c \in torn /\ \E from \in {"answer", "ack"} : CGo(c, from, "failed")
  /\ torn' = torn \ {c}
  /\ UNCHANGED <<loopVars, nsUp, requests, answers, answered, interrupted, mixed,
                 up, serverVars, streamVars>>

FindsNSGone(c) ==
  /\ ~nsUp[c] /\ answers[c] = <<>> /\ c \notin torn
  /\ \E from \in {"answer", "ack"} : CGo(c, from, "failed")
  /\ UNCHANGED <<loopVars, nsVars, up, serverVars, streamVars>>

\* The naming server ends, or a handler closes this client's socket for its own.
NSEnds(c) ==
  /\ nsUp[c] /\ nsUp' = [nsUp EXCEPT ![c] = FALSE]
  /\ requests' = [requests EXCEPT ![c] = <<>>]
  /\ UNCHANGED <<loopVars, cpc, answers, answered, interrupted, torn, mixed,
                 up, serverVars, streamVars>>

(* Ctrl-C ends a recv early in a build whose sa_flags, which are never     *)
(* set, do not happen to ask for a restart.  What the recv waited for      *)
(* stays in the socket.  It also ends the loop over an empty line, which   *)
(* INThandler reads.                                                       *)
Interrupts(c) ==
  /\ cpc[c] \in {"answer", "ack", "stop", "data", "response", "info", "repeats"}
  /\ cpc' = [cpc EXCEPT ![c] = "failed"]
  /\ interrupted' = IF cpc[c] = "answer" THEN interrupted \cup {c} ELSE interrupted
  /\ UNCHANGED <<loopVars, nsUp, requests, answers, answered, torn, mixed,
                 up, serverVars, streamVars>>

-----------------------------------------------------------------------------
(* The connection to the storage server                                    *)

Connects(c) ==
  /\ up /\ CGo(c, "connect", IF cmd[c] = "INFO" THEN "response" ELSE "stop")
  /\ op' = [op EXCEPT ![conn(c)] = cmd[c]]
  /\ spc' = [spc EXCEPT ![conn(c)] = IF cmd[c] = "INFO" THEN "search" ELSE "sendStop"]
  /\ UNCHANGED <<loopVars, nsVars, up, readers, writer, streamVars>>

ConnectFails(c) ==
  /\ ~up /\ CGo(c, "connect", "failed")
  /\ UNCHANGED <<loopVars, nsVars, up, serverVars, streamVars>>

Bytes(sends) ==
  LET b[i \in 0 .. Len(sends)] == IF i = 0 THEN 0 ELSE b[i - 1] + Size(sends[i])
  IN  b[Len(sends)]

\* Fault: a send that was received to its last byte is left in the stream.
WholeBut(sends, n) ==
  Max({0} \cup {j \in 1 .. Len(sends) : Bytes(SubSeq(sends, 1, j)) < n})

\* How many of the sends the first n bytes hold in full.
Whole(sends, n) ==
  Max({0} \cup {j \in 1 .. Len(sends) : Bytes(SubSeq(sends, 1, j)) <= n})

(* recv(..., length, 0) when the first k sends have arrived: the number of *)
(* bytes it returns, and what it leaves.                                   *)
Got(h, k, length) == Min({length, Bytes(SubSeq(toClient[h], 1, k)) - eaten[h]})

Takes(h, n) ==
  LET whole == Whole(toClient[h], eaten[h] + n) IN
  /\ toClient' = [toClient EXCEPT ![h] = SubSeq(@, whole + 1, Len(@))]
  /\ eaten' = [eaten EXCEPT ![h] = @ + n - Bytes(SubSeq(toClient[h], 1, whole))]
  /\ joined' = IF eaten'[h] = 0 THEN joined ELSE joined \cup {h}

(* A buffer that holds a send from its first byte on is recognised by it.  *)
Begins(h, x) == eaten[h] = 0 /\ Head(toClient[h]) = x

ReceivesStop(c) ==
  LET h == conn(c) IN
  /\ CGo(c, "stop", IF cmd[c] = "READ" THEN "data" ELSE "typing")
  /\ \E k \in 1 .. Len(toClient[h]) : Takes(h, Got(h, k, MAX_BUFFER_SIZE))
  /\ UNCHANGED <<loopVars, nsVars, up, serverVars, shown>>

(* Rcmd prints every buffer until one that is equal to the stop sequence.  *)
ReceivesData(c) ==
  LET h == conn(c) IN
  /\ cpc[c] = "data"
  /\ \E k \in 1 .. Len(toClient[h]) : Takes(h, Got(h, k, MAX_BUFFER_SIZE))
  /\ IF Begins(h, "stop") THEN CGo(c, "data", "response") ELSE UNCHANGED cpc
  /\ shown' = IF Begins(h, "error") THEN shown \cup {h} ELSE shown
  /\ UNCHANGED <<loopVars, nsVars, up, serverVars>>

\* Wcmd: the user ends the text, and text and stop sequence go to the server.
EndsText(c) ==
  /\ \E to \in {"response"} \cup IF up THEN {} ELSE {"failed", "killed"} : CGo(c, "typing", to)
  /\ UNCHANGED <<loopVars, nsVars, up, serverVars, streamVars>>

(* Any 1048 bytes are a RESPONSE_STRUCT.  Its flags are a failure in none  *)
(* that the server sends: it leaves them as the request had them, and      *)
(* behind an error text these bytes are the padding of the stop sequence.  *)
ReceivesResponse(c) ==
  LET h == conn(c) IN
  \E k \in 1 .. Len(toClient[h]) :
    LET n == Got(h, k, SIZE_RESPONSE) IN
    /\ CGo(c, "response", IF n # SIZE_RESPONSE THEN "failed"
                          ELSE IF cmd[c] = "INFO" THEN "info" ELSE "ok")
    /\ Takes(h, n)
    /\ UNCHANGED <<loopVars, nsVars, up, serverVars, shown>>

(* With the server gone and nothing left to read, recv returns 0 or fails. *)
(* Rcmd takes 0 for an empty buffer: it goes on without a stop sequence,   *)
(* or reads empty buffers for ever, unless the stop sequence it did not    *)
(* receive happens to be empty too.                                        *)
FindsEnd(c) ==
  /\ ~up /\ cpc[c] \in {"stop", "data", "response", "info"} /\ toClient[conn(c)] = <<>>
  /\ \E to \in CASE cpc[c] = "stop" /\ cmd[c] = "WRITE" -> {"typing", "failed"}
                 [] cpc[c] \in {"stop", "data"} /\ cmd[c] = "READ" -> {"spins", "failed"}
                 [] OTHER -> {"failed"} :
       cpc' = [cpc EXCEPT ![c] = to]
  /\ UNCHANGED <<loopVars, nsVars, up, serverVars, streamVars>>

-----------------------------------------------------------------------------
(* Client_Handler_Thread of the storage server                             *)

Sends(h, x) == toClient' = [toClient EXCEPT ![h] = Append(@, x)]

SendsStop(h) ==
  /\ SGo(h, "sendStop", "search") /\ Sends(h, "stop")
  /\ UNCHANGED <<loopVars, cpc, nsVars, up, op, readers, writer, eaten, shown, joined>>

(* trie_search: whether it finds the path also depends on other searches   *)
(* (LocksRequestedNode of FileService).                                    *)
Searches(h) ==
  /\ \E to \in {"lock", IF op[h] = "INFO" THEN "respond" ELSE "sendError"} : SGo(h, "search", to)
  /\ UNCHANGED <<loopVars, cpc, nsVars, up, op, readers, writer, streamVars>>

\* Read_Lock and Write_Lock, as AbstractRWLock has them.
LocksFile(h) ==
  /\ SGo(h, "lock", "open") /\ writer = NoClient
  /\ IF op[h] = "WRITE" THEN readers = {} /\ writer' = h /\ UNCHANGED readers
                        ELSE readers' = readers \cup {h} /\ UNCHANGED writer
  /\ UNCHANGED <<loopVars, cpc, nsVars, up, op, streamVars>>

\* Fault: the branch of a failure has no Read_Unlock either.
OpenFailsLocked(h) ==
  /\ SGo(h, "open", IF op[h] = "INFO" THEN "respond" ELSE "sendError")
  /\ UNCHANGED <<loopVars, cpc, nsVars, up, op, readers, writer, streamVars>>

(* fopen or stat fails.  READ and INFO unlock; WRITE does not. *)
OpenFails(h) ==
  /\ SGo(h, "open", IF op[h] = "INFO" THEN "respond" ELSE "sendError")
  /\ readers' = readers \ {h}
  /\ UNCHANGED <<loopVars, cpc, nsVars, up, op, writer, streamVars>>

\* Fault: the branch of a failure goes on to the stop sequence.
SendsNoError(h) ==
  /\ SGo(h, "sendError", "sendEnd")
  /\ UNCHANGED <<loopVars, cpc, nsVars, up, op, readers, writer, streamVars>>

SendsError(h) ==
  /\ SGo(h, "sendError", "sendEnd") /\ Sends(h, "error")
  /\ UNCHANGED <<loopVars, cpc, nsVars, up, op, readers, writer, eaten, shown, joined>>

SendsEnd(h) ==
  /\ SGo(h, "sendEnd", "respond") /\ Sends(h, "stop")
  /\ UNCHANGED <<loopVars, cpc, nsVars, up, op, readers, writer, eaten, shown, joined>>

\* The thread returns, and the socket stays open.
Responds(h) ==
  /\ SGo(h, "respond", "done") /\ Sends(h, "response")
  /\ UNCHANGED <<loopVars, cpc, nsVars, up, op, readers, writer, eaten, shown, joined>>

ServerEnds ==
  /\ up /\ up' = FALSE
  /\ UNCHANGED <<loopVars, cpc, nsVars, serverVars, streamVars>>

-----------------------------------------------------------------------------
Command(c) ==
  \/ pollServer(c) \/ Asks(c) \/ AskFails(c) \/ ReceivesAnswer(c) \/ ReceivesAck(c)
  \/ ReceivesRemnant(c) \/ FindsNSGone(c)
  \/ Connects(c) \/ ConnectFails(c) \/ ReceivesStop(c) \/ ReceivesData(c) \/ ReceivesResponse(c)
  \/ FindsEnd(c)

User(c) ==
  \/ \E w \in Word[c][round[c]] : Types(c, w)
  \/ PressesEnter(c) \/ TypesBlanks(c) \/ NextRound(c) \/ EndsText(c) \/ Interrupts(c)

Handler(h) ==
  /\ up
  /\ \/ SendsStop(h) \/ Searches(h) \/ LocksFile(h) \/ OpenFails(h)
     \/ SendsError(h) \/ SendsEnd(h) \/ Responds(h)

Next ==
  \/ \E c \in Client : Command(c) \/ User(c) \/ NSAnswers(c) \/ NSEnds(c)
  \/ \E h \in Conn : Handler(h)
  \/ ServerEnds

Spec == Init /\ [][Next]_vars

(* The threads of the three programs go on; users, and what ends a server, *)
(* need not.                                                               *)
LiveSpec ==
  /\ Spec
  /\ \A c \in Client : WF_vars(Command(c)) /\ WF_vars(NSAnswers(c))
  /\ \A h \in Conn : WF_vars(Handler(h))

-----------------------------------------------------------------------------
Returned == {"unknown", "ran", "failed", "ok", "killed"}

TypeOK ==
  /\ round \in [Client -> Nat \ {0}]
  /\ typed \in [Client -> DOMAIN Characters \cup {NULL}]
  /\ cmd \in [Client -> DOMAIN Characters \cup {NULL}]
  /\ cpc \in [Client -> Returned \cup {"poll", "prompt", "repeats", "ask", "answer", "ack", "connect",
                                       "stop", "data", "typing", "response", "info", "spins"}]
  /\ nsUp \in [Client -> BOOLEAN] /\ up \in BOOLEAN
  /\ {interrupted, torn, mixed} \subseteq SUBSET Client
  /\ op \in [Conn -> Direct \cup {NULL}]
  /\ spc \in [Conn -> {"none", "sendStop", "search", "lock", "open", "sendError", "sendEnd",
                       "respond", "done"}]
  /\ writer \in Conn \cup {NoClient} /\ readers \subseteq Conn /\ shown \cup joined \subseteq Conn
  /\ (writer # NoClient => readers = {})
  /\ \A h \in Conn : IF toClient[h] = <<>> THEN eaten[h] = 0
                     ELSE eaten[h] \in 0 .. Size(Head(toClient[h])) - 1

(* A word of main's runs its own function; but DELETE runs RENAME, which   *)
(* lookup finds in the slot of both.  Any other word runs a function just  *)
(* when it hashes to the slot of one of main's words, and then that one.   *)
RunsTyped ==
  \A c \in Client : typed[c] # NULL =>
    IF typed[c] \in ToSet(Inserted)
    THEN cmd[c] = IF typed[c] = "DELETE" THEN "RENAME" ELSE typed[c]
    ELSE IF cmd[c] = NULL THEN \A w \in ToSet(Inserted) : slot(w) # slot(typed[c])
    ELSE cmd[c] \in ToSet(Inserted) /\ slot(cmd[c]) = slot(typed[c])

(* What a command makes of the naming server's answer is about that        *)
(* command: request and answer alternate.  Only a command that was         *)
(* interrupted between them leaves its answer to the next one, and only a  *)
(* client whose answer once went astray, or that was sent another's, may   *)
(* have taken what was not its own.                                        *)
AnswerIsOwn ==
  \A c \in Client :
    cpc[c] \in {"ack", "connect", "stop", "data", "typing", "response", "info", "ok"} =>
      answered[c] = conn(c) \/ c \in interrupted \cup mixed

(* "send a error buffer to indicate file not found": a READ that ends       *)
(* without an error message has shown the server's.  A WRITE that the      *)
(* server has not carried out ends in "success" only if error text and     *)
(* stop sequence came in one buffer, which then passed for the response.   *)
ToldUnlessJoined ==
  \A c \in Client : cmd[c] \in Direct /\ cpc[c] = "ok" =>
    conn(c) \in IF cmd[c] = "READ" THEN shown ELSE joined

(* What a command may wait for, for ever: an acknowledgement of RENAME, an *)
(* answer that was sent to another client, the data of a server that has   *)
(* gone, the information that INFO sends only after a success, a stop      *)
(* sequence that came in the buffer of the text before it, or the lock     *)
(* that a failed WRITE has kept.                                           *)
Stuck(c) ==
  \/ cpc[c] \in {"ack", "spins", "info"}
  \/ cpc[c] = "answer" /\ c \in mixed
  \/ cpc[c] = "data" /\ conn(c) \in joined
  \/ spc[conn(c)] = "lock" /\ writer # NoClient /\ spc[writer] # "open"

(* Every command returns to the prompt, except in these six cases and when *)
(* an empty line repeats it: the programs never wait for each other,       *)
(* whatever arrives together, and however the servers end.                 *)
CommandReturns ==
  \A c \in Client :
    cpc[c] \notin {"poll", "prompt", "repeats", "typing"}
      ~> cpc[c] \in Returned \cup {"typing"} \/ Stuck(c)
=============================================================================
