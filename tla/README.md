# A TLA+ model of the network file system

The repository is a small network file system in C: one **naming server**
(`src/Naming Sever/`), any number of **storage servers** (`src/Storage Server/`)
and interactive **clients** (`src/Client/`), all with a thread per connection
and plain blocking sockets. This directory holds a TLA+ model of it, the TLC
configurations that check it on small instances, and TLAPS proofs for any
number of threads, slots, names and directory trees.

## 1. Inventory

### Naming server

| component | state | operations | correct if |
|---|---|---|---|
| client list (`Client_Handle.c`) | `clientList[MAX_CLIENTS]`, `InUseList`, `iClientCount`, one mutex | `AddClient`, `RemoveClient`, `GetClient` | a connected client is found, keeps its slot, and is refused only when the list is full |
| client sessions (`NS.c` 132-507) | the acceptor's one `clientHandle`, descriptors, one handler thread per client | accept, send the ID, peek / receive / answer, remove and close | each client has its own ID and its own answers; nothing is left behind |
| path resolution (`NS.c` 33-58, `LRU.c`, `Trie.c`) | LRU cache with a hash table and a list, mount trie | `ResolvePath`, `put`, `get`, `flushCache`, `Insert_Path`, `Get_Server`, `Delete_Path` | a path resolves to the server that has it, also after servers come and go |
| server list (`Server_Handle.c`) | `serverList`, running and in-use flags, backups, one mutex | `AddServer`, `RemoveServer`, `SetActive`, `SetInactive`, `AssignBackupServer`, `IsActive`, `GetActiveBackUp` | a server that comes back is recognised; a backup is running |
| storage-server sessions (`NS.c` 509-788) | semaphore, sockets, one handler thread per server | receive ports and paths, insert them, assign backups, send the ID, connect back, forward acknowledgements | a server that registers can be reached; an acknowledgement reaches the client that asked |

### Storage server

| component | state | operations | correct if |
|---|---|---|---|
| reader-writer lock (`Trie.c` 16-62) | three mutexes and a count | `Read_Lock`, `Read_Unlock`, `Write_Lock`, `Write_Unlock` | readers and writers exclude each other; nobody starves |
| file trie (`Trie.c` 63-476, `SS.c` 103-201) | nodes with a table of children and a lock each | `trie_insert`, `trie_search`, `trie_get_path_lock`, `trie_rename`, `trie_paths`, `trie_print`, `trie_destroy` | it holds the directory tree; the lock of a path guards the file of that path; nobody waits for ever |
| client service (`SS.c` 427-865, 900-907) | the listener's local struct, `strtok`'s static place, one handler thread per connection | accept, receive one request, search, lock, open, respond, exit | each client gets one response to its request; the file is accessed under its lock |
| naming-server link (`SS.c` 208-420, 909-1055) | two sockets, server ID | register, receive RENAME, answer | a RENAME is carried out and acknowledged |
| log flusher (`SS.c` 871-894) | - | prints the trie under read locks every few seconds | it does not disturb the handlers |

### Client

Command dispatch through a hash table (`Hash.c`, `ClientFunc.c`), a poller that
watches the naming server (`Client.c`), commands that go to a storage server
(`DirectConnFunc.c`: read, write, info) and commands that the naming server
answers (`IndirectConnFunc.c`: list, rename). Correct if every command ends and
reports what happened.

### How they interact

A storage server registers with the naming server (ports and mount paths),
receives its ID, and accepts one connection back. A client connects to the
naming server, receives its ID, and asks it where a path is; READ, WRITE and
INFO then go to that storage server on a connection of their own, and RENAME is
forwarded by the naming server. Within each process, threads share structures
through pointers and mutexes.

### What is hard

* *Interleavings*: handlers share the acceptor's local structs
  (`NS.c:190`, `SS.c:490`), the static state of `strtok` (`Storage Server/Trie.c:456`),
  and in the naming server an unlocked cache and trie, whose `strtok` the log flusher uses, too.
* *Locks*: a hand-made reader-writer lock, unlocked once too often in
  `trie_insert` (`Trie.c:169`) and not at all in one branch of WRITE (`SS.c:699`).
* *Failure*: connections reset by the peer, `SIGPIPE`, `exit()` in one thread
  while the others run; storage servers that crash while they register, and come back.
* *Boundaries*: a full client list, colliding hashes, a bounded number of attempts to connect,
  buffers of 1024 bytes that listings are appended to unchecked.
* *Streams*: a `recv` may return less or more than one `send`, and the client
  recognises the stop sequence only at the beginning of a buffer.
* *Liveness*: every wait is a blocking `recv` or a mutex; there are no timeouts.

`PROJECT.json` lists the hazards one by one, each at its line, with the
properties that cover it, or why none does.

## 2. Plan

Most important first. All steps are done.

1. **RWLock**, with **AbstractRWLock** as what it promises, and **RWLockProofs**:
   every access to a file goes through this lock.
2. **ClientList**, **ClientRegistry**, **ClientRegistryProofs**: the list alone.
3. **ClientSessions**: composes ClientList with the acceptor and the handlers.
4. **FileTrie**, **FileTrieProofs**: the state in which start-up leaves the trie's locks.
5. **FileService**: composes the lock of every node with the trie's walks, the
   listener and the handlers, from the state that FileTrie establishes, and
   shows the lock of a file to be an AbstractRWLock.
6. **ServerList** and **ServerSessions**: composes the list with the acceptor,
   the handlers and the storage servers' side of registration, and with RENAME:
   does it reach the server, and does Rncmd return?
7. **AbstractLRU**, **LRU** (pointers, against an order of use) and
   **NamingLookup**, which composes the cache with the mount trie, the handlers
   that resolve paths, the one that inserts them and the log flusher: colliding
   keys, two threads in the cache or in `strtok`.
8. **CommandTable**, the client's hash table, and **DirectCommands**: the
   command loop, READ, WRITE and INFO against both servers, as byte streams, and
   RENAME and LIST against the naming server.
9. Proofs, in one module for each component: every safety property that a run
   checks, and the safety half of every refinement, for all values of the
   constants (section 5). What stays with TLC is liveness.

`trie_rename`, `trie_paths` and the log flusher, as walkers of one trie, were
planned and are left out: see section 6.

Bounds stay at two or three threads, servers and keys: the hazards above need
two actors that meet and at most a third that comes back. The modules to be
proved about hold no RECURSIVE operator; walks through tries are steps of a
state machine, or sequences of names.

## 3. Modules and the code

Definitions whose comment begins with *Fault* are no part of the model: each is
a plausible bug put in place of the action after it, to see that a property
would notice.

### RWLock, AbstractRWLock (`Storage Server/Trie.c` 16-62)

`pc` is the pthread call that a thread makes next, one action per call;
`serviceQ`, `readInit` and `writeLock` are the three mutexes with their holder,
`readerCount` is `Reader_Count`. Threads call in matched pairs, any number of
times. A POSIX default mutex may be unlocked by another thread than its owner,
which the code relies on (the last reader unlocks what the first one locked), so
releasing has no guard. AbstractRWLock has readers, a writer and the head of the
queue. A reader counts as inside from the step that makes the readers own
`Write_Lock` until it uncounts itself.

### ClientList, ClientRegistry (`Naming Sever/Client_Handle.c`)

ClientList has the arrays as functions on `0 .. MAX_CLIENTS - 1` and one action
per function, each a critical section of the list's mutex. `FirstFree` and
`FirstWithID` are the two scans; the second, like the code, does not look at
`InUseList`. A removed entry keeps its ID. ClientRegistry is the list used as
meant: clients come, are looked up by nobody else, leave once, and come back
under the same ID (the ID is a hash of address and port).
Assumed: the table is zero when it is created. `InitializeClientHandleList`
allocates it with malloc and its memset covers 8 bytes only; on a fresh process
these pages are zero.

### ClientSessions (`Naming Sever/NS.c` 66-76, 132-200, 202-243, 474-506)

`clientHandle` is the acceptor's local struct that *every* handler points to;
`fd` maps descriptors to connections (the lowest free one is used again);
`waits[h]` is the connection that a blocked `recv` of handler h waits on,
which was fixed when the call was made. `Peeks`, `PeekReturns` and `Receives`
are `IsSocketConnected` and the `recv` behind it. What an answer holds is
abstracted to whose request it answers. The clients ask once and may close, with
CLOSE_CONNECTION or without. `met` records who has met whom: a client that is
accepted while a handler is running, and the client of that handler. What the
shared struct does to these is not claimed; the others are to be served as if
they had been alone, with whatever those have left in list and descriptors.

### FileTrie (`Storage Server/Trie.c` 82-117, 144-174, 357-397, `SS.c` 103-201, 989-1002)

A node is the sequence of *hashes* that leads to it and remembers the first name
it was created for. One action per round of `trie_insert`'s loop for a child
that is there, two for one that is missing (look under the read lock, then
create under the write lock). `Populate_Trie`'s recursion is a stack of
directories (`scan`) in any order of entries. Hidden entries are skipped by the
code and are not part of the tree here; entries of unknown type are left out.

The trie is then printed, and its paths are appended to the packet for the naming
server, each in 1024 bytes that nobody counts. `PrintLength` and `PathsLength`
are what the two listings need; one that needs more is written over what is
behind it: the server ends there (`ListsTooMuch`), or sends any part of the
listing (`Lists`). A name of `TOKEN_SIZE` characters or more loses its end and
is listed with the six bytes of the pointer behind it (`Token`). A path that
`Populate_Trie` has to cut (`SS.c:127`) is longer than the listing may be, too,
and is not followed as a case of its own. `TOKEN_SIZE` and `MAX_BUFFER_SIZE` are
constants, so that a small tree reaches them.

### FileService (`Storage Server/SS.c` 427-865, `Trie.c` 183-201, 274-298, 454-476, `DirectConnFunc.c` 368-398)

One action per call that other threads can notice, with `pc` as the position of
each handler. `client` is the listener's struct whose address each handler
gets, `strtok` the place that `strtok(NULL)` continues from, `lk` how far a call
of the lock has come. The lock of a node starts with a count that is short by one
per child, as proved of FileTrie; no names collide here, so a node is a sequence
of names. `path` is `sRequestPath`, cut by the search; `file_path` its copy.
The name that READ, WRITE and INFO open is what is left behind the first token of
`path`; `NameIsEmpty` shows it to be empty in every reachable state, so that
`fopen` and `stat` fail and only their error branches are modelled.
`exit_handler` runs in the thread that calls `exit()`, beside the others.
The client of a WRITE goes on to send its text and the stop sequence, whatever
the server makes of the request (`Types`); the handler that failed to open the
file never reads that, but a second handler that copied the same socket
receives it as a request with no known operation, and answers it (`Text`).

Abstractions: Read_Init_Lock is unlocked together with the step before it
(nobody else can act on it in between); a handler's stack is not reused, so a
stale `strtok` place reads what was there; a second `send` on a reset connection
ends the process (`SIGPIPE` has no handler); a lookup in a freed node either
works or crashes; the storage server's log flusher is left out (section 6). Sockets are never
closed by this server (`SS.c:864`), so descriptors are not modelled.

### ServerList, ServerSessions (`Server_Handle.c`; `NS.c` 33-58, 414-464, 509-724; `SS.c` 208-283, 951-1027; Rncmd)

ServerList is to servers what ClientList is to clients: one action per critical
section, except `SetInactive`, which takes no mutex and is two steps of its
caller. `AddServer` compares the ID that the handle *came with* (`old`); the
acceptor's `SERVER_HANDLE_STRUCT` is a local of its loop and is not initialised,
so that it holds, at the same place of the stack, what the server before left
there. In ServerSessions this is `serverHandle`: `addr` stands for IP, port and
`sSocket_Write`, which are filled together; `port` for the two ports of the
packet. Every handler, and the mount trie, follow a pointer to it. `hpc` is the
handler's position, `waits` the connection its blocked `recv` is on. A storage
server is an element of `Server`; one that crashes and comes back is another
element, as it has another port and therefore another ID.

Two connections link a server. `toServer` is what is on its way on the one that
it made (it reads its ID there, and RENAME is sent there); on the connection
back nothing is ever sent, so only its end is modelled (`SLinkEnds`). Hence the
request branches of `NS_Listner_Thread` and the acknowledgement branch of the
handler are not reached in any behaviour, and are not in the model.

Abstractions: packets are received whole; descriptor numbers are not reused, so
that a close by a stale number closes nothing else; the servers announce the
same paths (`mounted`), as the handle is the same for all; after
a `send` to a server that is gone the data is lost or `SIGPIPE` ends the naming
server (`down`); a recv that returns 0 leaves the packet as the stack has it
(`LeftOnStack`). `BACKUP_SERVERS` is 0 in this build: the start semaphore blocks
nobody and there are no backups to assign. The table is assumed to be zero at
the start, as for clients. The refusal of a full list is not reached
(`ListInv`). ResolvePath is called with "source target" as one path and finds a
server by accident only; the model lets it find one whenever paths are mounted.

### AbstractLRU, LRU (`Naming Sever/LRU.c`)

AbstractLRU promises at most `CACHE_SIZE` entries in the order of their use. LRU
is the code: a table of nodes and the list through them, with one action per
statement (and its test) of `get`, `put`, `removeFromList`, `moveToHead` and
`cacheSize`, as there is no mutex and every handler may be anywhere in them.
`call` is the function a thread is in, `node` and `size` are its locals.
`hashFunction` is the constant `Bucket`: keys are never compared, so a node is
known by its bucket, and nodes are numbered such that `key(n)` is the bucket.
`Order`, the refinement mapping, reads the list from its head; a node that is
on its way to the head counts as there already.

Abstractions: the data race on the pointers is an interleaving of statements; a
freed node reads as it was; `MaxSame` bounds the nodes created per bucket; the
count of `cacheSize` stops at one more than `CACHE_SIZE`, beyond which it makes
no difference. Values are left out: all of them are the same pointer (the
acceptor's struct, see ServerSessions).

### NamingLookup (`Naming Sever/NS.c` 33-58, 239-276, 414-424, 474-485, 600-619, 790-814; `Naming Sever/Trie.c`)

`pc` takes a client handler through `get`, `Get_Server`'s walk and `put`, for a
path that is resolved, or through `Get_Directory_Tree`'s walk for a listing.
The inserter is the storage-server handler in `Insert_Path`. A node of the mount
trie is the sequence of names that leads to it, `handled` those with a
`Server_Handle`; a name stands for its hash, by which alone the trie tells names
apart, and the first name of a path does not count, as each walk begins at
`strtok`'s second token. `strtok` is the one place that all walks continue
from: also those of the log flusher, which asks `Get_Directory_Tree` for "/"
(`BeginsFlush`, `EndsFlush`) and exits the server when its loop, gone on in
another thread's path, finds no such path; and the branch of RENAME cuts its
request with `strtok` before it resolves it (`RequestsRename`). `overlapped` records whether two threads have ever been inside the cache,
or inside strtok, at once: the properties of the data speak of behaviours in
which none were. After that, what is followed further is bounded by `MaxCalls`
and by the state constraint `Followed`: calls of the cache that meet run to
their end, walks that meet do not (the copy they continue in is freed memory).
Whether the server of a cached path is still active is asked of ServerList
(`Resolves` of ServerSessions) and is not repeated here.

### CommandTable (`Client/Hash.c`, `Client/Client.c` 95-110)

`hash` computes the slot of each word from its characters, as the code does,
and `Table` is what `main`'s twelve insertions leave. A slot has no key, so that
of the words that `main` does not insert, one that hashes to a free slot finds
no function (EDIT) and one that does not runs another's (8 and >).

### DirectCommands (`Client/Client.c` 232-344, `ClientFunc.c` 22-125, `DirectConnFunc.c`, `IndirectConnFunc.c`; `SS.c` 548-865; `NS.c` 268-482)

`cpc` is the client's position in its loop and its command, `spc` the position of
the storage server's handler, one per connection and command. `toClient` is the
stream towards the client as the list of what was sent, with its sizes in bytes,
and `eaten` how much of its first element a `recv` has taken: `Got` chooses how
much has arrived, `Takes` removes it. What the client writes is never read
back by the storage server in the branches that are reached, and is left out.
`requests` and `answers` are the connection to the naming server. That sends an
answer to the client that its shared handle names by then: with more than one
client that may be any of them, or nobody (`Receivers`), and `mixed` records
whom it has happened to. `interrupted` is Ctrl-C: `sa_flags` is an uninitialised
field, so whether `recv` restarts is nondeterministic. Either server may end at
any time. RENAME (and DELETE, which runs it) sends its request, receives an
answer and waits for an acknowledgement (`ack`) that the naming server never
sends; the answer to a command that was interrupted may pass for one, and
leaves 16 bytes in the socket (`torn`).

`typed` is the word in `cInput`. An empty line does not get past `scanf`:
`PressesEnter` runs the function of the last word once more without an argument
and stays with it (`repeats`) until Ctrl-C ends the loop, except where that
function is EXIT's, or HELP's, whose `getchar()` takes the newline away. Before
the first line `cInput` is indeterminate and may name any function. In a line of
blanks `strtok` finds no word, and the client dies (`TypesBlanks`).

Abstractions: a `send` arrives whole or not at all, and fits the socket's
buffer; the question `INThandler` asks is not modelled, only that the `recv` is
cut short; the lock of the file is an AbstractRWLock, which RWLock implements.
The file never opens (`NameIsEmpty` of FileService), so that only the branches of
failure are here, and not READ's way past the end of its `case` (`SS.c:639`),
which is behind a success. WRITE's branch of failure keeps the lock.

## 4. Runs

| run | instance | what it shows |
|---|---|---|
| `rw_lock` | 3 threads | `Exclusion`, and `LockInv`: the count, the three mutexes and the owner of Write_Lock agree at every step. `NoStarvationOnFairMutexes`. `ImplementsAbstractLive`: refinement of AbstractRWLock with its fairness, so that whoever holds the service queue gets in, however many readers come and go |
| `client_registry` | 4 slots, 6 clients | a live client is found, although freed slots keep old IDs (`RegistryInv` says why); `SlotKeepsClient` |
| `sessions` | 2 slots, 3 clients at once | what survives the shared handle: `CounterWithinSlots`, `AtMostOneAnswer`; and for a client that meets no other, its own ID and its own answers (`OwnAnswers`), and neither slot nor socket left behind (`NothingLeaks`), also after two others have met |
| `sessions_shared` | 2 slots, 2 clients at once | *violation* of `ClientsGetTheirOwn`: a client is sent the ID of another |
| `file_trie` | all 956 trees of up to 5 entries in 2 levels over 4 names, of which two collide, one is long and one too long | `LocksAreShort`: the state of the locks that FileService starts from; `AnnouncedWithinLimits`: what is announced is the tree, unless names collide, a name is too long or the listing is; `StartsUp`: no insertion blocks itself, and only a listing that is too long ends the server |
| `file_service` | 2 handlers, a flat trie (root and one leaf), READ and WRITE, one client that may reset | `NameIsEmpty`; `OneResponseButToText`: a client has a second response only if the text of its WRITE went to a second handler; `CountsWithDrift`; `FileLocksAsAgreed`: the locks of files refine AbstractRWLock; `ExitCompletes` and `AnsweredUnlessLeaked` |
| `file_service_lock` | 2 handlers, root / directory / file, READ and INFO | *violation* of `LocksRequestedNode`: two handlers in `strtok` at once lock a node that neither may have asked for |
| `server_sessions` | 2 servers (or 2 lives of one), crashes anywhere, 1 RENAME | `ListInv`: at most one slot is ever in use, its ID is the one in the acceptor's struct, and the counter agrees, however sessions overlap; servers that come one after the other are listed while in session (`SessionIsListedAlone`), never mixed up (`HandleOfOneServerAlone`), and end up linked and knowing their ID (`RegistersAlone`) |
| `server_rename` | as `server_sessions` | *violation* of `RenameReturns`: the client of a RENAME that was forwarded waits for ever, with all servers up |
| `lookup` | 2 handlers, the inserter and the log flusher, 4 paths, a RENAME, 2 of them mounted and 2 in one bucket, `CACHE_SIZE` 3 | as long as no two threads are inside the cache or strtok at once: `CacheIntact`, `ImplementsLRU`, `AnswerRight` with the shared bucket as its exception. `EvictsOnlyAfterOverlap`: one entry per bucket, so that eviction, the crash of a NULL pointer and the flusher's exit are reached only by a race |
| `lookup_race` | the same | *violation* of `RequestsReturn`: two handlers meet in the cache, a node becomes its own successor, and `cacheSize` never ends |
| `direct_commands` | 1 client, 2 commands out of 15 words, empty and blank lines, and a LIST as the third; servers that end anywhere | `RunsTyped`: each word of `main`'s its function, save DELETE, and any other what is in its slot; `AnswerIsOwn`: an answer is about the command that reads it, save after an interruption or a mix-up; `ToldUnlessJoined`: a failure is reported, save when two sends come in one buffer; `CommandReturns`: every command ends, save in the six cases of `Stuck` and the repetition of an empty line |

`CHECK_DEADLOCK FALSE` is set where the system may come to rest: all handlers
done, the process gone, start-up finished. RWLock and ClientRegistry never stop
and are checked for deadlock.

**Bounds.** Three threads make the lock's classes meet: a reader inside, another
leaving and a writer waiting. Four slots and six clients let the list fill up,
free slots in the middle and take a client back under a stale ID. Three clients
on two slots give a refusal, a reused descriptor and an ID removed twice;
`MaxOpen` bounds how many are connected, three of three in `sessions`. Five
entries are enough for a nested pair of colliding directories, and with
`TokenSize` = 14 and `BufferSize` = 50 for names and listings on both sides of
their limits. In FileService, two handlers and a path of two names reach every
pair of positions in the two walks (`file_service_lock`); with the clients'
text and liveness the trie is flat, one step of each walk, and the theorems have
any trie. Each client sends one request, as the code reads only one, and the
text of a WRITE behind it. Two servers are the least that meet in the
acceptor's struct, and all that `ListInv` leaves room for; `MAX_CONN_REQ` = 0
still gives two attempts to connect, so that one can fail and the next succeed.
In NamingLookup two paths share a bucket and a third
does not, so that an entry is found by the right and by the wrong key while the
list has up to three nodes to be moved from its head, its middle and its end; two
threads are the least that meet, and the inserter and the flusher are others in
strtok. In DirectCommands two commands on end are the least that leave something
behind: an answer in the socket, or the lock of a file; the LIST behind them
finds what they left with the naming server. One client is all that TLC can
do there, so that nothing is mixed up in the run; the theorems are about any
number. In ServerSessions,
`overlapped` records whether a server ever came before the last session was
over: the properties named *Alone* are about the behaviours in which none did.

**Fairness.** Weak fairness of each thread's steps: the kernel schedules
runnable threads. None is assumed of mutexes (`SF` appears only as the
hypothesis of `NoStarvationOnFairMutexes`), and none of clients: they need not
connect, send, or close. In RWLock a thread inside leaves in the end, as the
code between lock and unlock is sequential file access. In ServerSessions every
thread takes a bounded number of steps, so weak fairness of all threads together
makes each of them go on; servers need not connect and may crash. In DirectCommands the threads of the
three programs go on; users need not type anything, and the end of a server is
never owed. `lookup` checks safety only; `lookup_race` assumes that handlers go on
with a request they have, and that nobody need ask.

**Findings** are in `PROJECT.json`, each with the line of the repository that it
is at odds with. Four are violations of a run of their own: IDs and answers sent
to another client, the lock of the wrong node, a RENAME that nobody reads, and
the race in the cache. The others are the exceptions that a property had to be
given to hold, each named in the property: a second server that is taken for the
first (only when sessions overlap), a WRITE that blocks its file for ever
(`Leaked`), file names that are always empty, counts left negative by
start-up, a listing that outgrows its buffer, a path that is answered with the
server of another in its bucket, a failed WRITE that is reported as a success,
READ and INFO that never return, an empty line that repeats the command before,
DELETE, which runs RENAME, and unknown words that run a function. The service
queue of the lock promises no order (POSIX gives none among waiters of a default
mutex), which is why `NoStarvationOnFairMutexes` has fair mutexes as its hypothesis.

Several properties are conditional: `SessionIsListedAlone`,
`HandleOfOneServerAlone`, `CacheIntact`, `AnswerRight` and `ImplementsLRU` hold as
long as two sessions, or two calls, do not overlap. They show that the overlap is
the only way to go wrong, not what happens in it; that is shown by the
violations, and by what holds through any overlap: `ListInv`, the type
invariants, `CounterWithinSlots`, `AtMostOneAnswer`.

## 5. Proofs

All with TLAPS, checked to the last leaf.

* **RWLockProofs** (any finite set of threads). `LockInv` is inductive as it
  stands: `Exclusion` alone is not, since it says nothing of the count on its
  way up or down. Its parts: the holder of each inner mutex is the thread whose
  `pc` says so; the count is the number of threads in the counted positions (by
  cardinality lemmas for adding and removing one); Write_Lock is locked iff the
  group of readers or one writer owns it. `LockInvariant`, `TypeCorrectness`,
  `MutualExclusion`; and `Implementation`: every step maps to a step or a stutter
  of AbstractRWLock. Assumed: `ThreadAssumption` (Thread finite, NoThread outside).
* **ClientRegistryProofs** (any number of slots). `RegistryInv` says that the
  counter is the number of slots in use, that these hold exactly the live
  clients, and that the *first* slot with a live client's ID is its own: without
  that, `LiveIsFound` fails as soon as a client returns. `RegistryInvariant`,
  `TypeCorrectness`, `LiveClientFound`, `RefusalMeansFull`, `SlotStability`.
* **FileTrieProofs** (every directory tree, every hash). `LocksAfterStartUp`:
  between two rounds of an insertion each count is minus the number of children.
  `LocksAreShort` needs `WalkInv` beside it: the walk stays at a node of the trie,
  the trie has no gaps, and the child that is about to be created is not there -
  otherwise a second unlock might go with no new child. `AnnouncesTheTree` rests
  on `ContentsInv`: every node is there for an entry of the tree, every entry has
  its node, or is the one that the walk is on its way to, or has itself or a
  directory above it still waiting in the scan; at the end nothing waits. That
  trees without gaps have every prefix of what they have is the induction in it.
  `TokensInv` adds that each node is called by the name it was created for, if
  that is short enough. The theorem excepts trees with colliding names, names
  that fill a token and listings that fill a buffer. Assumed: `HashAssumption`,
  `LengthAssumption` and `DiskAssumption` (paths of a tree are non-empty and
  closed under prefixes).
* **FileServiceProofs** (every trie, any paths, any finite set of clients).
  `ServiceInv` is the types together with what a handler's own variables are at
  each of its positions: no lock half taken outside the lock's code, no reader's
  step taken by a writer, and, from the first `strtok` on, a path that ends behind
  its first name, whatever the others' `strtok` does. From the last follows
  `OpensEmptyName`: what is opened is the path behind that name.
  `ResponseInv`, for `OneResponse`: as long as a client has sent no text, of its
  request, a handler that serves it, and a response, only one is ever there; a
  second response takes text and two handlers. `CountsKeepDrift` rests on `Counts`:
  each count is the number of handlers in the counted positions, minus the
  children; one handler moves at a time, in or out of the set of one node, and
  the lemmas on adding and removing an element do the rest.
  `FileLocksImplement` is the refinement of AbstractRWLock by the lock of every
  plain file. It needs `MutexInv` (who holds an inner mutex of a node is at that
  node and at that point of Read_Lock), `Counts`, by which the count of a file,
  which has no children, is exact, and `LeafInv`: as long as nobody has called
  exit(), Write_Lock is the readers' exactly while there are readers, a first
  reader on its way in is alone, and a handler that has it is inside as a writer
  or has left without giving it back. One lemma for each step of the lock shows
  which abstract step it is; a last one, that all other steps leave the lock of
  every file alone. Assumed: `ClientAssumption`, `TrieAssumption` (finite, with
  its root and without gaps), `PathAssumption` (a path is a non-empty sequence),
  `OpAssumption`.
* **ClientSessionsProofs** (any number of slots and clients). `CounterInv` needs to
  know nothing of the handlers: that the counter does not pass the slots in use
  is kept by AddClient and RemoveClient alone, whichever client is added or
  removed, which is why it survives the shared struct. `AnswerInv` is the life of
  a request: in the socket, with one handler, or answered, and in one of these
  places at most; `recv` takes it from the first to the second in one step.
  `TypeCorrectness` is more than types: that accept() finds a free descriptor
  takes `FdInv`, no two descriptors of one connection and none of a connection
  that was never accepted, and a count of both; that no client is sent the zero
  of a struct never filled takes `HandleInv`. `MeetInv` is about the clients that
  have met no other, however many have: for each, what the struct, the list and
  the descriptors hold of it at each position of acceptor and handler, that no
  other handler has to do with it, and that no ID is in the list twice.
  `OwnAnswersUnmet` and `NothingLeaksUnmet` follow, without a bound on how many
  are connected.
  Assumed: `MaxClientsAssumption`, `IDAssumption`, `SessionsAssumption`.
* **ServerSessionsProofs** (any number of slots and servers). `ListOfOne`: what is
  active in the list is slot 0 under the ID that the acceptor's struct has.
  AddServer stops its search at the ID that the struct still has from the server
  before, so that it finds slot 0 or nothing; that is why `ListInv` holds however
  sessions overlap, and why a second server takes the place of the first.
  `TypeCorrectness` adds that the struct is filled before anything is sent from
  it. `AloneInv`, for the properties of servers that come one after the other,
  says that one server at most is in its turn (on, in the backlog, with the
  acceptor or with a handler), and what the struct, the list and the handler's
  locals are at each point of that turn; what the properties say alone is not
  kept by a step of the acceptor. Assumed: `MaxServersAssumption` (two slots at
  least), `ServerAssumption`, `SessionsAssumption`.
* **NamingLookupProofs** (any handlers, paths, buckets and size of the cache).
  `TypeCorrectness` holds after races, too: a handler at a statement about a node
  has one (where `put` may meet a NULL head or tail, it crashes). The rest is about behaviours in which no two threads have met.
  `AnswerInv`: a handler walks down its own path, puts into the cache only a path
  that is mounted, and a bucket of the table has a node only if a path of that
  bucket is mounted; `AnswersAreRight` follows.
  `CacheInv`: while nobody is in the cache, the pointers are a list of distinct
  nodes, one for each taken bucket, the same in both directions; at each statement of `get`, `put` and what they call, it
  is that list with the pointers that are out of step named one by one
  (`AtPosition`). There are no more nodes than buckets, so that the count never
  passes `CACHE_SIZE`; and while the log flusher is alone in strtok, it finds no
  name there and so the root: `NeverEvicts`, `CacheIsIntact`. `ImplementsOrderOfUse`
  follows the list through the same statements: `Order` changes where a node
  is unlinked from its front neighbour or made the head, as Touch and Add of
  AbstractLRU do, and in no other step. Assumed: `CacheAssumption` (a bucket for
  each path), `MountAssumption`.
* **DirectCommandsProofs** (any clients, words and bounds). `ExchangeInv`: of a
  client that was interrupted, or whose answers were mixed up with another's,
  nothing is claimed; of any other, as long as the naming server is up, request
  and answer are one message at most, which is about the command that waits for
  it, and none when no command waits. `AnswerOfOwnCommand` follows, with servers
  that end at any step and a naming server that may send any answer to any client.
  `ServiceInv` relates three things for each connection: where the client is in
  READ, WRITE or INFO, where the handler is, and what is left in the stream, to
  the byte; its core is a lemma on what a recv of any length leaves of a sequence
  of sends. `ToldUnless` follows. `RunsTheTypedOne` computes the hash of each
  word, letter by letter, and the table, insertion by insertion, from their
  recursive definitions, for the words that `main` knows and for some it does not. Assumed: `WordAssumption`, `ClientsAssumption`.

TLC evaluates the assumptions in the runs of each module. Recursion is by
functions on an interval of numbers: that such a function exists, and what it
is at each number, is proved by induction in the form of sets (a set of numbers
with 0 and with the successor of each of its members is all of them), which
follows from the library's facts on well-founded relations.

Only model-checked: liveness, which is out of the prover's reach, as is ENABLED:
`ImplementsAbstractLive`, `NoStarvationOnFairMutexes`,
`ExitCompletes`, `AnsweredUnlessLeaked`, `StartsUp`, `RegistersAlone` and
`CommandReturns`. Every other property of the passing runs is a theorem.

## 6. Not modelled

* *Walks of the storage server's trie beside the handlers*: `trie_rename` is
  reached only through a RENAME from the naming server, which is sent on a
  socket that the storage server does not read requests from (`server_rename`).
  `trie_print` runs in the log flusher every few seconds and holds the read lock
  of a node while it visits its children. It changes nothing, and beside two
  handlers it multiplies FileService's states beyond what TLC can do in minutes;
  that it waits behind a lock that a failed WRITE has kept, holding the root's,
  follows from `Leaked` and is not checked.
* *Operations that no code calls*: `Delete_Path`, `Delete_Trie`, `flushCache`,
  `freeCache`, `printCache`, `SetActive`, `trie_delete`, `destroyHashTable`;
  and `GetActiveBackUp`, as there are no backups in this build.
* *Branches that are not reached*: what READ, WRITE and INFO do with a file that
  opens (`NameIsEmpty`), so the transfer of contents is not modelled; the
  acknowledgement branches of the naming server (`server_rename`). CREATE,
  DELETE, COPY and MOVE are empty in the code.
* *The client's way to the naming server*: its first connection and the
  registration of its ID are the other side of ClientSessions.
* *Parts of behaviours that are modelled*: DirectCommands has one handler per
  connection (two that share a socket are FileService's); a Ctrl-C at the prompt
  is an empty line to the model, or one that `poll` notices and that exits the
  client, which is left out; walks of the naming server that have met in `strtok`
  are not followed to the end; the text of the naming server's listings, which
  `Get_Directory_Tree_Full` cuts at 1024 bytes with `strncat` (Naming Sever/Trie.c:40-65).
* *What no property is about*: logging, clocks, prompts, message layouts.
