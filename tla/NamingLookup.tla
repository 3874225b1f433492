----------------------------- MODULE NamingLookup -----------------------------
(***************************************************************************)
(* How the naming server finds the server of a path: ResolvePath and the   *)
(* client handlers that call it (src/Naming Sever/NS.c), the path cache    *)
(* (LRU) and the mount trie (src/Naming Sever/Trie.c), into which the      *)
(* handler of a storage server inserts the paths that it is sent.          *)
(*                                                                         *)
(* A path is a sequence of names, of which the first does not count; a     *)
(* name stands for its hash, by which the trie alone tells names apart.  A *)
(* node of the trie is the sequence of names that leads to it.  Every walk *)
(* cuts its path with strtok, which keeps its place in one static variable *)
(* for all threads; so do a RENAME's handler and the thread that flushes   *)
(* the log.  There is no mutex around any of this.  (The copy that strtok  *)
(* was in may have been freed by then; what it would read there, or a      *)
(* wrong answer of walks that meet, is not followed any further.)          *)
(***************************************************************************)
EXTENDS LRU

CONSTANTS Listed,       \* the paths that a listing is asked for
          Renames,      \* what RENAME is asked: a path, to the end of the new name, and
                        \* the new name by itself
          Flusher,      \* the log flusher
          Inserter,     \* the storage-server handler
          MountPaths,   \* the paths that it is sent, in order
          MaxCalls      \* bound: requests and insertions after threads have met inside the code

Name == UNION {ToSet(p) : p \in Path \cup ToSet(MountPaths)}

ASSUME MountAssumption ==
  /\ {Inserter, Flusher} \cap Thread = {} /\ Inserter # Flusher /\ MaxCalls \in Nat
  /\ MountPaths \in Seq(ToSet(MountPaths))
  /\ Path \cup ToSet(MountPaths) \subseteq Seq(Name) \ {<<>>}
  /\ Renames \subseteq Path \X Seq(Name)

VARIABLES strtok,      \* the names that strtok(NULL) would return, in order
          trie,        \* the nodes of the mount trie
          handled,     \* the nodes whose Server_Handle is set
          at,          \* the node that each walk has come to
          inserted,    \* how many of the paths have been inserted, or begun
          op,          \* what each client handler was asked for
          found,       \* whether it has found the path
          wasMounted,  \* history: the path was in the trie when it was asked for
          overlapped,  \* history: two threads have been inside cache or strtok at once
          calls        \* requests and insertions since then

All == Thread \cup {Inserter, Flusher}
trieVars == <<strtok, trie, handled, at, inserted>>
requestVars == <<op, found, wasMounted, calls>>
vars == <<cacheVars, callVars, pc, path, trieVars, requestVars, overlapped>>

Init ==
  /\ createCache
  /\ pc = [t \in All |-> CASE t = Inserter -> "insertNext" [] t = Flusher -> "sleep" [] OTHER -> "idle"]
  /\ path = [t \in Thread |-> <<>>]
  /\ strtok = <<>> /\ trie = {<<>>} /\ handled = {}
  /\ at = [t \in All |-> <<>>] /\ inserted = 0
  /\ op = [t \in Thread |-> "none"] /\ found = [t \in Thread |-> FALSE]
  /\ wasMounted = [t \in Thread |-> FALSE] /\ overlapped = FALSE /\ calls = 0

Mounted(p) == Tail(p) \in handled

MayBegin ==
  /\ overlapped => calls < MaxCalls
  /\ calls' = IF overlapped THEN calls + 1 ELSE calls

-----------------------------------------------------------------------------
(* Client_Handler_Thread: LIST goes to the trie, the others to ResolvePath *)

Requests(t) ==
  /\ MayBegin
  /\ \E o \in {"RESOLVE", "LIST"}, p \in Path :
       /\ o = "LIST" => p \in Listed
       /\ Go(t, "idle", IF o = "LIST" THEN "walk" ELSE "get")
       /\ op' = [op EXCEPT ![t] = o] /\ path' = [path EXCEPT ![t] = p]
       /\ wasMounted' = [wasMounted EXCEPT ![t] = Mounted(p)]
  /\ UNCHANGED <<cacheVars, callVars, trieVars, found>>

(* RENAME: strtok cuts a copy of the request at the blank, which leaves its *)
(* place at the new name; ResolvePath gets path and new name as one.       *)
RequestsRename(t) ==
  /\ MayBegin
  /\ \E r \in Renames :
       /\ Go(t, "idle", "get") /\ op' = [op EXCEPT ![t] = "RESOLVE"]
       /\ path' = [path EXCEPT ![t] = r[1]] /\ strtok' = r[2]
       /\ wasMounted' = [wasMounted EXCEPT ![t] = Mounted(r[1])]
  /\ UNCHANGED <<cacheVars, callVars, trie, handled, at, inserted, found>>

\* ResolvePath, with what get has returned.
Hits(t) ==
  /\ Go(t, "hit", "answer") /\ found' = [found EXCEPT ![t] = TRUE]
  /\ UNCHANGED <<path, cacheVars, callVars, trieVars, op, wasMounted, calls>>

Misses(t) ==
  /\ Go(t, "miss", "walk")
  /\ UNCHANGED <<path, cacheVars, callVars, trieVars, requestVars>>

\* Get_Server and Get_Directory_Tree: strtok on a copy of the path.
BeginsWalk(t) ==
  /\ Go(t, "walk", "round")
  /\ strtok' = Tail(path[t]) /\ at' = [at EXCEPT ![t] = <<>>]
  /\ UNCHANGED <<path, cacheVars, callVars, trie, handled, inserted, requestVars>>

Child(t) == Append(at[t], Head(strtok))

\* One round of the loop: the next name, and the child that goes by its hash.
FindsChild(t) ==
  /\ pc[t] = "round" /\ strtok # <<>> /\ Child(t) \in trie
  /\ at' = [at EXCEPT ![t] = Child(t)] /\ strtok' = Tail(strtok)
  /\ UNCHANGED <<pc, path, cacheVars, callVars, trie, handled, inserted, requestVars>>

\* Fault: that there is no such path goes into the cache as well.
MissesChildCached(t) ==
  /\ Go(t, "round", IF op[t] = "RESOLVE" THEN "put" ELSE "answer")
  /\ strtok # <<>> /\ Child(t) \notin trie
  /\ strtok' = Tail(strtok) /\ found' = [found EXCEPT ![t] = FALSE]
  /\ UNCHANGED <<path, cacheVars, callVars, trie, handled, at, inserted, op, wasMounted, calls>>

MissesChild(t) ==
  /\ Go(t, "round", "answer") /\ strtok # <<>> /\ Child(t) \notin trie
  /\ strtok' = Tail(strtok) /\ found' = [found EXCEPT ![t] = FALSE]
  /\ UNCHANGED <<path, cacheVars, callVars, trie, handled, at, inserted, op, wasMounted, calls>>

\* A path that Get_Server finds goes into the cache.
EndsWalk(t) ==
  LET isThere == op[t] = "LIST" \/ at[t] \in handled IN
  /\ strtok = <<>>
  /\ Go(t, "round", IF op[t] = "RESOLVE" /\ isThere THEN "put" ELSE "answer")
  /\ found' = [found EXCEPT ![t] = isThere]
  /\ UNCHANGED <<path, cacheVars, callVars, trieVars, op, wasMounted, calls>>

Stores(t) ==
  /\ Go(t, "stored", "answer")
  /\ UNCHANGED <<path, cacheVars, callVars, trieVars, requestVars>>

(* What is sent: the listing, or the address of the server, unless the     *)
(* server is inactive (ServerSessions); or that there is no such path.     *)
Answers(t) ==
  /\ Go(t, "answer", "idle")
  /\ path' = [path EXCEPT ![t] = <<>>] /\ op' = [op EXCEPT ![t] = "none"]
  /\ found' = [found EXCEPT ![t] = FALSE] /\ wasMounted' = [wasMounted EXCEPT ![t] = FALSE]
  /\ at' = [at EXCEPT ![t] = <<>>]
  /\ call' = [call EXCEPT ![t] = "none"] /\ node' = [node EXCEPT ![t] = NULL]
  /\ size' = [size EXCEPT ![t] = 0]
  /\ UNCHANGED <<cacheVars, strtok, trie, handled, inserted, calls>>

-----------------------------------------------------------------------------
(* Storage_Server_Handler_Thread: Insert_Path for each mount path          *)

InsertsNext ==
  /\ inserted < Len(MountPaths) /\ MayBegin /\ Go(Inserter, "insertNext", "insertRound")
  /\ inserted' = inserted + 1
  /\ strtok' = Tail(MountPaths[inserted + 1]) /\ at' = [at EXCEPT ![Inserter] = <<>>]
  /\ UNCHANGED <<path, cacheVars, callVars, trie, handled, op, found, wasMounted>>

GoesToChild ==
  /\ pc[Inserter] = "insertRound" /\ strtok # <<>> /\ Child(Inserter) \in trie
  /\ at' = [at EXCEPT ![Inserter] = Child(Inserter)] /\ strtok' = Tail(strtok)
  /\ UNCHANGED <<pc, path, cacheVars, callVars, trie, handled, inserted, requestVars>>

\* Fault: the new child is not linked to its parent.
LinksNoChild ==
  /\ Go(Inserter, "insertRound", "setHandle") /\ strtok # <<>> /\ Child(Inserter) \notin trie
  /\ at' = [at EXCEPT ![Inserter] = Child(Inserter)] /\ strtok' = Tail(strtok)
  /\ UNCHANGED <<path, cacheVars, callVars, trie, handled, inserted, requestVars>>

\* A new child is linked first and gets its server after that.
LinksChild ==
  /\ strtok # <<>> /\ Child(Inserter) \notin trie /\ Go(Inserter, "insertRound", "setHandle")
  /\ trie' = trie \cup {Child(Inserter)}
  /\ at' = [at EXCEPT ![Inserter] = Child(Inserter)] /\ strtok' = Tail(strtok)
  /\ UNCHANGED <<path, cacheVars, callVars, handled, inserted, requestVars>>

SetsHandle ==
  /\ Go(Inserter, "setHandle", "insertRound") /\ handled' = handled \cup {at[Inserter]}
  /\ UNCHANGED <<path, cacheVars, callVars, strtok, trie, at, inserted, requestVars>>

EndsInsert ==
  /\ strtok = <<>> /\ Go(Inserter, "insertRound", "insertNext")
  /\ handled' = handled \cup {at[Inserter]}
  /\ UNCHANGED <<path, cacheVars, callVars, strtok, trie, at, inserted, requestVars>>

-----------------------------------------------------------------------------
(* Log_Flusher_Thread: Get_Directory_Tree of "/", in which strtok finds no *)
(* name.  If another thread's strtok comes before the loop, the loop walks *)
(* on with those names, and that there is no such path ends the server.    *)

BeginsFlush ==
  /\ Go(Flusher, "sleep", "flush") /\ strtok' = <<>>
  /\ UNCHANGED <<path, cacheVars, callVars, trie, handled, at, inserted, requestVars>>

EndsFlush ==
  /\ Go(Flusher, "flush", "sleep") /\ strtok' = <<>> /\ crashed' = (strtok \notin trie)
  /\ UNCHANGED <<path, listVars, hashmap, created, callVars, trie, handled, at, inserted, requestVars>>

-----------------------------------------------------------------------------
InStrtok == {t \in All : pc[t] \in {"round", "insertRound", "setHandle", "flush"}}

Meet == Cardinality(InCache) > 1 \/ Cardinality(InStrtok) > 1

Observes == ~crashed /\ overlapped' = (overlapped \/ Meet')

\* A RENAME's strtok is over at once, and meets whoever is inside then.
Renaming(t) == RequestsRename(t) /\ ~crashed /\ overlapped' = (overlapped \/ Meet' \/ InStrtok # {})

Resolves(t) ==
  /\ \/ CacheCall(t) /\ UNCHANGED <<trieVars, requestVars>>
     \/ Hits(t) \/ Misses(t) \/ BeginsWalk(t) \/ FindsChild(t) \/ MissesChild(t) \/ EndsWalk(t)
     \/ Stores(t) \/ Answers(t)
  /\ Observes

Inserts_Path ==
  /\ InsertsNext \/ GoesToChild \/ LinksChild \/ SetsHandle \/ EndsInsert
  /\ Observes

Flushes == (BeginsFlush \/ EndsFlush) /\ Observes

Next ==
  \/ \E t \in Thread : (Requests(t) /\ Observes) \/ Renaming(t)
  \/ \E t \in Thread : Resolves(t)
  \/ Inserts_Path \/ Flushes

Spec == Init /\ [][Next]_vars

\* The kernel schedules the threads; clients need not ask.
LiveSpec ==
  /\ Spec
  /\ \A t \in Thread : WF_vars(Resolves(t))

-----------------------------------------------------------------------------
TypeOK ==
  /\ CacheTypeOK
  /\ path \in [Thread -> Path \cup {<<>>}] /\ op \in [Thread -> {"RESOLVE", "LIST", "none"}]
  /\ {found, wasMounted} \subseteq [Thread -> BOOLEAN] /\ overlapped \in BOOLEAN
  /\ calls \in 0 .. MaxCalls /\ inserted \in 0 .. Len(MountPaths)
  /\ handled \subseteq trie /\ \A t \in All : at[t] \in trie
  /\ \A n \in trie : n = <<>> \/ SubSeq(n, 1, Len(n) - 1) \in trie

(* While nobody is inside get or put, the list holds the nodes of the      *)
(* table, each once and under its own hash; it reads the same backwards;   *)
(* and it ends at the tail: provided that no two calls have overlapped.    *)
CacheIntact ==
  ~overlapped /\ InCache = {} =>
    LET list == Forward IN
    /\ ToSet(list) = {hashmap[b] : b \in 1 .. CACHE_SIZE} \ {NULL}
    /\ \A i, j \in DOMAIN list : list[i] = list[j] => i = j
    /\ \A i \in DOMAIN list : prev[list[i]] = IF i = 1 THEN NULL ELSE list[i - 1]
    /\ tail = IF list = <<>> THEN NULL ELSE Last(list)
    /\ \A b \in 1 .. CACHE_SIZE : hashmap[b] # NULL => key(hashmap[b]) = b

(* As long as calls do not overlap, the pointers implement a list in the   *)
(* order of use, and an entry that get has found is its first.             *)
ImplementsLRU ==
  /\ Abstract!Init
  /\ [][overlapped' \/ ((UNCHANGED Order \/ Abstract!Next)
                        /\ \A t \in Thread : pc[t] # "hit" /\ pc'[t] = "hit"
                                               => IsPrefix(<<Bucket[path[t]]>>, Order'))]_vars

(* Of calls that do not overlap, an answer is right: a path that was       *)
(* mounted when it was asked for is found, and one that is found is        *)
(* mounted, unless a mounted path that shares its bucket has been cached.  *)
AnswerRight ==
  \A t \in Thread : pc[t] = "answer" /\ ~overlapped =>
    /\ wasMounted[t] => found[t]
    /\ found[t] /\ op[t] = "LIST" => Tail(path[t]) \in trie
    /\ found[t] /\ op[t] = "RESOLVE" => \E p \in Path : Bucket[p] = Bucket[path[t]] /\ Mounted(p)

(* While no two calls overlap, put finds no more than CACHE_SIZE entries,  *)
(* for each bucket has one entry at most: nothing is ever evicted, and the *)
(* walk that counts the entries comes to an end.  Nor does the server end, *)
(* by a NULL pointer or because the log flusher has walked another's path. *)
EvictsOnlyAfterOverlap ==
  (\E t \in Thread : size[t] > CACHE_SIZE) \/ crashed => overlapped

(* "Send the response to the client": every request is answered.           *)
RequestsReturn == \A t \in Thread : pc[t] # "idle" ~> pc[t] = "idle"
=============================================================================
