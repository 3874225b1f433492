--------------------------------- MODULE LRU ---------------------------------
(***************************************************************************)
(* The path cache of the naming server (src/Naming Sever/LRU.c): a table   *)
(* of nodes, which are also linked into a list, the most recently used one *)
(* first.  It has no mutex; an action is one statement, with its test, of  *)
(* the thread that calls get or put.                                       *)
(*                                                                         *)
(* hashFunction is the function Bucket, and no key is ever compared.  The  *)
(* values are left out: they are all the same pointer (ServerSessions).    *)
(***************************************************************************)
EXTENDS Integers, Sequences, FiniteSets, SequencesExt

CONSTANTS Thread,       \* the client handlers, which share the cache
          Path,         \* what they look up
          Bucket,       \* hashFunction(key) % CACHE_SIZE of each path, plus 1
          CACHE_SIZE,
          MaxSame       \* bound: how many nodes are ever created for a bucket

NULL == 0
Node == 1 .. MaxSame * CACHE_SIZE

\* The bucket of a node's key.  (Nodes are numbered so that it can be told from the number.)
key(n) == ((n - 1) % CACHE_SIZE) + 1

ASSUME CacheAssumption ==
  /\ {CACHE_SIZE, MaxSame} \subseteq Nat \ {0}
  /\ Bucket \in [Path -> 1 .. CACHE_SIZE]

VARIABLES head, tail, hashmap,   \* the cache
          next, prev,      \* the nodes
          created,               \* the nodes that were created
          crashed,               \* the process has ended: a NULL pointer was followed, or by exit
          pc,                    \* position of each thread
          path,                  \* what it looks up
          call,                  \* the function it is in: get, put, or put's eviction
          node,                  \* the node it handles, or is at in cacheSize
          size                   \* what cacheSize has counted

listVars == <<head, tail, next, prev>>
cacheVars == <<listVars, hashmap, created, crashed>>
callVars == <<call, node, size>>

createCache ==
  /\ head = NULL /\ tail = NULL /\ hashmap = [b \in 1 .. CACHE_SIZE |-> NULL]
  /\ next = [n \in Node |-> NULL] /\ prev = [n \in Node |-> NULL]
  /\ created = {} /\ crashed = FALSE
  /\ call = [t \in Thread |-> "none"] /\ node = [t \in Thread |-> NULL] /\ size = [t \in Thread |-> 0]

Go(t, from, to) == pc[t] = from /\ pc' = [pc EXCEPT ![t] = to]
In(t, from, to) == Go(t, from, to) /\ UNCHANGED <<path, callVars, hashmap, created, crashed>>

\* Following a NULL pointer ends the process.
Crashes(t) ==
  /\ \/ pc[t] = "insertBack" /\ head = NULL
     \/ pc[t] = "evict" /\ tail = NULL
  /\ crashed' = TRUE
  /\ UNCHANGED <<pc, path, callVars, listVars, hashmap, created>>

-----------------------------------------------------------------------------
(* get and put look into the table.  A node that is there is moved to the  *)
(* head of the list; get reports "hit" or "miss".                          *)

Looks(t, from, to) ==
  LET n == hashmap[Bucket[path[t]]] IN
  /\ Go(t, from, IF n = NULL THEN to ELSE "unlinkFront")
  /\ call' = [call EXCEPT ![t] = from] /\ node' = [node EXCEPT ![t] = n]
  /\ UNCHANGED <<path, size, cacheVars>>

\* Fault: a node that is found stays where it is.
getOnly(t) ==
  LET n == hashmap[Bucket[path[t]]] IN
  /\ Go(t, "get", IF n = NULL THEN "miss" ELSE "hit")
  /\ call' = [call EXCEPT ![t] = "get"] /\ node' = [node EXCEPT ![t] = n]
  /\ UNCHANGED <<path, size, cacheVars>>

\* Fault: a node is created whether there is one or not.
putAlways(t) ==
  /\ Go(t, "put", "create")
  /\ call' = [call EXCEPT ![t] = "put"] /\ node' = [node EXCEPT ![t] = NULL]
  /\ UNCHANGED <<path, size, cacheVars>>

get(t) == Looks(t, "get", "miss")
put(t) == Looks(t, "put", "create")

\* Fault: the node is linked to its old neighbours no more than half.
UnlinkFrontOnly(t) ==
  LET n == node[t] IN
  /\ In(t, "unlinkFront", "link")
  /\ IF prev[n] = NULL THEN head' = next[n] /\ UNCHANGED next
     ELSE next' = [next EXCEPT ![prev[n]] = next[n]] /\ UNCHANGED head
  /\ UNCHANGED <<tail, prev>>

\* removeFromList
UnlinkFront(t) ==
  LET n == node[t] IN
  /\ In(t, "unlinkFront", "unlinkBack")
  /\ IF prev[n] = NULL THEN head' = next[n] /\ UNCHANGED next
     ELSE next' = [next EXCEPT ![prev[n]] = next[n]] /\ UNCHANGED head
  /\ UNCHANGED <<tail, prev>>

UnlinkBack(t) ==
  LET n == node[t] IN
  /\ In(t, "unlinkBack", IF call[t] = "evict" THEN "free" ELSE "link")
  /\ IF next[n] = NULL THEN tail' = prev[n] /\ UNCHANGED prev
     ELSE prev' = [prev EXCEPT ![next[n]] = prev[n]] /\ UNCHANGED tail
  /\ UNCHANGED <<head, next>>

\* moveToHead, after removeFromList
Link(t) ==
  LET n == node[t] IN
  /\ In(t, "link", "linkHead")
  /\ next' = [next EXCEPT ![n] = head] /\ prev' = [prev EXCEPT ![n] = NULL]
  /\ UNCHANGED <<head, tail>>

LinkHead(t) ==
  /\ In(t, "linkHead", "setHead")
  /\ prev' = IF head = NULL THEN prev ELSE [prev EXCEPT ![head] = node[t]]
  /\ UNCHANGED <<head, tail, next>>

SetHead(t) ==
  /\ In(t, "setHead", "setTail") /\ head' = node[t]
  /\ UNCHANGED <<tail, next, prev>>

SetTail(t) ==
  /\ In(t, "setTail", IF call[t] = "get" THEN "hit" ELSE "stored")
  /\ tail' = IF tail = NULL THEN node[t] ELSE tail
  /\ UNCHANGED <<head, next, prev>>

-----------------------------------------------------------------------------
(* put, for a bucket that is empty                                         *)

\* The next node that malloc gives out for a bucket.
Fresh(b) == {n \in Node \ created : key(n) = b /\ \A i \in Node \ created : key(i) = b => n <= i}

createNode(t) ==
  /\ Go(t, "create", "insert")
  /\ \E n \in Fresh(Bucket[path[t]]) :
       /\ created' = created \cup {n}
       /\ hashmap' = [hashmap EXCEPT ![key(n)] = n] /\ node' = [node EXCEPT ![t] = n]
  /\ UNCHANGED <<path, call, size, listVars, crashed>>

Inserts(t) ==
  IF head = NULL
  THEN /\ In(t, "insert", "count")
       /\ head' = node[t] /\ tail' = node[t] /\ UNCHANGED <<next, prev>>
  ELSE /\ In(t, "insert", "insertBack")
       /\ next' = [next EXCEPT ![node[t]] = head] /\ UNCHANGED <<head, tail, prev>>

InsertsBack(t) ==
  /\ head # NULL /\ In(t, "insertBack", "insertHead")
  /\ prev' = [prev EXCEPT ![head] = node[t]]
  /\ UNCHANGED <<head, tail, next>>

InsertsHead(t) ==
  /\ In(t, "insertHead", "count") /\ head' = node[t]
  /\ UNCHANGED <<tail, next, prev>>

(* cacheSize.  Beyond CACHE_SIZE the count makes no difference any more.   *)
BeginsCount(t) ==
  /\ Go(t, "count", "cacheSize")
  /\ node' = [node EXCEPT ![t] = head] /\ size' = [size EXCEPT ![t] = 0]
  /\ UNCHANGED <<path, call, cacheVars>>

cacheSize(t) ==
  /\ node[t] # NULL /\ Go(t, "cacheSize", "cacheSize")
  /\ node' = [node EXCEPT ![t] = next[node[t]]]
  /\ size' = [size EXCEPT ![t] = IF @ > CACHE_SIZE THEN @ ELSE @ + 1]
  /\ UNCHANGED <<path, call, cacheVars>>

EndsCount(t) ==
  /\ node[t] = NULL /\ Go(t, "cacheSize", IF size[t] > CACHE_SIZE THEN "evict" ELSE "stored")
  /\ UNCHANGED <<path, callVars, cacheVars>>

Evicts(t) ==
  /\ tail # NULL /\ Go(t, "evict", "unlinkFront")
  /\ tail' = prev[tail]
  /\ call' = [call EXCEPT ![t] = "evict"] /\ node' = [node EXCEPT ![t] = tail]
  /\ UNCHANGED <<path, size, head, next, prev, hashmap, created, crashed>>

\* A freed node reads as it was: its memory is not given out again here.
Frees(t) ==
  /\ Go(t, "free", "stored")
  /\ hashmap' = [hashmap EXCEPT ![key(node[t])] = NULL]
  /\ UNCHANGED <<path, callVars, listVars, created, crashed>>

CacheCall(t) ==
  \/ get(t) \/ put(t) \/ UnlinkFront(t) \/ UnlinkBack(t) \/ Link(t) \/ LinkHead(t)
  \/ SetHead(t) \/ SetTail(t) \/ createNode(t) \/ Inserts(t) \/ InsertsBack(t) \/ InsertsHead(t)
  \/ BeginsCount(t) \/ cacheSize(t) \/ EndsCount(t) \/ Evicts(t) \/ Frees(t)
  \/ Crashes(t)

InCache == {t \in Thread : pc[t] \in {"unlinkFront", "unlinkBack", "link", "linkHead", "setHead",
                                      "setTail", "create", "insert", "insertBack", "insertHead",
                                      "count", "cacheSize", "evict", "free"}}

-----------------------------------------------------------------------------
(* The list as it is read from its head, as far as it can be told.         *)
Forward ==
  LET w[i \in Node] ==
        IF i = 1 THEN head ELSE IF w[i - 1] = NULL THEN NULL ELSE next[w[i - 1]]
  IN  SubSeq(w, 1, Cardinality({i \in Node : w[i] # NULL}))

(* The entries in the order of their use: the node that is on its way to   *)
(* the head counts as there already, and of an entry too many the last is  *)
(* as good as gone.                                                        *)
Order ==
  LET moving == {t \in Thread : /\ pc[t] \in {"unlinkBack", "link", "linkHead", "setHead"}
                                /\ call[t] # "evict"}
      nodes == IF moving = {} THEN Forward
               ELSE <<node[CHOOSE t \in moving : TRUE]>> \o Forward
      entries == [i \in DOMAIN nodes |-> key(nodes[i])]
  IN  SubSeq(entries, 1, IF Len(nodes) < CACHE_SIZE THEN Len(nodes) ELSE CACHE_SIZE)

Abstract == INSTANCE AbstractLRU WITH Entry <- 1 .. CACHE_SIZE, order <- Order

CacheTypeOK ==
  /\ {head, tail} \subseteq Node \cup {NULL} /\ created \subseteq Node /\ crashed \in BOOLEAN
  /\ hashmap \in [1 .. CACHE_SIZE -> Node \cup {NULL}]
  /\ next \in [Node -> Node \cup {NULL}] /\ prev \in [Node -> Node \cup {NULL}]
  /\ call \in [Thread -> {"get", "put", "evict", "none"}]
  /\ node \in [Thread -> Node \cup {NULL}] /\ size \in [Thread -> 0 .. CACHE_SIZE + 1]
=============================================================================
