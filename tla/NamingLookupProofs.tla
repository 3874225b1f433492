------------------------- MODULE NamingLookupProofs -------------------------
(***************************************************************************)
(* Theorems about NamingLookup for any number of client handlers, any      *)
(* paths, buckets and size of the cache: the types, whatever meets         *)
(* whatever; and, as long as no two threads have met inside the cache or   *)
(* inside strtok, that the answers are right, that the pointers of the     *)
(* cache are one list, from which nothing is ever evicted, and that they   *)
(* implement the list in the order of use of AbstractLRU.                  *)
(***************************************************************************)
EXTENDS NamingLookup, FiniteSetTheorems, SequenceTheorems, WellFoundedInduction, TLAPS

(* Positions inside get or put, and those of them that handle a node.      *)
CachePc == {"unlinkFront", "unlinkBack", "link", "linkHead", "setHead", "setTail", "create",
            "insert", "insertBack", "insertHead", "count", "cacheSize", "evict", "free"}
Handling == CachePc \ {"create", "count", "cacheSize", "evict"}
HandlerPc == CachePc \cup {"idle", "get", "miss", "hit", "walk", "round", "put", "stored", "answer"}
OtherPc == {"insertNext", "insertRound", "setHandle", "sleep", "flush"}

ThreadsTypeOK ==
  /\ pc \in [All -> HandlerPc \cup OtherPc]
  /\ \A t \in Thread : pc[t] \in HandlerPc
  /\ pc[Inserter] \in OtherPc /\ pc[Flusher] \in OtherPc
  /\ \A t \in Thread : pc[t] \in Handling => node[t] \in Node
  /\ \A t \in Thread : pc[t] # "idle" => path[t] \in Path

TrieTypeOK ==
  /\ strtok \in Seq(Name) /\ trie \subseteq Seq(Name) /\ <<>> \in trie /\ at \in [All -> trie]
  /\ \A n \in trie : n = <<>> \/ SubSeq(n, 1, Len(n) - 1) \in trie
  /\ handled \subseteq trie /\ inserted \in 0 .. Len(MountPaths)

RequestsTypeOK ==
  /\ path \in [Thread -> Path \cup {<<>>}] /\ op \in [Thread -> {"RESOLVE", "LIST", "none"}]
  /\ found \in [Thread -> BOOLEAN] /\ wasMounted \in [Thread -> BOOLEAN]
  /\ overlapped \in BOOLEAN /\ calls \in 0 .. MaxCalls

TypeInv == CacheTypeOK /\ ThreadsTypeOK /\ TrieTypeOK /\ RequestsTypeOK

-----------------------------------------------------------------------------
LEMMA Constants ==
  /\ CACHE_SIZE \in Nat \ {0} /\ MaxSame \in Nat \ {0} /\ Bucket \in [Path -> 1 .. CACHE_SIZE]
  /\ \A p \in Path : p \in Seq(Name) /\ p # <<>> /\ Tail(p) \in Seq(Name)
  /\ MountPaths \in Seq(Seq(Name)) /\ \A i \in 1 .. Len(MountPaths) :
       MountPaths[i] \in Seq(Name) /\ Tail(MountPaths[i]) \in Seq(Name)
  /\ Thread \subseteq All /\ Inserter \in All /\ Inserter \notin Thread
  /\ Flusher \in All /\ Flusher \notin Thread /\ Inserter # Flusher /\ All = Thread \cup {Inserter, Flusher}
<1>1. CACHE_SIZE \in Nat \ {0} /\ MaxSame \in Nat \ {0} /\ Bucket \in [Path -> 1 .. CACHE_SIZE]
  BY CacheAssumption
<1>2. \A p \in Path \cup ToSet(MountPaths) : p \in Seq(Name) /\ p # <<>> /\ Tail(p) \in Seq(Name)
  BY MountAssumption
<1>3. /\ MountPaths \in Seq(Seq(Name)) /\ \A i \in 1 .. Len(MountPaths) :
         MountPaths[i] \in Seq(Name) /\ Tail(MountPaths[i]) \in Seq(Name)
  BY <1>2, MountAssumption DEF ToSet
<1> QED BY <1>1, <1>2, <1>3, MountAssumption DEF All

LEMMA NodeNumbers ==
  /\ Node \subseteq Nat /\ NULL \notin Node
  /\ \A n \in Node : key(n) \in 1 .. CACHE_SIZE
<1>1. ASSUME NEW n \in Node PROVE n \in Nat \ {0}
  <2>1. MaxSame * CACHE_SIZE \in Nat
    BY Constants
  <2> QED BY <2>1 DEF Node
<1>2. ASSUME NEW n \in Node PROVE key(n) \in 1 .. CACHE_SIZE
  <2>1. n - 1 \in Nat /\ CACHE_SIZE \in Nat \ {0}
    BY <1>1, Constants
  <2>2. (n - 1) % CACHE_SIZE \in 0 .. CACHE_SIZE - 1
    BY <2>1
  <2> QED BY <2>1, <2>2 DEF key
<1> QED BY <1>1, <1>2 DEF NULL

LEMMA InitTypes == Init => TypeInv
<1> SUFFICES ASSUME Init PROVE TypeInv
  OBVIOUS
<1>1. CacheTypeOK
  <2>1. /\ head = NULL /\ tail = NULL /\ hashmap = [b \in 1 .. CACHE_SIZE |-> NULL]
        /\ next = [n \in Node |-> NULL] /\ prev = [n \in Node |-> NULL] /\ created = {} /\ crashed = FALSE
        /\ call = [t \in Thread |-> "none"] /\ node = [t \in Thread |-> NULL] /\ size = [t \in Thread |-> 0]
    BY DEF Init, createCache
  <2>2. 0 \in 0 .. CACHE_SIZE + 1
    BY Constants
  <2> QED BY <2>1, <2>2 DEF CacheTypeOK
<1>2. ThreadsTypeOK
  BY Constants DEF Init, ThreadsTypeOK, HandlerPc, OtherPc, CachePc, Handling
<1>3. TrieTypeOK
  <2>1. <<>> \in Seq(Name) /\ Len(MountPaths) \in Nat
    BY Constants, LenProperties
  <2> QED BY <2>1 DEF Init, TrieTypeOK
<1>4. RequestsTypeOK
  <2>1. path \in [Thread -> Path \cup {<<>>}] /\ op \in [Thread -> {"RESOLVE", "LIST", "none"}]
    BY DEF Init
  <2>2. found \in [Thread -> BOOLEAN] /\ wasMounted \in [Thread -> BOOLEAN] /\ overlapped \in BOOLEAN
    BY DEF Init
  <2>3. calls \in 0 .. MaxCalls
    BY MountAssumption DEF Init
  <2> QED BY <2>1, <2>2, <2>3 DEF RequestsTypeOK
<1> QED BY <1>1, <1>2, <1>3, <1>4 DEF TypeInv

\* What a step of a thread inside get or put leaves: its position, its node, the cache.
CacheMoves(t, q) ==
  /\ pc' = [pc EXCEPT ![t] = q] /\ q \in HandlerPc /\ (q \in Handling => node'[t] \in Node)
  /\ \A u \in Thread \ {t} : node'[u] = node[u]
  /\ CacheTypeOK' /\ UNCHANGED path

LEMMA CallMoves ==
  ASSUME TypeInv, NEW t \in Thread, CacheCall(t)
  PROVE  \E q \in HandlerPc : CacheMoves(t, q)
<1>1. /\ {head, tail} \subseteq Node \cup {NULL} /\ created \subseteq Node /\ crashed \in BOOLEAN
      /\ hashmap \in [1 .. CACHE_SIZE -> Node \cup {NULL}]
      /\ next \in [Node -> Node \cup {NULL}] /\ prev \in [Node -> Node \cup {NULL}]
      /\ call \in [Thread -> {"get", "put", "evict", "none"}]
      /\ node \in [Thread -> Node \cup {NULL}] /\ size \in [Thread -> 0 .. CACHE_SIZE + 1]
  BY DEF TypeInv, CacheTypeOK
<1>2. /\ pc \in [All -> HandlerPc \cup OtherPc] /\ pc[t] \in HandlerPc /\ t \in All
      /\ (pc[t] \in Handling => node[t] \in Node) /\ (pc[t] # "idle" => path[t] \in Path)
  BY Constants DEF TypeInv, ThreadsTypeOK
<1>3. CASE get(t) \/ put(t)
  <2>1. PICK n \in Node \cup {NULL}, q \in {"unlinkFront", "miss", "create"}, f \in {"get", "put"} :
          /\ pc' = [pc EXCEPT ![t] = q] /\ (q = "unlinkFront" => n # NULL)
          /\ call' = [call EXCEPT ![t] = f] /\ node' = [node EXCEPT ![t] = n]
          /\ UNCHANGED <<path, size, cacheVars>>
    <3>1. pc[t] # "idle" => hashmap[Bucket[path[t]]] \in Node \cup {NULL}
      BY <1>1, <1>2, Constants
    <3> QED BY <1>3, <3>1 DEF get, put, Looks, Go
  <2> QED BY <1>1, <2>1 DEF CacheMoves, CacheTypeOK, cacheVars, listVars, HandlerPc, CachePc, Handling
<1>4. CASE UnlinkFront(t) \/ UnlinkBack(t) \/ Link(t) \/ LinkHead(t)
  <2>1. pc[t] \in Handling
    BY <1>4 DEF UnlinkFront, UnlinkBack, Link, LinkHead, In, Go, Handling, CachePc
  <2>2. PICK q \in {"unlinkBack", "free", "link", "linkHead", "setHead"} : pc' = [pc EXCEPT ![t] = q]
    BY <1>4 DEF UnlinkFront, UnlinkBack, Link, LinkHead, In, Go
  <2>3. UNCHANGED <<path, callVars, hashmap, created, crashed>>
    BY <1>4 DEF UnlinkFront, UnlinkBack, Link, LinkHead, In
  <2>4. {head', tail'} \subseteq Node \cup {NULL}
    BY <1>1, <1>2, <1>4, <2>1 DEF UnlinkFront, UnlinkBack, Link, LinkHead
  <2>5. next' \in [Node -> Node \cup {NULL}]
    BY <1>1, <1>2, <1>4, <2>1 DEF UnlinkFront, UnlinkBack, Link, LinkHead
  <2>6. prev' \in [Node -> Node \cup {NULL}]
    BY <1>1, <1>2, <1>4, <2>1 DEF UnlinkFront, UnlinkBack, Link, LinkHead
  <2>7. CacheTypeOK'
    BY <1>1, <2>3, <2>4, <2>5, <2>6 DEF CacheTypeOK, callVars
  <2>8. q \in HandlerPc
    BY DEF HandlerPc, CachePc
  <2> QED BY <1>2, <2>1, <2>2, <2>3, <2>7, <2>8 DEF CacheMoves, callVars
<1>5. CASE SetHead(t) \/ SetTail(t) \/ Inserts(t) \/ InsertsBack(t) \/ InsertsHead(t)
  <2>1. pc[t] \in Handling
    BY <1>5 DEF SetHead, SetTail, Inserts, InsertsBack, InsertsHead, In, Go, Handling, CachePc
  <2>2. PICK q \in {"setTail", "hit", "stored", "count", "insertBack", "insertHead"} : pc' = [pc EXCEPT ![t] = q]
    BY <1>5 DEF SetHead, SetTail, Inserts, InsertsBack, InsertsHead, In, Go
  <2>3. UNCHANGED <<path, callVars, hashmap, created, crashed>>
    BY <1>5 DEF SetHead, SetTail, Inserts, InsertsBack, InsertsHead, In
  <2>4. {head', tail'} \subseteq Node \cup {NULL}
    BY <1>1, <1>2, <1>5, <2>1 DEF SetHead, SetTail, Inserts, InsertsBack, InsertsHead
  <2>5. next' \in [Node -> Node \cup {NULL}]
    BY <1>1, <1>2, <1>5, <2>1 DEF SetHead, SetTail, Inserts, InsertsBack, InsertsHead
  <2>6. prev' \in [Node -> Node \cup {NULL}]
    BY <1>1, <1>2, <1>5, <2>1 DEF SetHead, SetTail, Inserts, InsertsBack, InsertsHead
  <2>7. CacheTypeOK'
    BY <1>1, <2>3, <2>4, <2>5, <2>6 DEF CacheTypeOK, callVars
  <2>8. q \in HandlerPc
    BY DEF HandlerPc, CachePc
  <2> QED BY <1>2, <2>1, <2>2, <2>3, <2>7, <2>8 DEF CacheMoves, callVars
<1>6. CASE createNode(t)
  <2>1. PICK n \in Node : /\ created' = created \cup {n} /\ hashmap' = [hashmap EXCEPT ![key(n)] = n]
                          /\ node' = [node EXCEPT ![t] = n]
    BY <1>6 DEF createNode, Fresh
  <2>2. pc' = [pc EXCEPT ![t] = "insert"] /\ UNCHANGED <<path, call, size, listVars, crashed>>
    BY <1>6 DEF createNode, Go
  <2>3. CacheTypeOK'
    BY <1>1, <2>1, <2>2 DEF CacheTypeOK, listVars
  <2>4. "insert" \in HandlerPc
    BY DEF HandlerPc, CachePc
  <2>5. node'[t] = n /\ \A u \in Thread \ {t} : node'[u] = node[u]
    BY <1>1, <2>1
  <2> QED BY <2>2, <2>3, <2>4, <2>5 DEF CacheMoves
<1>7. CASE BeginsCount(t) \/ cacheSize(t) \/ EndsCount(t)
  <2>1. PICK q \in {"cacheSize", "evict", "stored"} : pc' = [pc EXCEPT ![t] = q]
    BY <1>7 DEF BeginsCount, cacheSize, EndsCount, Go
  <2>2. UNCHANGED <<path, call, cacheVars>>
    BY <1>7 DEF BeginsCount, cacheSize, EndsCount, callVars
  <2>3. node' \in [Thread -> Node \cup {NULL}] /\ \A u \in Thread \ {t} : node'[u] = node[u]
    BY <1>1, <1>7 DEF BeginsCount, cacheSize, EndsCount, callVars
  <2>4. size' \in [Thread -> 0 .. CACHE_SIZE + 1]
    <3>1. CACHE_SIZE \in Nat
      BY Constants
    <3>2. CASE BeginsCount(t)
      BY <1>1, <3>1, <3>2 DEF BeginsCount
    <3>3. CASE cacheSize(t)
      <4>1. (IF size[t] > CACHE_SIZE THEN size[t] ELSE size[t] + 1) \in 0 .. CACHE_SIZE + 1
        BY <1>1, <3>1
      <4> QED BY <1>1, <3>3, <4>1 DEF cacheSize
    <3>4. CASE EndsCount(t)
      BY <1>1, <3>4 DEF EndsCount, callVars
    <3> QED BY <1>7, <3>2, <3>3, <3>4
  <2>5. q \in HandlerPc /\ q \notin Handling
    BY DEF HandlerPc, CachePc, Handling
  <2> QED BY <1>1, <2>1, <2>2, <2>3, <2>4, <2>5 DEF CacheMoves, CacheTypeOK, cacheVars, listVars
<1>8. CASE Evicts(t)
  <2>1. /\ tail \in Node /\ pc' = [pc EXCEPT ![t] = "unlinkFront"] /\ tail' = prev[tail]
        /\ call' = [call EXCEPT ![t] = "evict"] /\ node' = [node EXCEPT ![t] = tail]
        /\ UNCHANGED <<path, size, head, next, prev, hashmap, created, crashed>>
    BY <1>1, <1>8 DEF Evicts, Go
  <2>2. CacheTypeOK'
    BY <1>1, <2>1 DEF CacheTypeOK
  <2> QED BY <1>1, <2>1, <2>2 DEF CacheMoves, HandlerPc, CachePc
<1>9. CASE Frees(t)
  <2>1. /\ pc' = [pc EXCEPT ![t] = "stored"] /\ hashmap' = [hashmap EXCEPT ![key(node[t])] = NULL]
        /\ UNCHANGED <<path, callVars, listVars, created, crashed>>
    BY <1>9 DEF Frees, Go
  <2>2. CacheTypeOK'
    BY <1>1, <2>1 DEF CacheTypeOK, callVars, listVars
  <2> QED BY <1>1, <2>1, <2>2 DEF CacheMoves, HandlerPc, CachePc, Handling, callVars
<1>10. CASE Crashes(t)
  <2>1. crashed' = TRUE /\ UNCHANGED <<pc, path, callVars, listVars, hashmap, created>>
    BY <1>10 DEF Crashes
  <2>2. CacheTypeOK'
    BY <1>1, <2>1 DEF CacheTypeOK, callVars, listVars
  <2>3. pc' = [pc EXCEPT ![t] = pc[t]]
    BY <1>2, <2>1
  <2> QED BY <1>2, <2>1, <2>2, <2>3 DEF CacheMoves, callVars
<1> QED BY <1>3, <1>4, <1>5, <1>6, <1>7, <1>8, <1>9, <1>10 DEF CacheCall

\* Observes keeps overlapped a Boolean value that never becomes false again.
LEMMA ObservesBoolean ==
  ASSUME TypeInv, Observes \/ \E t \in Thread : Renaming(t)
  PROVE  overlapped' \in BOOLEAN /\ (~overlapped' => ~overlapped /\ ~Meet')
<1>1. overlapped' = (overlapped \/ Meet') \/ overlapped' = (overlapped \/ Meet' \/ InStrtok # {})
  BY DEF Observes, Renaming
<1>2. overlapped' \in BOOLEAN
  BY <1>1, Zenon
<1>3. ~overlapped' => ~overlapped /\ ~Meet'
  BY <1>1, Zenon
<1> QED BY <1>2, <1>3

\* A step of thread t leaves the others where they are.
LEMMA ThreadMoves ==
  ASSUME TypeInv, NEW t \in Thread, NEW q \in HandlerPc, pc' = [pc EXCEPT ![t] = q],
         q \in Handling => node'[t] \in Node, \A u \in Thread \ {t} : node'[u] = node[u] \/ pc[u] \notin Handling,
         q # "idle" => path'[t] \in Path, \A u \in Thread \ {t} : path'[u] = path[u]
  PROVE  ThreadsTypeOK'
<1>1. t \in All /\ pc \in [All -> HandlerPc \cup OtherPc]
  BY Constants DEF TypeInv, ThreadsTypeOK
<1>2. pc'[t] = q /\ \A u \in All \ {t} : pc'[u] = pc[u]
  BY <1>1
<1>3. {Inserter, Flusher} \subseteq All \ {t} /\ \A u \in Thread \ {t} : u \in All \ {t}
  BY Constants
<1>4. pc' \in [All -> HandlerPc \cup OtherPc]
  BY <1>1
<1>5. pc'[Inserter] \in OtherPc /\ pc'[Flusher] \in OtherPc
  BY <1>2, <1>3 DEF TypeInv, ThreadsTypeOK
<1>6. ASSUME NEW u \in Thread
      PROVE /\ pc'[u] \in HandlerPc /\ (pc'[u] \in Handling => node'[u] \in Node)
            /\ (pc'[u] # "idle" => path'[u] \in Path)
  <2>1. CASE u = t
    BY <1>2, <2>1
  <2>2. CASE u # t
    BY <1>2, <1>3, <2>2 DEF TypeInv, ThreadsTypeOK
  <2> QED BY <2>1, <2>2
<1> QED BY <1>4, <1>5, <1>6 DEF ThreadsTypeOK

LEMMA CacheCallTypes ==
  ASSUME TypeInv, NEW t \in Thread, CacheCall(t), UNCHANGED <<trieVars, requestVars>>, Observes
  PROVE  TypeInv'
<1> PICK q \in HandlerPc : CacheMoves(t, q)
  BY CallMoves
<1>1. CacheTypeOK' /\ UNCHANGED path /\ pc' = [pc EXCEPT ![t] = q]
  BY DEF CacheMoves
<1>2. q # "idle" => path[t] \in Path
  <2>1. pc[t] # "idle"
    BY DEF CacheCall, get, put, Looks, UnlinkFront, UnlinkBack, Link, LinkHead, SetHead, SetTail, createNode, Inserts,
           InsertsBack, InsertsHead, BeginsCount, cacheSize, EndsCount, Evicts, Frees, Crashes, In, Go
  <2> QED BY <2>1 DEF TypeInv, ThreadsTypeOK
<1>3. ThreadsTypeOK'
  BY <1>1, <1>2, ThreadMoves DEF CacheMoves
<1>4. TrieTypeOK'
  BY DEF TypeInv, TrieTypeOK, trieVars
<1>5. RequestsTypeOK'
  <2>1. UNCHANGED <<path, op, found, wasMounted, calls>>
    BY <1>1 DEF requestVars
  <2>2. overlapped' \in BOOLEAN
    BY ObservesBoolean
  <2> QED BY <2>1, <2>2 DEF TypeInv, RequestsTypeOK
<1> QED BY <1>1, <1>3, <1>4, <1>5 DEF TypeInv

LEMMA MayBeginTypes ==
  ASSUME TypeInv, MayBegin
  PROVE  calls' \in 0 .. MaxCalls
<1>1. calls \in 0 .. MaxCalls /\ MaxCalls \in Nat
  BY MountAssumption DEF TypeInv, RequestsTypeOK
<1>2. CASE overlapped
  BY <1>1, <1>2 DEF MayBegin
<1>3. CASE ~overlapped
  BY <1>1, <1>3 DEF MayBegin
<1> QED BY <1>2, <1>3

\* What a request leaves, be it for a listing, for a look-up or for RENAME.
Begun(t, q, o, p) ==
  /\ pc[t] = "idle" /\ pc' = [pc EXCEPT ![t] = q] /\ q = (IF o = "LIST" THEN "walk" ELSE "get")
  /\ op' = [op EXCEPT ![t] = o] /\ path' = [path EXCEPT ![t] = p]
  /\ wasMounted' = [wasMounted EXCEPT ![t] = Mounted(p)]
  /\ MayBegin /\ UNCHANGED <<cacheVars, callVars, trie, handled, at, inserted, found>>
  /\ strtok' \in Seq(Name)

LEMMA RequestBegins ==
  ASSUME TypeInv, NEW t \in Thread, Requests(t) \/ RequestsRename(t)
  PROVE  \E q \in {"walk", "get"}, o \in {"RESOLVE", "LIST"}, p \in Path : Begun(t, q, o, p)
<1>1. CASE Requests(t)
  BY <1>1 DEF Requests, Begun, Go, trieVars, TypeInv, TrieTypeOK
<1>2. CASE RequestsRename(t)
  <2>1. PICK r \in Renames :
           /\ Go(t, "idle", "get") /\ op' = [op EXCEPT ![t] = "RESOLVE"]
           /\ path' = [path EXCEPT ![t] = r[1]] /\ strtok' = r[2]
           /\ wasMounted' = [wasMounted EXCEPT ![t] = Mounted(r[1])]
    BY <1>2 DEF RequestsRename
  <2>2. r[1] \in Path /\ r[2] \in Seq(Name)
    BY MountAssumption
  <2>3. Begun(t, "get", "RESOLVE", r[1])
    BY <1>2, <2>1, <2>2 DEF RequestsRename, Begun, Go
  <2> QED BY <2>2, <2>3
<1> QED BY <1>1, <1>2

LEMMA RequestsTypes ==
  ASSUME TypeInv, NEW t \in Thread, Requests(t) \/ RequestsRename(t), overlapped' \in BOOLEAN
  PROVE  TypeInv'
<1> PICK q \in {"walk", "get"}, o \in {"RESOLVE", "LIST"}, p \in Path : Begun(t, q, o, p)
  BY RequestBegins
<1>1. UNCHANGED <<cacheVars, callVars, trie, handled, at, inserted, found>> /\ MayBegin /\ strtok' \in Seq(Name)
  BY DEF Begun
<1>2. /\ pc' = [pc EXCEPT ![t] = q] /\ op' = [op EXCEPT ![t] = o] /\ path' = [path EXCEPT ![t] = p]
      /\ wasMounted' = [wasMounted EXCEPT ![t] = Mounted(p)]
  BY DEF Begun
<1>3. path \in [Thread -> Path \cup {<<>>}]
  BY DEF TypeInv, RequestsTypeOK
<1>4. ThreadsTypeOK'
  <2>1. q \in HandlerPc /\ q \notin Handling
    BY DEF HandlerPc, CachePc, Handling
  <2> QED BY <1>1, <1>2, <1>3, <2>1, ThreadMoves DEF callVars
<1>5. CacheTypeOK' /\ TrieTypeOK'
  BY <1>1 DEF TypeInv, CacheTypeOK, TrieTypeOK, cacheVars, listVars, callVars
<1>6. RequestsTypeOK'
  <2>1. Mounted(p) \in BOOLEAN
    BY DEF Mounted
  <2>2. wasMounted' \in [Thread -> BOOLEAN]
    BY <1>2, <2>1 DEF TypeInv, RequestsTypeOK
  <2>3. path' \in [Thread -> Path \cup {<<>>}] /\ op' \in [Thread -> {"RESOLVE", "LIST", "none"}]
    BY <1>2, <1>3 DEF TypeInv, RequestsTypeOK
  <2> QED BY <1>1, <2>2, <2>3, MayBeginTypes DEF TypeInv, RequestsTypeOK
<1> QED BY <1>4, <1>5, <1>6 DEF TypeInv

\* The steps of a client handler outside get and put.
WalkStep(t) ==
  \/ Hits(t) \/ Misses(t) \/ BeginsWalk(t) \/ FindsChild(t) \/ MissesChild(t) \/ EndsWalk(t)
  \/ Stores(t) \/ Answers(t)

LEMMA WalkTypes ==
  ASSUME TypeInv, NEW t \in Thread, WalkStep(t), Observes
  PROVE  TypeInv'
<1>1. /\ UNCHANGED cacheVars /\ UNCHANGED <<trie, handled, inserted, calls>>
      /\ \/ UNCHANGED callVars
         \/ /\ call' = [call EXCEPT ![t] = "none"] /\ node' = [node EXCEPT ![t] = NULL]
            /\ size' = [size EXCEPT ![t] = 0]
  BY DEF WalkStep, Hits, Misses, BeginsWalk, FindsChild, MissesChild, EndsWalk, Stores, Answers, trieVars, requestVars
<1>2. CacheTypeOK'
  <2>1. 0 \in 0 .. CACHE_SIZE + 1
    BY Constants
  <2>2. call' \in [Thread -> {"get", "put", "evict", "none"}]
    BY <1>1 DEF TypeInv, CacheTypeOK, callVars
  <2>3. node' \in [Thread -> Node \cup {NULL}] /\ size' \in [Thread -> 0 .. CACHE_SIZE + 1]
    BY <1>1, <2>1 DEF TypeInv, CacheTypeOK, callVars
  <2> QED BY <1>1, <2>2, <2>3 DEF TypeInv, CacheTypeOK, cacheVars, listVars
<1>3. TrieTypeOK'
  <2>1. strtok' \in Seq(Name)
    <3>1. pc[t] # "idle" => Tail(path[t]) \in Seq(Name)
      BY Constants DEF TypeInv, ThreadsTypeOK
    <3>2. strtok # <<>> => Tail(strtok) \in Seq(Name)
      BY DEF TypeInv, TrieTypeOK
    <3>3. pc[t] = "walk" => pc[t] # "idle"
      OBVIOUS
    <3> QED BY <3>1, <3>2, <3>3 DEF WalkStep, Hits, Misses, BeginsWalk, FindsChild, MissesChild, EndsWalk, Stores, Answers,
           trieVars, TypeInv, TrieTypeOK, Go
  <2>2. at' \in [All -> trie]
    BY Constants DEF WalkStep, Hits, Misses, BeginsWalk, FindsChild, MissesChild, EndsWalk, Stores, Answers,
           trieVars, TypeInv, TrieTypeOK
  <2> QED BY <1>1, <2>1, <2>2 DEF TypeInv, TrieTypeOK
<1>4. RequestsTypeOK'
  <2>1. path' \in [Thread -> Path \cup {<<>>}] /\ op' \in [Thread -> {"RESOLVE", "LIST", "none"}]
    BY DEF WalkStep, Hits, Misses, BeginsWalk, FindsChild, MissesChild, EndsWalk, Stores, Answers,
           trieVars, requestVars, TypeInv, RequestsTypeOK
  <2>2. \A b \in BOOLEAN : [found EXCEPT ![t] = b] \in [Thread -> BOOLEAN]
    BY DEF TypeInv, RequestsTypeOK
  <2>3. \E b \in BOOLEAN : found' = found \/ found' = [found EXCEPT ![t] = b]
    BY DEF WalkStep, Hits, Misses, BeginsWalk, FindsChild, MissesChild, EndsWalk, Stores, Answers, requestVars
  <2>4. found' \in [Thread -> BOOLEAN]
    BY <2>2, <2>3 DEF TypeInv, RequestsTypeOK
  <2>5. wasMounted' \in [Thread -> BOOLEAN]
    <3>1. wasMounted' = wasMounted \/ wasMounted' = [wasMounted EXCEPT ![t] = FALSE]
      BY DEF WalkStep, Hits, Misses, BeginsWalk, FindsChild, MissesChild, EndsWalk, Stores, Answers, requestVars
    <3> QED BY <3>1 DEF TypeInv, RequestsTypeOK
  <2> QED BY <1>1, <2>1, <2>4, <2>5, ObservesBoolean DEF TypeInv, RequestsTypeOK
<1>5. ThreadsTypeOK'
  <2>1. PICK q \in HandlerPc : /\ pc' = [pc EXCEPT ![t] = q] /\ q \notin Handling
                               /\ q # "idle" => path' = path /\ pc[t] # "idle"
    <3>1. CASE FindsChild(t)
      <4>1. pc' = [pc EXCEPT ![t] = "round"] /\ path' = path /\ pc[t] = "round"
        BY <3>1, Constants DEF FindsChild, TypeInv, ThreadsTypeOK
      <4> QED BY <4>1 DEF HandlerPc, Handling, CachePc
    <3>2. CASE ~FindsChild(t)
      <4>1. \E q \in {"answer", "walk", "round", "put", "idle"} :
              pc' = [pc EXCEPT ![t] = q] /\ (q # "idle" => path' = path /\ pc[t] # "idle")
        BY <3>2 DEF WalkStep, Hits, Misses, BeginsWalk, MissesChild, EndsWalk, Stores, Answers, Go
      <4> QED BY <4>1 DEF HandlerPc, Handling, CachePc
    <3> QED BY <3>1, <3>2
  <2>2. \A u \in Thread \ {t} : node'[u] = node[u]
    BY <1>1 DEF TypeInv, CacheTypeOK, callVars
  <2>3. \A u \in Thread \ {t} : path'[u] = path[u]
    BY DEF WalkStep, Hits, Misses, BeginsWalk, FindsChild, MissesChild, EndsWalk, Stores, Answers,
           trieVars, requestVars, TypeInv, RequestsTypeOK
  <2>4. q # "idle" => path'[t] \in Path
    BY <2>1 DEF TypeInv, ThreadsTypeOK
  <2> QED BY <2>1, <2>2, <2>3, <2>4, ThreadMoves
<1> QED BY <1>2, <1>3, <1>4, <1>5 DEF TypeInv

\* What the steps of the storage-server handler have in common.
LEMMA InserterMoves ==
  ASSUME TypeInv, Inserts_Path
  PROVE  /\ \E q \in OtherPc : pc' = [pc EXCEPT ![Inserter] = q]
         /\ UNCHANGED <<path, cacheVars, callVars, op, found, wasMounted>> /\ Observes
         /\ \A t \in Thread : pc'[t] = pc[t]
<1>1. UNCHANGED <<path, cacheVars, callVars, op, found, wasMounted>> /\ Observes
  BY DEF Inserts_Path, InsertsNext, GoesToChild, LinksChild, SetsHandle, EndsInsert, requestVars
<1>2. \E q \in OtherPc : pc' = [pc EXCEPT ![Inserter] = q]
  <2>1. CASE GoesToChild
    <3>1. pc' = [pc EXCEPT ![Inserter] = pc[Inserter]]
      BY <2>1 DEF GoesToChild, TypeInv, ThreadsTypeOK
    <3> QED BY <3>1 DEF TypeInv, ThreadsTypeOK
  <2>2. CASE ~GoesToChild
    BY <2>2 DEF Inserts_Path, InsertsNext, LinksChild, SetsHandle, EndsInsert, Go, OtherPc
  <2> QED BY <2>1, <2>2
<1>3. \A t \in Thread : pc'[t] = pc[t]
  BY <1>2, Constants DEF TypeInv, ThreadsTypeOK
<1> QED BY <1>1, <1>2, <1>3

LEMMA ChildOfNode ==
  ASSUME TypeInv, NEW t \in All, strtok # <<>>
  PROVE  /\ Child(t) \in Seq(Name) /\ Len(Child(t)) = Len(at[t]) + 1 /\ Child(t) # <<>>
         /\ SubSeq(Child(t), 1, Len(Child(t)) - 1) = at[t]
<1> PICK n \in Seq(Name), x \in Name : n = at[t] /\ x = Head(strtok) /\ Child(t) = Append(n, x)
  BY DEF TypeInv, TrieTypeOK, Child
<1>1. Append(n, x) \in Seq(Name) /\ Len(Append(n, x)) = Len(n) + 1 /\ Append(n, x) # <<>>
  OBVIOUS
<1>2. SubSeq(Append(n, x), 1, Len(n)) = n
  OBVIOUS
<1>3. (Len(n) + 1) - 1 = Len(n)
  OBVIOUS
<1> QED BY <1>1, <1>2, <1>3

LEMMA InserterTypes ==
  ASSUME TypeInv, Inserts_Path
  PROVE  TypeInv'
<1> PICK q \in OtherPc : pc' = [pc EXCEPT ![Inserter] = q]
  BY InserterMoves
<1>1. /\ UNCHANGED <<path, cacheVars, callVars, op, found, wasMounted>> /\ Observes
      /\ \A t \in Thread : pc'[t] = pc[t]
  BY InserterMoves
<1>2. CacheTypeOK'
  BY <1>1 DEF TypeInv, CacheTypeOK, cacheVars, listVars, callVars
<1>3. ThreadsTypeOK'
  BY <1>1, Constants DEF TypeInv, ThreadsTypeOK, callVars
<1>4. RequestsTypeOK'
  <2>1. calls' \in 0 .. MaxCalls
    <3>1. CASE InsertsNext
      BY <3>1, MayBeginTypes DEF InsertsNext
    <3>2. CASE ~InsertsNext
      BY <3>2 DEF Inserts_Path, GoesToChild, LinksChild, SetsHandle, EndsInsert, requestVars, TypeInv, RequestsTypeOK
    <3> QED BY <3>1, <3>2
  <2> QED BY <1>1, <2>1, ObservesBoolean DEF TypeInv, RequestsTypeOK
<1>5. TrieTypeOK'
  <2>1. /\ strtok \in Seq(Name) /\ trie \subseteq Seq(Name) /\ <<>> \in trie /\ at \in [All -> trie] /\ Inserter \in All
        /\ \A n \in trie : n = <<>> \/ SubSeq(n, 1, Len(n) - 1) \in trie
        /\ handled \subseteq trie /\ inserted \in 0 .. Len(MountPaths) /\ Len(MountPaths) \in Nat
    BY Constants, LenProperties DEF TypeInv, TrieTypeOK
  <2>2. strtok # <<>> => Tail(strtok) \in Seq(Name)
    BY <2>1
  <2>3. CASE InsertsNext
    <3>1. inserted + 1 \in 1 .. Len(MountPaths)
      BY <2>1, <2>3 DEF InsertsNext
    <3>2. inserted' \in 0 .. Len(MountPaths) /\ strtok' \in Seq(Name)
      BY <2>1, <2>3, <3>1, Constants DEF InsertsNext
    <3>3. at' \in [All -> trie] /\ UNCHANGED <<trie, handled>>
      BY <2>1, <2>3 DEF InsertsNext
    <3> QED BY <2>1, <3>2, <3>3 DEF TrieTypeOK
  <2>4. CASE GoesToChild
    BY <2>1, <2>2, <2>4 DEF GoesToChild, TrieTypeOK
  <2>5. CASE LinksChild
    <3> PICK c \in Seq(Name) : c = Child(Inserter) /\ SubSeq(c, 1, Len(c) - 1) = at[Inserter]
      BY <2>1, <2>5, ChildOfNode DEF LinksChild
    <3>1. /\ trie' = trie \cup {c} /\ at' = [at EXCEPT ![Inserter] = c] /\ strtok' \in Seq(Name)
          /\ UNCHANGED <<handled, inserted>>
      BY <2>2, <2>5 DEF LinksChild
    <3>2. \A n \in trie' : n = <<>> \/ SubSeq(n, 1, Len(n) - 1) \in trie'
      BY <2>1, <3>1
    <3>3. at' \in [All -> trie']
      BY <2>1, <3>1
    <3> QED BY <2>1, <3>1, <3>2, <3>3 DEF TrieTypeOK
  <2>6. CASE SetsHandle \/ EndsInsert
    <3>1. handled' = handled \cup {at[Inserter]} /\ UNCHANGED <<strtok, trie, at, inserted>>
      BY <2>6 DEF SetsHandle, EndsInsert
    <3> QED BY <2>1, <3>1 DEF TrieTypeOK
  <2> QED BY <2>3, <2>4, <2>5, <2>6 DEF Inserts_Path
<1> QED BY <1>2, <1>3, <1>4, <1>5 DEF TypeInv

\* What the steps of the log flusher have in common.
LEMMA FlusherMoves ==
  ASSUME TypeInv, Flushes
  PROVE  /\ \E q \in {"sleep", "flush"} : pc' = [pc EXCEPT ![Flusher] = q]
         /\ UNCHANGED <<path, listVars, hashmap, created, callVars, trie, handled, at, inserted, requestVars>>
         /\ Observes /\ strtok' = <<>> /\ crashed' \in BOOLEAN
         /\ strtok \in trie => crashed' = crashed
         /\ pc[Flusher] # "flush" => crashed' = crashed
         /\ \A t \in All \ {Flusher} : pc'[t] = pc[t]
         /\ Flusher \in InStrtok \/ Flusher \in InStrtok'
<1>1. pc \in [All -> HandlerPc \cup OtherPc] /\ Flusher \in All /\ crashed \in BOOLEAN
  BY Constants DEF TypeInv, ThreadsTypeOK, CacheTypeOK
<1>2. CASE BeginsFlush
  BY <1>1, <1>2 DEF Flushes, BeginsFlush, Go, cacheVars, InStrtok
<1>3. CASE EndsFlush
  <2>1. crashed = FALSE
    BY <1>1 DEF Flushes, Observes
  <2> QED BY <1>1, <1>3, <2>1 DEF Flushes, EndsFlush, Go, InStrtok
<1> QED BY <1>2, <1>3 DEF Flushes

LEMMA FlusherTypes ==
  ASSUME TypeInv, Flushes
  PROVE  TypeInv'
<1> PICK q \in {"sleep", "flush"} : pc' = [pc EXCEPT ![Flusher] = q]
  BY FlusherMoves
<1>1. /\ UNCHANGED <<path, listVars, hashmap, created, callVars, trie, handled, at, inserted, requestVars>>
      /\ Observes /\ strtok' = <<>> /\ crashed' \in BOOLEAN
  BY FlusherMoves
<1>2. CacheTypeOK' /\ TrieTypeOK'
  BY <1>1 DEF TypeInv, CacheTypeOK, TrieTypeOK, listVars, callVars
<1>3. ThreadsTypeOK'
  <2>1. q \in OtherPc /\ \A t \in Thread \cup {Inserter} : pc'[t] = pc[t]
    BY Constants DEF TypeInv, ThreadsTypeOK, OtherPc
  <2> QED BY <1>1, <2>1, Constants DEF TypeInv, ThreadsTypeOK, callVars
<1>4. RequestsTypeOK'
  BY <1>1, ObservesBoolean DEF TypeInv, RequestsTypeOK, requestVars
<1> QED BY <1>2, <1>3, <1>4 DEF TypeInv

LEMMA TypesStep == TypeInv /\ [Next]_vars => TypeInv'
<1> SUFFICES ASSUME TypeInv, [Next]_vars PROVE TypeInv'
  OBVIOUS
<1>1. ASSUME NEW t \in Thread, (Requests(t) /\ Observes) \/ Renaming(t) PROVE TypeInv'
  <2>1. overlapped' \in BOOLEAN /\ (Requests(t) \/ RequestsRename(t))
    BY <1>1, ObservesBoolean DEF Renaming
  <2> QED BY <2>1, RequestsTypes
<1>2. ASSUME NEW t \in Thread, Resolves(t) PROVE TypeInv'
  BY <1>2, CacheCallTypes, WalkTypes DEF Resolves, WalkStep
<1>3. CASE UNCHANGED vars
  BY <1>3 DEF vars, TypeInv, CacheTypeOK, ThreadsTypeOK, TrieTypeOK, RequestsTypeOK, cacheVars, listVars, callVars, trieVars,
              requestVars
<1> QED BY <1>1, <1>2, <1>3, InserterTypes, FlusherTypes DEF Next

(* Every variable has its type, also after threads have met in the cache:  *)
(* whoever follows a pointer of a node has one, and a walk stays in the    *)
(* trie.                                                                   *)
THEOREM TypeCorrectness == Spec => []TypeOK
<1>1. TypeInv => TypeOK
  <2> SUFFICES ASSUME TypeInv PROVE TypeOK
    OBVIOUS
  <2>1. \A t \in All : at[t] \in trie
    BY DEF TypeInv, TrieTypeOK
  <2> QED BY <2>1 DEF TypeInv, TrieTypeOK, RequestsTypeOK, TypeOK
<1> QED BY <1>1, InitTypes, TypesStep, PTL DEF Spec

(* Two threads that are inside at once have met, and so there are none;    *)
(* and so nobody puts names there for the log flusher to walk on with.     *)
Alone ==
  /\ IsFiniteSet(InCache) /\ IsFiniteSet(InStrtok)
  /\ ~overlapped => /\ \A t, u \in InCache : t = u
                    /\ \A t, u \in InStrtok : t = u
                    /\ pc[Flusher] = "flush" => strtok = <<>>

LEMMA AtMostOne ==
  ASSUME NEW S, IsFiniteSet(S), ~(Cardinality(S) > 1)
  PROVE  \A t, u \in S : t = u
<1> SUFFICES ASSUME NEW t \in S, NEW u \in S, t # u PROVE FALSE
  OBVIOUS
<1>1. Cardinality({t, u}) = 2
  <2>1. Cardinality({t}) = 1 /\ IsFiniteSet({t})
    BY FS_Singleton
  <2>2. Cardinality({t} \cup {u}) = Cardinality({t}) + 1
    BY <2>1, FS_AddElement
  <2>3. {t, u} = {t} \cup {u}
    OBVIOUS
  <2> QED BY <2>1, <2>2, <2>3
<1>2. Cardinality({t, u}) <= Cardinality(S) /\ Cardinality(S) \in Nat
  <2>1. {t, u} \in SUBSET S
    OBVIOUS
  <2> QED BY <2>1, FS_Subset, FS_CardinalityType
<1> QED BY <1>1, <1>2

\* Every step moves one thread at most.
LEMMA OneMoves ==
  ASSUME TypeInv, Next
  PROVE  \E t \in All : \A u \in All \ {t} : pc'[u] = pc[u]
<1>1. pc \in [All -> HandlerPc \cup OtherPc] /\ Thread \subseteq All /\ Inserter \in All
  BY Constants DEF TypeInv, ThreadsTypeOK
<1>2. ASSUME NEW t \in Thread, Requests(t) \/ RequestsRename(t) PROVE \A u \in All \ {t} : pc'[u] = pc[u]
  BY <1>1, <1>2, RequestBegins DEF Begun
<1>3. ASSUME NEW t \in Thread, CacheCall(t) PROVE \A u \in All \ {t} : pc'[u] = pc[u]
  BY <1>1, <1>3, CallMoves DEF CacheMoves
<1>4. ASSUME NEW t \in Thread, WalkStep(t) PROVE \A u \in All \ {t} : pc'[u] = pc[u]
  BY <1>1, <1>4 DEF WalkStep, Hits, Misses, BeginsWalk, FindsChild, MissesChild, EndsWalk, Stores, Answers, Go
<1>5. Inserts_Path => \A u \in All \ {Inserter} : pc'[u] = pc[u]
  <2> SUFFICES ASSUME Inserts_Path PROVE \A u \in All \ {Inserter} : pc'[u] = pc[u]
    OBVIOUS
  <2> PICK q \in OtherPc : pc' = [pc EXCEPT ![Inserter] = q]
    BY InserterMoves
  <2> QED BY <1>1
<1>6. Flushes => \A u \in All \ {Flusher} : pc'[u] = pc[u]
  BY FlusherMoves
<1> QED BY <1>1, <1>2, <1>3, <1>4, <1>5, <1>6, Constants DEF Next, Resolves, WalkStep, Renaming

\* Every step notices when threads meet.
LEMMA NextObserves ==
  ASSUME TypeInv, Next
  PROVE  overlapped' \in BOOLEAN /\ (~overlapped' => ~overlapped /\ ~Meet')
<1>1. Observes \/ \E t \in Thread : Renaming(t)
  BY DEF Next, Resolves, Inserts_Path, Flushes
<1> QED BY <1>1, ObservesBoolean

\* Only a thread inside strtok changes what it will return, or a RENAME that meets none.
LEMMA StrtokStays ==
  ASSUME TypeInv, Next, ~overlapped', NEW f \in InStrtok, f \in InStrtok', \A t \in InStrtok' : t = f,
         \A t \in InStrtok : t = f, f = Flusher
  PROVE  strtok' = strtok \/ strtok' = <<>>
<1>1. pc \in [All -> HandlerPc \cup OtherPc] /\ Thread \subseteq All /\ {Inserter, Flusher} \subseteq All
  BY Constants DEF TypeInv, ThreadsTypeOK
<1>2. ASSUME NEW t \in Thread, Requests(t) PROVE strtok' = strtok
  BY <1>2 DEF Requests, trieVars
<1>3. ASSUME NEW t \in Thread, Renaming(t) PROVE FALSE
  <2>1. overlapped' = (overlapped \/ Meet' \/ InStrtok # {})
    BY <1>3 DEF Renaming
  <2>2. InStrtok # {}
    OBVIOUS
  <2> QED BY <2>1, <2>2, Zenon
<1>4. ASSUME NEW t \in Thread, Resolves(t) PROVE strtok' = strtok
  <2>1. t \notin InStrtok /\ t \notin InStrtok'
    BY Constants
  <2>2. ~(BeginsWalk(t) \/ FindsChild(t) \/ MissesChild(t) \/ EndsWalk(t))
    BY <1>1, <2>1 DEF InStrtok, BeginsWalk, FindsChild, MissesChild, EndsWalk, Go
  <2> QED BY <1>4, <2>2 DEF Resolves, trieVars, Hits, Misses, Stores, Answers
<1>5. ~Inserts_Path
  <2>1. Inserter \notin InStrtok /\ Inserter \notin InStrtok'
    BY Constants
  <2> QED BY <1>1, <2>1 DEF InStrtok, Inserts_Path, InsertsNext, GoesToChild, LinksChild, SetsHandle, EndsInsert, Go
<1>6. Flushes => strtok' = <<>>
  BY FlusherMoves
<1> QED BY <1>2, <1>3, <1>4, <1>5, <1>6 DEF Next

LEMMA AloneStep == TypeInv /\ Alone /\ [Next]_vars => Alone'
<1> SUFFICES ASSUME TypeInv, Alone, [Next]_vars PROVE Alone'
  OBVIOUS
<1>1. CASE UNCHANGED vars
  BY <1>1 DEF vars, Alone, InCache, InStrtok, trieVars
<1>2. CASE Next
  <2> PICK t \in All : \A u \in All \ {t} : pc'[u] = pc[u]
    BY <1>2, OneMoves
  <2>1. InCache' \subseteq InCache \cup {t} /\ InStrtok' \subseteq InStrtok \cup {t}
    BY Constants DEF InCache, InStrtok
  <2>2. IsFiniteSet(InCache \cup {t}) /\ IsFiniteSet(InStrtok \cup {t})
    BY FS_AddElement DEF Alone
  <2>3. IsFiniteSet(InCache') /\ IsFiniteSet(InStrtok')
    BY <2>1, <2>2, FS_Subset
  <2>4. ~overlapped' => ~overlapped /\ ~Meet'
    BY <1>2, NextObserves
  <2>5. ASSUME ~overlapped' PROVE ~(Cardinality(InCache') > 1) /\ ~(Cardinality(InStrtok') > 1)
    BY <2>4, <2>5 DEF Meet
  <2>6. ASSUME ~overlapped' PROVE (\A u, v \in InCache' : u = v) /\ (\A u, v \in InStrtok' : u = v)
    BY <2>3, <2>5, <2>6, AtMostOne
  <2>7. ASSUME ~overlapped', pc'[Flusher] = "flush" PROVE strtok' = <<>>
    <3>1. Flusher \in InStrtok' /\ \A u \in InStrtok' : u = Flusher
      BY <2>6, <2>7, Constants DEF InStrtok
    <3>2. CASE pc[Flusher] = "flush"
      <4>1. Flusher \in InStrtok /\ strtok = <<>> /\ \A u \in InStrtok : u = Flusher
        BY <2>4, <2>7, <3>2, Constants DEF InStrtok, Alone
      <4> QED BY <1>2, <2>7, <3>1, <4>1, StrtokStays
    <3>3. CASE pc[Flusher] # "flush"
      <4>1. Flushes
        <5>1. ASSUME NEW u \in Thread, Requests(u) \/ RequestsRename(u) \/ CacheCall(u) \/ WalkStep(u)
              PROVE  pc'[Flusher] = pc[Flusher]
          <6>1. pc \in [All -> HandlerPc \cup OtherPc] /\ Flusher \in All /\ u # Flusher
            BY Constants DEF TypeInv, ThreadsTypeOK
          <6>2. CASE Requests(u) \/ RequestsRename(u)
            BY <6>1, <6>2, RequestBegins DEF Begun
          <6>3. CASE CacheCall(u)
            BY <6>1, <6>3, CallMoves DEF CacheMoves
          <6>4. CASE WalkStep(u)
            BY <6>1, <6>4 DEF WalkStep, Hits, Misses, BeginsWalk, FindsChild, MissesChild, EndsWalk, Stores, Answers, Go
          <6> QED BY <5>1, <6>2, <6>3, <6>4
        <5>2. Inserts_Path => pc'[Flusher] = pc[Flusher]
          BY InserterMoves, Constants DEF TypeInv, ThreadsTypeOK
        <5> QED BY <1>2, <2>7, <3>3, <5>1, <5>2 DEF Next, Renaming, Resolves, WalkStep
      <4> QED BY <4>1, FlusherMoves
    <3> QED BY <3>2, <3>3
  <2> QED BY <2>3, <2>6, <2>7 DEF Alone
<1> QED BY <1>1, <1>2

LEMMA InitAlone == Init => Alone
<1> SUFFICES ASSUME Init PROVE Alone
  OBVIOUS
<1>1. InCache = {} /\ InStrtok = {}
  BY Constants DEF Init, InCache, InStrtok
<1>2. pc[Flusher] = "sleep"
  BY Constants DEF Init
<1> QED BY <1>1, <1>2, FS_EmptySet DEF Alone

-----------------------------------------------------------------------------
(* Answers                                                                 *)

PutPc == {"put", "create", "insert", "insertBack", "insertHead", "count", "cacheSize", "evict", "free", "stored"}
MovePc == {"unlinkFront", "unlinkBack", "link", "linkHead", "setHead", "setTail"}

Walked(t) == Tail(path[t]) = at[t] \o strtok
MountedAt(b) == \E p \in Path : Bucket[p] = b /\ Mounted(p)

(* What a handler has found, or is about to find, agrees with the trie: it *)
(* walks down its own path, and puts into the cache only what is mounted.  *)
AnswerOf(t) ==
  /\ wasMounted[t] => Mounted(path[t])
  /\ op[t] = "LIST" => pc[t] \in {"walk", "round", "answer"}
  /\ pc[t] = "round" => Walked(t)
  /\ pc[t] \in {"put", "create"} => Mounted(path[t])
  /\ pc[t] \in PutPc \/ (pc[t] \in MovePc /\ call[t] # "get") => found[t]
  /\ pc[t] \in PutPc \cup MovePc \cup {"hit"} => MountedAt(Bucket[path[t]])
  /\ pc[t] = "answer" =>
       /\ wasMounted[t] => found[t]
       /\ found[t] /\ op[t] = "LIST" => Tail(path[t]) \in trie
       /\ found[t] /\ op[t] = "RESOLVE" => MountedAt(Bucket[path[t]])

TableMounted == \A b \in 1 .. CACHE_SIZE : hashmap[b] # NULL => MountedAt(b)

AnswerInv == ~overlapped => TableMounted /\ \A t \in Thread : AnswerOf(t)

LEMMA InitAnswer == Init => AnswerInv
<1> SUFFICES ASSUME Init PROVE AnswerInv
  OBVIOUS
<1>1. TableMounted
  BY DEF Init, createCache, TableMounted
<1>2. ASSUME NEW t \in Thread PROVE AnswerOf(t)
  <2>1. pc[t] = "idle" /\ op[t] = "none" /\ wasMounted[t] = FALSE
    BY Constants DEF Init
  <2> QED BY <2>1 DEF AnswerOf, PutPc, MovePc
<1> QED BY <1>1, <1>2 DEF AnswerInv

\* What is mounted stays so.
LEMMA StaysMounted ==
  ASSUME handled \subseteq handled'
  PROVE  /\ \A p \in Path : Mounted(p) => Mounted(p)'
         /\ \A b : MountedAt(b) => MountedAt(b)'
  BY DEF Mounted, MountedAt

LEMMA MinimalOf ==
  ASSUME NEW R, IsWellFoundedOn(R, Nat), NEW T, T \subseteq Nat, T # {}
  PROVE  \E m \in T : \A k \in T : <<k, m>> \notin R
  BY WFMin

LEMMA SomeOrder == \E R : IsWellFoundedOn(R, Nat) /\ \A k, m \in Nat : k < m => <<k, m>> \in R
<1>1. IsWellFoundedOn(OpToRel(<, Nat), Nat)
  BY NatLessThanWellFounded, Zenon
<1>2. \A k, m \in Nat : k < m => <<k, m>> \in OpToRel(<, Nat)
  BY DEF OpToRel
<1> QED BY <1>1, <1>2, Zenon

\* Every set of natural numbers that is not empty has a least one.
LEMMA LeastNumber ==
  ASSUME NEW T, T \subseteq Nat, T # {}
  PROVE  \E m \in T : \A k \in T : m <= k
<1>1. PICK R : IsWellFoundedOn(R, Nat) /\ \A k, m \in Nat : k < m => <<k, m>> \in R
  BY SomeOrder
<1>2. PICK m \in T : \A k \in T : <<k, m>> \notin R
  BY <1>1, MinimalOf
<1>3. \A k \in T : ~(k < m)
  BY <1>1, <1>2
<1> QED BY <1>3

LEMMA PrefixInTrie ==
  ASSUME NEW S, NEW T, T \subseteq Seq(S), \A q \in T : q = <<>> \/ SubSeq(q, 1, Len(q) - 1) \in T,
         NEW p \in T, NEW j \in 0 .. Len(p)
  PROVE  SubSeq(p, 1, j) \in T
<1> PICK n \in Nat : n = Len(p) /\ p \in Seq(S)
  BY LenProperties
<1> DEFINE P == {k \in 0 .. n : \A i \in k .. n : SubSeq(p, 1, i) \in T}
<1>1. n \in P
  <2>1. SubSeq(p, 1, n) = p
    OBVIOUS
  <2>2. \A i \in n .. n : SubSeq(p, 1, i) \in T
    <3>1. \A i \in n .. n : i = n
      OBVIOUS
    <3> QED BY <2>1, <3>1, Zenon
  <2>3. n \in 0 .. n
    OBVIOUS
  <2> QED BY <2>2, <2>3
<1>2. P \subseteq Nat
  OBVIOUS
<1>3. PICK m \in P : \A k \in P : m <= k
  <2> HIDE DEF P
  <2> QED BY <1>1, <1>2, LeastNumber
<1>4. m \in 0 .. n /\ \A i \in m .. n : SubSeq(p, 1, i) \in T
  BY <1>3
<1>5. m = 0
  <2> SUFFICES ASSUME m # 0 PROVE FALSE
    OBVIOUS
  <2>1. m - 1 \in 0 .. n /\ m > 0
    BY <1>4
  <2>2. SubSeq(p, 1, m) \in T /\ SubSeq(p, 1, m) \in Seq(S) /\ Len(SubSeq(p, 1, m)) = m
    BY <1>4, <2>1
  <2>3. SubSeq(SubSeq(p, 1, m), 1, m - 1) \in T
    <3>1. SubSeq(p, 1, m) # <<>>
      BY <2>1, <2>2
    <3> QED BY <2>2, <3>1
  <2>4. SubSeq(SubSeq(p, 1, m), 1, m - 1) = SubSeq(p, 1, m - 1)
    BY <1>4, <2>1
  <2>5. m - 1 \in P
    <3>1. \A i \in m - 1 .. n : i = m - 1 \/ i \in m .. n
      BY <1>4
    <3> QED BY <1>4, <2>1, <2>3, <2>4, <3>1
  <2>6. m <= m - 1
    BY <1>3, <2>5
  <2> QED BY <1>4, <2>6
<1> QED BY <1>4, <1>5

\* The rest of a path, with one name moved to the node that it has come to.
LEMMA MoveOne ==
  ASSUME NEW S, NEW s \in Seq(S), NEW r \in Seq(S), r # <<>>
  PROVE  /\ Append(s, Head(r)) \o Tail(r) = s \o r
         /\ Append(s, Head(r)) = SubSeq(s \o r, 1, Len(s) + 1) /\ Len(s) + 1 \in 0 .. Len(s \o r)
<1> PICK m \in Nat, n \in Nat : m = Len(s) /\ n = Len(r) /\ n >= 1
  BY EmptySeq, LenProperties
<1>1. /\ s \o r \in Seq(S) /\ Len(s \o r) = m + n
      /\ \A i \in 1 .. m + n : (s \o r)[i] = IF i <= m THEN s[i] ELSE r[i - m]
  BY ConcatProperties
<1> PICK a \in Seq(S) : /\ a = Append(s, Head(r)) /\ Len(a) = m + 1
                        /\ \A i \in 1 .. m + 1 : a[i] = IF i <= m THEN s[i] ELSE r[1]
  <2>1. Head(r) \in S /\ Head(r) = r[1]
    OBVIOUS
  <2>2. /\ Append(s, Head(r)) \in Seq(S) /\ Len(Append(s, Head(r))) = m + 1
        /\ \A i \in 1 .. m : Append(s, Head(r))[i] = s[i]
        /\ Append(s, Head(r))[m + 1] = r[1]
    BY <2>1, AppendProperties
  <2>3. \A i \in 1 .. m + 1 : i \in 1 .. m \/ i = m + 1
    OBVIOUS
  <2>4. \A i \in 1 .. m + 1 : Append(s, Head(r))[i] = IF i <= m THEN s[i] ELSE r[1]
    BY <2>2, <2>3
  <2> QED BY <2>2, <2>4
<1> PICK b \in Seq(S) : b = Tail(r) /\ Len(b) = n - 1 /\ \A i \in 1 .. n - 1 : b[i] = r[i + 1]
  <2>1. /\ Tail(r) \in Seq(S) /\ Len(Tail(r)) = n - 1
        /\ \A i \in 1 .. n - 1 : Tail(r)[i] = r[i + 1]
    BY HeadTailProperties
  <2> QED BY <2>1
<1>2. /\ a \o b \in Seq(S) /\ Len(a \o b) = m + n
      /\ \A i \in 1 .. m + n : (a \o b)[i] = IF i <= m + 1 THEN a[i] ELSE b[i - (m + 1)]
  BY ConcatProperties
<1>3. \A i \in 1 .. m + n : (a \o b)[i] = (s \o r)[i]
  <2> SUFFICES ASSUME NEW i \in 1 .. m + n PROVE (a \o b)[i] = (s \o r)[i]
    OBVIOUS
  <2>1. CASE i <= m
    BY <1>1, <1>2, <2>1
  <2>2. CASE i = m + 1
    BY <1>1, <1>2, <2>2
  <2>3. CASE i > m + 1
    <3>1. i - (m + 1) \in 1 .. n - 1 /\ (i - (m + 1)) + 1 = i - m
      BY <2>3
    <3> QED BY <1>1, <1>2, <2>3, <3>1
  <2> QED BY <2>1, <2>2, <2>3
<1>4. a \o b = s \o r
  BY <1>1, <1>2, <1>3
<1>5. a = SubSeq(s \o r, 1, m + 1)
  <2> PICK c \in Seq(S) : c = s \o r /\ Len(c) = m + n /\ \A i \in 1 .. m + n : c[i] = IF i <= m THEN s[i] ELSE r[i - m]
    BY <1>1
  <2>1. /\ SubSeq(c, 1, m + 1) \in Seq(S) /\ Len(SubSeq(c, 1, m + 1)) = m + 1
        /\ \A i \in 1 .. m + 1 : SubSeq(c, 1, m + 1)[i] = c[i]
    OBVIOUS
  <2>2. \A i \in 1 .. m + 1 : c[i] = a[i]
    OBVIOUS
  <2> QED BY <2>1, <2>2
<1> QED BY <1>1, <1>4, <1>5

\* A handler that a step of another thread has nothing to do with.
LEMMA AnswerStays ==
  ASSUME NEW t \in Thread, AnswerOf(t), pc'[t] = pc[t], path'[t] = path[t], op'[t] = op[t],
         wasMounted'[t] = wasMounted[t], found'[t] = found[t], call'[t] = call[t],
         handled \subseteq handled', trie \subseteq trie',
         pc[t] = "round" => at'[t] = at[t] /\ strtok' = strtok
  PROVE  AnswerOf(t)'
<1>1. Mounted(path[t]) => Mounted(path[t])'
  BY DEF Mounted
<1>2. MountedAt(Bucket[path[t]]) => MountedAt(Bucket[path[t]])'
  BY DEF MountedAt, Mounted
<1>3. Mounted(path[t])' <=> Tail(path[t]) \in handled'
  BY DEF Mounted
<1>4. MountedAt(Bucket[path[t]])' <=> \E p \in Path : Bucket[p] = Bucket[path[t]] /\ Tail(p) \in handled'
  BY DEF MountedAt, Mounted
<1> QED BY <1>1, <1>2, <1>3, <1>4 DEF AnswerOf, Walked

Answered == TableMounted /\ \A t \in Thread : AnswerOf(t)

LEMMA CacheCallAnswer ==
  ASSUME TypeInv, Answered, NEW t \in Thread, CacheCall(t), UNCHANGED <<trieVars, requestVars>>
  PROVE  Answered'
<1>1. /\ t \in All /\ (Bucket[path[t]] \in 1 .. CACHE_SIZE \/ pc[t] = "idle")
      /\ pc \in [All -> HandlerPc \cup OtherPc] /\ AnswerOf(t) /\ TableMounted
      /\ call \in [Thread -> {"get", "put", "evict", "none"}]
  BY Constants DEF TypeInv, ThreadsTypeOK, CacheTypeOK, Answered
<1>2. UNCHANGED <<path, op, found, wasMounted, strtok, trie, handled, at>>
  <2>1. UNCHANGED path
    BY CallMoves DEF CacheMoves
  <2> QED BY <2>1 DEF trieVars, requestVars
<1> USE DEF Go, In
<1>3. TableMounted'
  <2>1. CASE createNode(t)
    <3>1. pc[t] = "create" /\ \E n \in Node : key(n) = Bucket[path[t]] /\ hashmap' = [hashmap EXCEPT ![key(n)] = n]
      BY <2>1 DEF createNode, Fresh
    <3>2. path[t] \in Path /\ Mounted(path[t])
      BY <1>1, <3>1 DEF AnswerOf, TypeInv, ThreadsTypeOK
    <3>3. MountedAt(Bucket[path[t]])
      BY <3>2 DEF MountedAt
    <3>4. \A b \in 1 .. CACHE_SIZE : hashmap'[b] # NULL => MountedAt(b)
      BY <1>1, <3>1, <3>3 DEF TableMounted, TypeInv, CacheTypeOK
    <3> QED BY <1>2, <3>4 DEF TableMounted, MountedAt, Mounted
  <2>2. CASE Frees(t)
    <3>1. \A b \in 1 .. CACHE_SIZE : hashmap'[b] # NULL => hashmap'[b] = hashmap[b]
      BY <2>2 DEF Frees, TypeInv, CacheTypeOK
    <3> QED BY <1>1, <1>2, <3>1 DEF TableMounted, MountedAt, Mounted
  <2>3. CASE ~createNode(t) /\ ~Frees(t)
    <3>1. hashmap' = hashmap
      BY <2>3 DEF CacheCall, get, put, Looks, UnlinkFront, UnlinkBack, Link, LinkHead, SetHead, SetTail, Inserts, InsertsBack,
           InsertsHead, BeginsCount, cacheSize, EndsCount, Evicts, Crashes, cacheVars
    <3> QED BY <1>1, <1>2, <3>1 DEF TableMounted, MountedAt, Mounted
  <2> QED BY <2>1, <2>2, <2>3
<1>4. ASSUME NEW u \in Thread \ {t} PROVE AnswerOf(u)'
  <2>1. pc'[u] = pc[u] /\ call'[u] = call[u]
    <3>1. pc'[u] = pc[u]
      BY <1>1, CallMoves, Constants DEF CacheMoves
    <3>2. call'[u] = call[u]
      BY <1>1 DEF CacheCall, get, put, Looks, UnlinkFront, UnlinkBack, Link, LinkHead, SetHead, SetTail, createNode, Inserts,
           InsertsBack, InsertsHead, BeginsCount, cacheSize, EndsCount, Evicts, Frees, Crashes, callVars
    <3> QED BY <3>1, <3>2
  <2> QED BY <1>2, <2>1, AnswerStays DEF Answered
<1>5. \/ pc'[t] = pc[t] /\ call'[t] = call[t]
      \/ pc[t] = "get" /\ pc'[t] = "miss"
      \/ pc[t] = "get" /\ pc'[t] = "unlinkFront" /\ call'[t] = "get" /\ hashmap[Bucket[path[t]]] # NULL
      \/ pc[t] = "put" /\ pc'[t] \in {"create", "unlinkFront"}
      \/ pc[t] \in MovePc /\ pc'[t] \in MovePc /\ call'[t] = call[t]
      \/ pc[t] = "unlinkBack" /\ pc'[t] = "free" /\ call[t] = "evict"
      \/ pc[t] = "setTail" /\ pc'[t] = "hit"
      \/ pc[t] = "setTail" /\ pc'[t] = "stored" /\ call[t] # "get"
      \/ pc[t] \in PutPc \ {"put", "stored"} /\ pc'[t] \in (PutPc \ {"put", "create"}) \cup MovePc
  <2>1. CASE get(t) \/ put(t)
    BY <1>1, <2>1 DEF get, put, Looks
  <2>2. CASE UnlinkFront(t) \/ Link(t) \/ LinkHead(t) \/ SetHead(t)
    BY <1>1, <2>2 DEF UnlinkFront, Link, LinkHead, SetHead, MovePc, callVars
  <2>3. CASE UnlinkBack(t)
    BY <1>1, <2>3 DEF UnlinkBack, MovePc, callVars
  <2>4. CASE SetTail(t)
    BY <1>1, <2>4 DEF SetTail, MovePc
  <2>5. CASE createNode(t) \/ InsertsBack(t) \/ InsertsHead(t) \/ BeginsCount(t) \/ cacheSize(t) \/ Frees(t)
    BY <1>1, <2>5 DEF createNode, InsertsBack, InsertsHead, BeginsCount, cacheSize, Frees, PutPc
  <2>6. CASE Inserts(t) \/ EndsCount(t)
    BY <1>1, <2>6 DEF Inserts, EndsCount, PutPc
  <2>7. CASE Evicts(t)
    BY <1>1, <2>7 DEF Evicts, PutPc, MovePc
  <2>8. CASE Crashes(t)
    BY <2>8 DEF Crashes, callVars
  <2> QED BY <2>1, <2>2, <2>3, <2>4, <2>5, <2>6, <2>7, <2>8 DEF CacheCall
<1>6. AnswerOf(t)'
  <2>1. CASE pc'[t] = pc[t] /\ call'[t] = call[t]
    BY <1>1, <1>2, <2>1, AnswerStays
  <2>2. CASE pc[t] = "get" /\ pc'[t] = "miss"
    BY <1>1, <1>2, <2>2 DEF AnswerOf, PutPc, MovePc, Mounted
  <2> DEFINE b == Bucket[path[t]]
  <2>3. (\E p \in Path : Bucket[p] = b /\ Mounted(p)) => MountedAt(Bucket[path[t]])'
    BY <1>2 DEF MountedAt, Mounted
  <2>4. Mounted(path[t]) => Mounted(path[t])'
    BY <1>2 DEF Mounted
  <2>5. CASE pc[t] = "get" /\ pc'[t] = "unlinkFront" /\ call'[t] = "get" /\ hashmap[b] # NULL
    <3>1. MountedAt(b)
      BY <1>1, <2>5 DEF TableMounted
    <3> QED BY <1>1, <1>2, <2>3, <2>4, <2>5, <3>1 DEF AnswerOf, PutPc, MovePc, MountedAt
  <2>6. CASE pc[t] = "put" /\ pc'[t] \in {"create", "unlinkFront"}
    BY <1>1, <1>2, <2>3, <2>4, <2>6 DEF AnswerOf, PutPc, MovePc, MountedAt
  <2>7. CASE pc[t] \in MovePc /\ pc'[t] \in MovePc /\ call'[t] = call[t]
    BY <1>1, <1>2, <2>3, <2>4, <2>7 DEF AnswerOf, PutPc, MovePc, MountedAt
  <2>8. CASE pc[t] = "unlinkBack" /\ pc'[t] = "free" /\ call[t] = "evict"
    BY <1>1, <1>2, <2>3, <2>4, <2>8 DEF AnswerOf, PutPc, MovePc, MountedAt
  <2>9. CASE pc[t] = "setTail" /\ pc'[t] = "hit"
    BY <1>1, <1>2, <2>3, <2>4, <2>9 DEF AnswerOf, PutPc, MovePc, MountedAt
  <2>10. CASE pc[t] = "setTail" /\ pc'[t] = "stored" /\ call[t] # "get"
    BY <1>1, <1>2, <2>3, <2>4, <2>10 DEF AnswerOf, PutPc, MovePc, MountedAt
  <2>11. CASE pc[t] \in PutPc \ {"put", "stored"} /\ pc'[t] \in (PutPc \ {"put", "create"}) \cup MovePc
    BY <1>1, <1>2, <2>3, <2>4, <2>11 DEF AnswerOf, PutPc, MovePc, MountedAt
  <2> QED BY <1>5, <2>1, <2>2, <2>5, <2>6, <2>7, <2>8, <2>9, <2>10, <2>11
<1> QED BY <1>3, <1>4, <1>6 DEF Answered

LEMMA RequestsAnswer ==
  ASSUME TypeInv, Answered, NEW t \in Thread, Requests(t) \/ RequestsRename(t),
         strtok' = strtok \/ \A u \in Thread : pc[u] # "round"
  PROVE  Answered'
<1> PICK q \in {"walk", "get"}, o \in {"RESOLVE", "LIST"}, p \in Path : Begun(t, q, o, p)
  BY RequestBegins
<1>1. UNCHANGED <<cacheVars, callVars, trie, handled, at, found>>
  BY DEF Begun
<1>2. /\ pc'[t] = (IF o = "LIST" THEN "walk" ELSE "get") /\ op'[t] = o /\ path'[t] = p
      /\ wasMounted'[t] = Mounted(p)
      /\ \A u \in Thread \ {t} : /\ pc'[u] = pc[u] /\ op'[u] = op[u] /\ path'[u] = path[u]
                                 /\ wasMounted'[u] = wasMounted[u]
  BY Constants DEF Begun, TypeInv, ThreadsTypeOK, RequestsTypeOK
<1>3. TableMounted'
  BY <1>1 DEF Answered, TableMounted, MountedAt, Mounted, cacheVars
<1>4. ASSUME NEW u \in Thread \ {t} PROVE AnswerOf(u)'
  BY <1>1, <1>2, AnswerStays DEF Answered, callVars
<1>5. AnswerOf(t)'
  <2>1. wasMounted'[t] => Mounted(path[t])'
    <3>1. Mounted(path[t])' <=> Mounted(p)
      BY <1>1, <1>2 DEF Mounted
    <3> QED BY <1>2, <3>1
  <2> QED BY <1>2, <2>1 DEF AnswerOf, PutPc, MovePc
<1> QED BY <1>3, <1>4, <1>5 DEF Answered

LEMMA InserterAnswer ==
  ASSUME TypeInv, Answered, Inserts_Path, \A t \in Thread : pc[t] # "round"
  PROVE  Answered'
<1>1. UNCHANGED <<path, cacheVars, callVars, op, found, wasMounted>> /\ \A t \in Thread : pc'[t] = pc[t]
  BY InserterMoves
<1>2. handled \subseteq handled' /\ trie \subseteq trie'
  BY DEF Inserts_Path, InsertsNext, GoesToChild, LinksChild, SetsHandle, EndsInsert
<1>3. ASSUME NEW u \in Thread PROVE AnswerOf(u)'
  BY <1>1, <1>2, AnswerStays DEF Answered, callVars
<1>4. TableMounted'
  BY <1>1, <1>2 DEF Answered, TableMounted, MountedAt, Mounted, cacheVars
<1> QED BY <1>3, <1>4 DEF Answered

LEMMA FlusherAnswer ==
  ASSUME TypeInv, Answered, Flushes, \A t \in Thread : pc[t] # "round"
  PROVE  Answered'
<1>1. UNCHANGED <<path, hashmap, callVars, trie, handled, requestVars>> /\ \A t \in Thread : pc'[t] = pc[t]
  BY FlusherMoves, Constants
<1>2. ASSUME NEW u \in Thread PROVE AnswerOf(u)'
  BY <1>1, AnswerStays DEF Answered, callVars, requestVars
<1>3. TableMounted'
  BY <1>1 DEF Answered, TableMounted, MountedAt, Mounted
<1> QED BY <1>2, <1>3 DEF Answered

LEMMA WalkAnswer ==
  ASSUME TypeInv, Answered, NEW t \in Thread, WalkStep(t),
         \A u \in Thread \ {t} : t \in InStrtok \/ t \in InStrtok' => pc[u] # "round"
  PROVE  Answered'
<1>1. /\ UNCHANGED <<cacheVars, trie, handled>> /\ pc \in [All -> HandlerPc \cup OtherPc] /\ t \in All /\ AnswerOf(t)
      /\ at \in [All -> trie] /\ strtok \in Seq(Name) /\ trie \subseteq Seq(Name)
  BY Constants DEF WalkStep, Hits, Misses, BeginsWalk, FindsChild, MissesChild, EndsWalk, Stores, Answers, trieVars, TypeInv,
     ThreadsTypeOK, TrieTypeOK, Answered
<1>2. TableMounted'
  BY <1>1 DEF Answered, TableMounted, MountedAt, Mounted, cacheVars
<1>3. ASSUME NEW u \in Thread \ {t} PROVE AnswerOf(u)'
  <2>1. u \in All /\ u # t
    BY Constants
  <2>2. pc'[u] = pc[u] /\ path'[u] = path[u] /\ op'[u] = op[u]
    BY <1>1, <2>1 DEF WalkStep, Hits, Misses, BeginsWalk, FindsChild, MissesChild, EndsWalk, Stores, Answers, Go, requestVars,
       TypeInv, RequestsTypeOK
  <2>3. wasMounted'[u] = wasMounted[u] /\ found'[u] = found[u]
    BY <1>1, <2>1 DEF WalkStep, Hits, Misses, BeginsWalk, FindsChild, MissesChild, EndsWalk, Stores, Answers, requestVars,
       TypeInv, RequestsTypeOK
  <2>4. call'[u] = call[u]
    BY <1>1, <2>1 DEF WalkStep, Hits, Misses, BeginsWalk, FindsChild, MissesChild, EndsWalk, Stores, Answers, callVars,
       TypeInv, CacheTypeOK
  <2>5. pc[u] = "round" => at'[u] = at[u] /\ strtok' = strtok
    <3>1. CASE BeginsWalk(t) \/ FindsChild(t) \/ MissesChild(t) \/ EndsWalk(t)
      <4>1. t \in InStrtok \/ t \in InStrtok'
        BY <1>1, <3>1, Constants DEF InStrtok, BeginsWalk, FindsChild, MissesChild, EndsWalk, Go
      <4> QED BY <4>1
    <3>2. CASE ~(BeginsWalk(t) \/ FindsChild(t) \/ MissesChild(t) \/ EndsWalk(t))
      BY <1>1, <2>1, <3>2 DEF WalkStep, Hits, Misses, Stores, Answers, trieVars
    <3> QED BY <3>1, <3>2
  <2> QED BY <1>1, <2>2, <2>3, <2>4, <2>5, AnswerStays DEF Answered
<1>4. AnswerOf(t)'
  <2>1. /\ pc[t] # "idle" => path[t] \in Path
        /\ path \in [Thread -> Path \cup {<<>>}] /\ found \in [Thread -> BOOLEAN] /\ wasMounted \in [Thread -> BOOLEAN]
        /\ op \in [Thread -> {"RESOLVE", "LIST", "none"}]
    BY DEF TypeInv, ThreadsTypeOK, RequestsTypeOK
  <2>2. /\ path' = path => (Mounted(path[t])' <=> Mounted(path[t]))
        /\ path' = path => (MountedAt(Bucket[path[t]])' <=> MountedAt(Bucket[path[t]]))
    BY <1>1 DEF Mounted, MountedAt
  <2>3. CASE Hits(t)
    <3>1. /\ pc[t] = "hit" /\ pc'[t] = "answer" /\ found'[t] = TRUE
          /\ UNCHANGED <<path, op, wasMounted>>
      BY <1>1, <2>1, <2>3 DEF Hits, Go
    <3>2. op[t] # "LIST" /\ MountedAt(Bucket[path[t]])
      BY <1>1, <3>1 DEF AnswerOf
    <3> QED BY <1>1, <2>2, <3>1, <3>2 DEF AnswerOf, PutPc, MovePc
  <2>4. CASE Misses(t)
    <3>1. pc[t] = "miss" /\ pc'[t] = "walk" /\ UNCHANGED <<path, op, wasMounted>>
      BY <1>1, <2>4 DEF Misses, Go, requestVars
    <3> QED BY <1>1, <2>2, <3>1 DEF AnswerOf, PutPc, MovePc
  <2>5. CASE BeginsWalk(t)
    <3>1. /\ pc[t] = "walk" /\ pc'[t] = "round" /\ UNCHANGED <<path, op, wasMounted>>
          /\ strtok' = Tail(path[t]) /\ at'[t] = <<>>
      BY <1>1, <2>5 DEF BeginsWalk, Go, requestVars
    <3>2. <<>> \o Tail(path[t]) = Tail(path[t])
      BY <2>1, <3>1, Constants
    <3>3. Walked(t)'
      BY <3>1, <3>2 DEF Walked
    <3> QED BY <1>1, <2>2, <3>1, <3>3 DEF AnswerOf, PutPc, MovePc
  <2>6. CASE FindsChild(t)
    <3>1. /\ pc[t] = "round" /\ pc'[t] = "round" /\ UNCHANGED <<path, op, wasMounted>> /\ strtok # <<>>
          /\ at'[t] = Append(at[t], Head(strtok)) /\ strtok' = Tail(strtok)
      BY <1>1, <2>6 DEF FindsChild, Child, requestVars
    <3>2. at[t] \in Seq(Name) /\ Walked(t)
      BY <1>1, <3>1 DEF AnswerOf
    <3>3. Append(at[t], Head(strtok)) \o Tail(strtok) = at[t] \o strtok
      BY <1>1, <3>1, <3>2, MoveOne
    <3>4. Walked(t)'
      BY <3>1, <3>2, <3>3 DEF Walked
    <3> QED BY <1>1, <2>2, <3>1, <3>4 DEF AnswerOf, PutPc, MovePc
  <2>7. CASE MissesChild(t)
    <3>1. /\ pc[t] = "round" /\ pc'[t] = "answer" /\ UNCHANGED <<path, op, wasMounted>> /\ strtok # <<>>
          /\ found'[t] = FALSE /\ Append(at[t], Head(strtok)) \notin trie
      BY <1>1, <2>1, <2>7 DEF MissesChild, Child, Go
    <3>2. at[t] \in Seq(Name) /\ Walked(t)
      BY <1>1, <3>1 DEF AnswerOf
    <3>3. ~wasMounted[t]
      <4> SUFFICES ASSUME wasMounted[t] PROVE FALSE
        OBVIOUS
      <4>1. Tail(path[t]) \in handled
        BY <1>1 DEF AnswerOf, Mounted
      <4>2. at[t] \o strtok \in trie
        BY <3>2, <4>1 DEF Walked, TypeInv, TrieTypeOK
      <4>3. /\ Append(at[t], Head(strtok)) = SubSeq(at[t] \o strtok, 1, Len(at[t]) + 1)
            /\ Len(at[t]) + 1 \in 0 .. Len(at[t] \o strtok)
        BY <1>1, <3>1, <3>2, MoveOne
      <4>4. SubSeq(at[t] \o strtok, 1, Len(at[t]) + 1) \in trie
        <5>1. trie \subseteq Seq(Name) /\ \A q \in trie : q = <<>> \/ SubSeq(q, 1, Len(q) - 1) \in trie
          BY DEF TypeInv, TrieTypeOK
        <5> QED BY <4>2, <4>3, <5>1, PrefixInTrie
      <4> QED BY <3>1, <4>3, <4>4
    <3> QED BY <1>1, <2>2, <3>1, <3>3 DEF AnswerOf, PutPc, MovePc
  <2>8. CASE EndsWalk(t)
    <3> DEFINE isThere == op[t] = "LIST" \/ at[t] \in handled
    <3>1. /\ pc[t] = "round" /\ pc'[t] = (IF op[t] = "RESOLVE" /\ isThere THEN "put" ELSE "answer")
          /\ strtok = <<>> /\ found'[t] = isThere /\ UNCHANGED <<path, op, wasMounted, call>>
      BY <1>1, <2>1, <2>8 DEF EndsWalk, Go, callVars
    <3>2. Tail(path[t]) = at[t] /\ at[t] \in trie
      <4>1. at[t] \in Seq(Name) /\ Walked(t)
        BY <1>1, <3>1 DEF AnswerOf
      <4> QED BY <1>1, <3>1, <4>1 DEF Walked
    <3>3. at[t] \in handled <=> Mounted(path[t])
      BY <3>2 DEF Mounted
    <3>4. Mounted(path[t]) => MountedAt(Bucket[path[t]])
      BY <2>1, <3>1 DEF MountedAt
    <3>5. op[t] # "LIST" => (found'[t] <=> Mounted(path[t]))
      BY <3>1, <3>3
    <3>6. op[t] = "LIST" => found'[t]
      BY <3>1
    <3>7. pc'[t] = "put" => op[t] = "RESOLVE" /\ found'[t] /\ Mounted(path[t])
      BY <3>1, <3>3
    <3>8. pc'[t] \in {"put", "answer"}
      BY <3>1
    <3>9. wasMounted[t] => Mounted(path[t])
      BY <1>1 DEF AnswerOf
    <3>10. UNCHANGED <<path, op, wasMounted, trie>>
      BY <1>1, <3>1
    <3> HIDE DEF isThere
    <3> QED BY <2>2, <3>2, <3>4, <3>5, <3>6, <3>7, <3>8, <3>9, <3>10 DEF AnswerOf, PutPc, MovePc
  <2>9. CASE Stores(t)
    <3>1. pc[t] = "stored" /\ pc'[t] = "answer" /\ UNCHANGED <<path, op, wasMounted, found>>
      BY <1>1, <2>9 DEF Stores, Go, requestVars
    <3>2. op[t] # "LIST" /\ MountedAt(Bucket[path[t]]) /\ found[t]
      BY <1>1, <3>1 DEF AnswerOf, PutPc
    <3> QED BY <1>1, <2>2, <3>1, <3>2 DEF AnswerOf, PutPc, MovePc
  <2>10. CASE Answers(t)
    <3>1. pc'[t] = "idle" /\ op'[t] = "none" /\ wasMounted'[t] = FALSE
      BY <1>1, <2>1, <2>10 DEF Answers, Go
    <3> QED BY <3>1 DEF AnswerOf, PutPc, MovePc
  <2> QED BY <2>3, <2>4, <2>5, <2>6, <2>7, <2>8, <2>9, <2>10 DEF WalkStep
<1> QED BY <1>2, <1>3, <1>4 DEF Answered

LEMMA AnswerStep == TypeInv /\ Alone /\ Alone' /\ AnswerInv /\ [Next]_vars => AnswerInv'
<1> SUFFICES ASSUME TypeInv, Alone, Alone', AnswerInv, [Next]_vars, ~overlapped' PROVE Answered'
  BY DEF AnswerInv, Answered
<1>1. CASE UNCHANGED vars
  <2>1. UNCHANGED <<pc, path, op, wasMounted, found, call, trie, handled, at, strtok, hashmap, overlapped>>
    BY <1>1 DEF vars, callVars, cacheVars, trieVars, requestVars
  <2>2. Answered
    BY <2>1 DEF AnswerInv, Answered
  <2>3. TableMounted'
    BY <2>1, <2>2 DEF Answered, TableMounted, MountedAt, Mounted
  <2>4. \A t \in Thread : AnswerOf(t)'
    BY <2>1, <2>2, AnswerStays DEF Answered
  <2> QED BY <2>3, <2>4 DEF Answered
<1>2. CASE Next
  <2>2. ~overlapped
    BY <1>2, NextObserves
  <2>3. Answered
    BY <2>2 DEF AnswerInv, Answered
  <2>4. ASSUME NEW t \in All, \A u \in All \ {t} : pc'[u] = pc[u], NEW u \in Thread \ {t},
               t \in InStrtok \/ t \in InStrtok'
        PROVE  pc[u] # "round"
    <3>1. u \in All \ {t} /\ pc'[u] = pc[u]
      BY <2>4, Constants
    <3>2. pc[u] = "round" => u \in InStrtok /\ u \in InStrtok'
      BY <3>1 DEF InStrtok
    <3> QED BY <2>2, <2>4, <3>1, <3>2 DEF Alone
  <2>5. ASSUME NEW t \in Thread, Requests(t) \/ Renaming(t) PROVE Answered'
    <3>1. CASE Requests(t)
      <4>1. strtok' = strtok
        BY <3>1 DEF Requests, trieVars
      <4> QED BY <2>3, <3>1, <4>1, RequestsAnswer
    <3>2. CASE Renaming(t)
      <4>1. overlapped' = (overlapped \/ Meet' \/ InStrtok # {})
        BY <3>2 DEF Renaming
      <4>2. InStrtok = {}
        BY <4>1, Zenon
      <4>3. \A u \in Thread : pc[u] # "round"
        BY <4>2, Constants DEF InStrtok
      <4> QED BY <2>3, <3>2, <4>3, RequestsAnswer DEF Renaming
    <3> QED BY <2>5, <3>1, <3>2
  <2>6. ASSUME NEW t \in Thread, CacheCall(t), UNCHANGED <<trieVars, requestVars>> PROVE Answered'
    BY <2>3, <2>6, CacheCallAnswer
  <2>7. ASSUME NEW t \in Thread, WalkStep(t) PROVE Answered'
    <3>1. pc \in [All -> HandlerPc \cup OtherPc] /\ t \in All
      BY Constants DEF TypeInv, ThreadsTypeOK
    <3>2. \A u \in All \ {t} : pc'[u] = pc[u]
      BY <2>7, <3>1 DEF WalkStep, Hits, Misses, BeginsWalk, FindsChild, MissesChild, EndsWalk, Stores, Answers, Go
    <3>3. \A u \in Thread \ {t} : t \in InStrtok \/ t \in InStrtok' => pc[u] # "round"
      BY <2>4, <3>1, <3>2
    <3> QED BY <2>3, <2>7, <3>3, WalkAnswer
  <2>8. CASE Inserts_Path
    <3> PICK q \in OtherPc : pc' = [pc EXCEPT ![Inserter] = q]
      BY <2>8, InserterMoves
    <3>1. pc \in [All -> HandlerPc \cup OtherPc] /\ Inserter \in All
      BY Constants DEF TypeInv, ThreadsTypeOK
    <3>2. Inserter \in InStrtok \/ Inserter \in InStrtok'
      BY <2>8, <3>1 DEF InStrtok, Inserts_Path, InsertsNext, GoesToChild, LinksChild, SetsHandle, EndsInsert, Go
    <3>3. \A u \in Thread : pc[u] # "round"
      <4>1. \A u \in All \ {Inserter} : pc'[u] = pc[u]
        BY <3>1
      <4>2. \A u \in Thread : u \in Thread \ {Inserter}
        BY Constants
      <4> QED BY <2>4, <3>1, <3>2, <4>1, <4>2
    <3> QED BY <2>3, <2>8, <3>3, InserterAnswer
  <2>9. CASE Flushes
    <3>1. \A u \in All \ {Flusher} : pc'[u] = pc[u]
      BY <2>9, FlusherMoves
    <3>2. Flusher \in InStrtok \/ Flusher \in InStrtok'
      BY <2>9, FlusherMoves
    <3>3. \A u \in Thread : u \in Thread \ {Flusher}
      BY Constants
    <3>4. \A u \in Thread : pc[u] # "round"
      BY <2>4, <3>1, <3>2, <3>3, Constants
    <3> QED BY <2>3, <2>9, <3>4, FlusherAnswer
  <2> QED BY <1>2, <2>5, <2>6, <2>7, <2>8, <2>9 DEF Next, Resolves, WalkStep
<1> QED BY <1>1, <1>2

(* As long as no two threads meet: whoever asks for a path that is mounted *)
(* is told so, and whoever is told so asked for one, or for one that has   *)
(* the bucket of one.                                                      *)
THEOREM AnswersAreRight == Spec => []AnswerRight
<1>1. AnswerInv => AnswerRight
  BY DEF AnswerInv, AnswerOf, AnswerRight, MountedAt
<1>2. Spec => [](TypeInv /\ Alone /\ AnswerInv)
  <2>1. (TypeInv /\ Alone /\ AnswerInv) /\ [Next]_vars => (TypeInv /\ Alone /\ AnswerInv)'
    BY TypesStep, AloneStep, AnswerStep
  <2> QED BY <2>1, InitTypes, InitAlone, InitAnswer, PTL DEF Spec
<1> QED BY <1>1, <1>2, PTL

-----------------------------------------------------------------------------
(* The list                                                                *)

Nth(s, i) == IF i \in 1 .. Len(s) THEN s[i] ELSE NULL
Elements(s) == {s[i] : i \in 1 .. Len(s)}
Once(s) == \A i, j \in 1 .. Len(s) : s[i] = s[j] => i = j

\* The pointers read forwards, and all of them.
Chained(s) == head = Nth(s, 1) /\ \A i \in 1 .. Len(s) : next[s[i]] = Nth(s, i + 1)
Whole(s) == /\ Chained(s) /\ tail = Nth(s, Len(s))
            /\ \A i \in 1 .. Len(s) : prev[s[i]] = Nth(s, i - 1)

Entries == {hashmap[b] : b \in 1 .. CACHE_SIZE} \ {NULL}
Holds(s) == Entries = Elements(s)
HoldsBut(s, n) == n \notin Elements(s) /\ Entries = Elements(s) \cup {n}

Rest(s) == Whole(s) /\ Holds(s)

\* A node that was taken out, of which the second neighbour does not know yet.
HalfOut(s, n) ==
  /\ Chained(s)
  /\ \E k \in 0 .. Len(s) :
       /\ prev[n] = Nth(s, k) /\ next[n] = Nth(s, k + 1)
       /\ tail = IF k = Len(s) THEN n ELSE Nth(s, Len(s))
       /\ \A i \in 1 .. Len(s) : prev[s[i]] = IF i = k + 1 THEN n ELSE Nth(s, i - 1)

\* A node that its neighbour knows to be before it, and head does not.
HalfIn(s, n) ==
  /\ Chained(s) /\ tail = Nth(s, Len(s)) /\ next[n] = head /\ prev[n] = NULL
  /\ \A i \in 1 .. Len(s) : prev[s[i]] = IF i = 1 THEN n ELSE Nth(s, i - 1)

\* A list that has everything but its tail.
Headed(s) ==
  /\ Chained(s) /\ tail = IF Len(s) = 1 THEN NULL ELSE Nth(s, Len(s))
  /\ \A i \in 1 .. Len(s) : prev[s[i]] = Nth(s, i - 1)

(* The list that the pointers stand for, at each position inside get and   *)
(* put.  Nothing is ever evicted.                                          *)
AtPosition(t, s) ==
  LET n == node[t] IN
  /\ pc[t] = "unlinkFront" => Rest(s) /\ n \in Entries
  /\ pc[t] = "unlinkBack" => HalfOut(s, n) /\ HoldsBut(s, n)
  /\ pc[t] = "link" => Whole(s) /\ HoldsBut(s, n)
  /\ pc[t] = "linkHead" => Whole(s) /\ HoldsBut(s, n) /\ next[n] = head /\ prev[n] = NULL
  /\ pc[t] = "setHead" => HalfIn(s, n) /\ HoldsBut(s, n)
  /\ pc[t] = "setTail" => Headed(s) /\ Holds(s) /\ s # <<>> /\ n = s[1]
  /\ pc[t] = "create" => Rest(s) /\ hashmap[Bucket[path[t]]] = NULL
  /\ pc[t] = "insert" => Whole(s) /\ HoldsBut(s, n) /\ next[n] = NULL /\ prev[n] = NULL
  /\ pc[t] = "insertBack" => Whole(s) /\ HoldsBut(s, n) /\ next[n] = head /\ prev[n] = NULL /\ head # NULL
  /\ pc[t] = "insertHead" => HalfIn(s, n) /\ HoldsBut(s, n) /\ head # NULL
  /\ pc[t] = "count" => Rest(s)
  /\ pc[t] = "cacheSize" => Rest(s) /\ size[t] \in 0 .. Len(s) /\ n = Nth(s, size[t] + 1)
  /\ pc[t] \in MovePc => key(n) = Bucket[path[t]]
  /\ pc[t] \notin {"evict", "free"} /\ call[t] # "evict"

InGoodOrder(t, s) == IF pc[t] \in CachePc THEN AtPosition(t, s) ELSE Rest(s)

Tidy ==
  /\ ~crashed /\ \A t \in Thread : size[t] <= CACHE_SIZE
  /\ \A b \in 1 .. CACHE_SIZE : hashmap[b] # NULL => key(hashmap[b]) = b /\ hashmap[b] \in created
  /\ \A n \in Node \ created : next[n] = NULL /\ prev[n] = NULL

-----------------------------------------------------------------------------
LEMMA NthOf ==
  ASSUME NEW s \in Seq(Node)
  PROVE  /\ Len(s) \in Nat /\ \A i \in 1 .. Len(s) : Nth(s, i) = s[i] /\ s[i] \in Node /\ s[i] # NULL
         /\ \A i : i \notin 1 .. Len(s) => Nth(s, i) = NULL
         /\ Elements(s) \subseteq Node /\ (Nth(s, 1) = NULL <=> Len(s) = 0)
<1>1. Len(s) \in Nat /\ \A i \in 1 .. Len(s) : s[i] \in Node /\ s[i] # NULL
  BY LenProperties, NodeNumbers
<1>2. Len(s) # 0 => 1 \in 1 .. Len(s)
  BY <1>1
<1> QED BY <1>1, <1>2 DEF Nth, Elements

\* r is s without its element at position k + 1, or with n before its first.
IsWithout(r, s, k) ==
  /\ Len(r) = Len(s) - 1 /\ Once(r) /\ s[k + 1] \notin Elements(r)
  /\ Elements(s) = Elements(r) \cup {s[k + 1]}
  /\ \A i \in 1 .. Len(r) : r[i] = IF i <= k THEN s[i] ELSE s[i + 1]
  /\ \A i \in Int : Nth(r, i) = IF i <= k THEN Nth(s, i) ELSE Nth(s, i + 1)

HasFirst(r, n, s) ==
  /\ r = <<n>> \o s /\ Len(r) = Len(s) + 1 /\ Once(r) /\ Elements(r) = Elements(s) \cup {n} /\ r # <<>>
  /\ r[1] = n /\ \A i \in 1 .. Len(r) : i = 1 \/ (i - 1 \in 1 .. Len(s) /\ r[i] = s[i - 1])
  /\ Nth(r, 1) = n /\ \A i \in Nat \ {0} : Nth(r, i + 1) = Nth(s, i)

LEMMA WithoutOne ==
  ASSUME NEW s \in Seq(Node), Once(s), NEW k \in 0 .. Len(s) - 1
  PROVE  \E r \in Seq(Node) : IsWithout(r, s, k)
<1> PICK m \in Nat : Len(s) = m + 1 /\ k \in 0 .. m /\ k + 1 \in 1 .. m + 1
  <2>1. Len(s) \in Nat
    BY NthOf
  <2> PICK l \in Nat : l = Len(s) /\ k \in 0 .. l - 1
    BY <2>1
  <2>2. l - 1 \in Nat /\ l = (l - 1) + 1 /\ k \in 0 .. l - 1 /\ k + 1 \in 1 .. (l - 1) + 1
    OBVIOUS
  <2> QED BY <2>2
<1>1. s \in [1 .. m + 1 -> Node]
  BY LenProperties
<1> DEFINE f == [i \in 1 .. m |-> IF i <= k THEN s[i] ELSE s[i + 1]]
<1>2. f \in [1 .. m -> Node]
  <2>1. \A i \in 1 .. m : i \in 1 .. m + 1 /\ i + 1 \in 1 .. m + 1
    OBVIOUS
  <2> QED BY <1>1, <2>1
<1>20. f \in Seq(Node) /\ Len(f) = m
  <2> HIDE DEF f
  <2> QED BY <1>2
<1> PICK r \in Seq(Node) : r = f /\ Len(r) = m
  BY <1>20
<1>3. \A i \in 1 .. m : r[i] = IF i <= k THEN s[i] ELSE s[i + 1]
  OBVIOUS
<1> HIDE DEF f
<1>4. Once(r)
  <2> SUFFICES ASSUME NEW i \in 1 .. m, NEW j \in 1 .. m, r[i] = r[j] PROVE i = j
    BY DEF Once
  <2> DEFINE x == IF i <= k THEN i ELSE i + 1
             y == IF j <= k THEN j ELSE j + 1
  <2>1. x \in 1 .. m + 1 /\ y \in 1 .. m + 1 /\ s[x] = s[y]
    BY <1>3
  <2>2. x = y
    BY <2>1 DEF Once
  <2> QED BY <2>2
<1>5. s[k + 1] \notin Elements(r)
  <2> SUFFICES ASSUME NEW i \in 1 .. m, r[i] = s[k + 1] PROVE FALSE
    BY DEF Elements
  <2> DEFINE x == IF i <= k THEN i ELSE i + 1
  <2>1. x \in 1 .. m + 1 /\ s[x] = s[k + 1] /\ x # k + 1
    BY <1>3
  <2> QED BY <2>1 DEF Once
<1>6. Elements(s) \subseteq Elements(r) \cup {s[k + 1]}
  <2> SUFFICES ASSUME NEW i \in 1 .. m + 1, i # k + 1 PROVE s[i] \in Elements(r)
    BY DEF Elements
  <2> DEFINE x == IF i <= k THEN i ELSE i - 1
  <2>1. x \in 1 .. m /\ r[x] = s[i]
    BY <1>3
  <2> QED BY <2>1 DEF Elements
<1>7. Elements(r) \cup {s[k + 1]} \subseteq Elements(s)
  BY <1>3 DEF Elements
<1>8. ASSUME NEW i \in Int PROVE Nth(r, i) = IF i <= k THEN Nth(s, i) ELSE Nth(s, i + 1)
  BY <1>3 DEF Nth
<1>9. Elements(s) = Elements(r) \cup {s[k + 1]}
  BY <1>6, <1>7
<1>10. Len(s) - 1 = m
  OBVIOUS
<1> QED BY <1>3, <1>4, <1>5, <1>8, <1>9, <1>10 DEF IsWithout

LEMMA WithFirst ==
  ASSUME NEW s \in Seq(Node), Once(s), NEW n \in Node, n \notin Elements(s)
  PROVE  \E r \in Seq(Node) : HasFirst(r, n, s)
<1> PICK m \in Nat : Len(s) = m
  BY NthOf
<1>1. s \in [1 .. m -> Node]
  BY LenProperties
<1>2. /\ <<n>> \o s \in Seq(Node) /\ Len(<<n>> \o s) = m + 1
      /\ \A i \in 1 .. m + 1 : (<<n>> \o s)[i] = IF i <= 1 THEN <<n>>[i] ELSE s[i - 1]
  <2>1. <<n>> \in Seq(Node) /\ Len(<<n>>) = 1 /\ 1 + m = m + 1
    OBVIOUS
  <2> HIDE DEF NULL
  <2>2. /\ <<n>> \o s \in Seq(Node) /\ Len(<<n>> \o s) = Len(<<n>>) + Len(s)
        /\ \A i \in 1 .. Len(<<n>>) + Len(s) :
             (<<n>> \o s)[i] = IF i <= Len(<<n>>) THEN <<n>>[i] ELSE s[i - Len(<<n>>)]
    BY <2>1, ConcatProperties
  <2> QED BY <2>1, <2>2
<1> PICK r \in Seq(Node) : r = <<n>> \o s /\ Len(r) = m + 1
  BY <1>2
<1>3. r[1] = n /\ \A i \in 1 .. m + 1 : i = 1 \/ (i - 1 \in 1 .. m /\ r[i] = s[i - 1])
  <2>1. <<n>>[1] = n /\ 1 \in 1 .. m + 1 /\ \A i \in 1 .. m + 1 : i = 1 \/ (~(i <= 1) /\ i - 1 \in 1 .. m)
    OBVIOUS
  <2> QED BY <1>2, <2>1
<1>4. \A i \in 1 .. m : s[i] # n
  BY DEF Elements
<1>5. Once(r)
  <2> SUFFICES ASSUME NEW i \in 1 .. m + 1, NEW j \in 1 .. m + 1, r[i] = r[j] PROVE i = j
    BY DEF Once
  <2>1. i = 1 => j = 1
    BY <1>3, <1>4
  <2>2. j = 1 => i = 1
    BY <1>3, <1>4
  <2>3. i # 1 /\ j # 1 => i - 1 = j - 1
    BY <1>3 DEF Once
  <2> QED BY <2>1, <2>2, <2>3
<1>6. Elements(r) \subseteq Elements(s) \cup {n}
  BY <1>3 DEF Elements
<1>7. Elements(s) \cup {n} \subseteq Elements(r)
  <2>1. 1 \in 1 .. m + 1
    OBVIOUS
  <2>2. ASSUME NEW i \in 1 .. m PROVE s[i] \in Elements(r)
    <3>1. i + 1 \in 1 .. m + 1 /\ i + 1 # 1 /\ (i + 1) - 1 = i
      OBVIOUS
    <3> QED BY <1>3, <3>1 DEF Elements
  <2> QED BY <1>3, <2>1, <2>2 DEF Elements
<1>8. ASSUME NEW i \in Nat \ {0} PROVE Nth(r, i + 1) = Nth(s, i)
  <2>1. i + 1 # 1 /\ (i + 1) - 1 = i /\ (i + 1 \in 1 .. m + 1 <=> i \in 1 .. m)
    OBVIOUS
  <2> QED BY <1>3, <2>1 DEF Nth
<1>9. Nth(r, 1) = n /\ r # <<>>
  <2>1. 1 \in 1 .. m + 1 /\ m + 1 # 0
    OBVIOUS
  <2> QED BY <1>3, <2>1, EmptySeq DEF Nth
<1>10. Elements(r) = Elements(s) \cup {n}
  BY <1>6, <1>7
<1> QED BY <1>3, <1>5, <1>8, <1>9, <1>10 DEF HasFirst

\* One node for each bucket, at most: the list is not longer than the table.
LEMMA NotTooLong ==
  ASSUME Tidy, NEW s \in Seq(Node), Once(s), Elements(s) \subseteq Entries
  PROVE  Len(s) <= CACHE_SIZE
<1> PICK m \in Nat : Len(s) = m
  BY NthOf
<1> DEFINE f == [i \in 1 .. m |-> key(s[i])]
<1>1. \A i \in 1 .. m : \E b \in 1 .. CACHE_SIZE : hashmap[b] = s[i] /\ key(s[i]) = b
  BY DEF Entries, Elements, Tidy
<1>2. f \in Injection(1 .. m, 1 .. CACHE_SIZE)
  <2>1. f \in [1 .. m -> 1 .. CACHE_SIZE]
    BY <1>1
  <2>2. \A i, j \in 1 .. m : f[i] = f[j] => i = j
    BY <1>1 DEF Once
  <2> QED BY <2>1, <2>2 DEF Injection, IsInjective
<1>3. IsFiniteSet(1 .. CACHE_SIZE) /\ Cardinality(1 .. CACHE_SIZE) = CACHE_SIZE /\ Cardinality(1 .. m) = m
  BY Constants, FS_Interval
<1> HIDE DEF f
<1>4. Cardinality(1 .. m) <= Cardinality(1 .. CACHE_SIZE)
  BY <1>2, <1>3, FS_Injection
<1> QED BY <1>3, <1>4

-----------------------------------------------------------------------------
InOrder(t) == \E s \in Seq(Node) : Once(s) /\ InGoodOrder(t, s)

LEMMA CacheTypes ==
  ASSUME TypeInv, NEW t \in Thread
  PROVE  /\ head \in Node \cup {NULL} /\ tail \in Node \cup {NULL} /\ created \subseteq Node
         /\ hashmap \in [1 .. CACHE_SIZE -> Node \cup {NULL}]
         /\ next \in [Node -> Node \cup {NULL}] /\ prev \in [Node -> Node \cup {NULL}]
         /\ call \in [Thread -> {"get", "put", "evict", "none"}]
         /\ node \in [Thread -> Node \cup {NULL}] /\ size \in [Thread -> 0 .. CACHE_SIZE + 1]
         /\ pc \in [All -> HandlerPc \cup OtherPc] /\ t \in All /\ (pc[t] \in Handling => node[t] \in Node)
         /\ (pc[t] # "idle" => Bucket[path[t]] \in 1 .. CACHE_SIZE)
  BY Constants DEF TypeInv, CacheTypeOK, ThreadsTypeOK

\* The nodes of the table were created.
LEMMA EntriesCreated ==
  ASSUME Tidy
  PROVE  Entries \subseteq created
  BY DEF Tidy, Entries

LEMMA TidyStays ==
  ASSUME Tidy, UNCHANGED <<hashmap, created, crashed, size>>,
         \A n \in Node \ created : next'[n] = next[n] /\ prev'[n] = prev[n]
  PROVE  Tidy' /\ Entries' = Entries
  BY DEF Tidy, Entries

LEMMA LooksOrder ==
  ASSUME TypeInv, Tidy, NEW t \in Thread, NEW s \in Seq(Node), Once(s), InGoodOrder(t, s), get(t) \/ put(t)
  PROVE  Tidy' /\ InGoodOrder(t, s)'
<1> PICK n : n = hashmap[Bucket[path[t]]]
  OBVIOUS
<1> PICK f \in {"get", "put"}, q \in {"miss", "create", "unlinkFront"} :
      /\ pc[t] = f /\ pc' = [pc EXCEPT ![t] = q] /\ (q = "unlinkFront" <=> n # NULL)
      /\ call' = [call EXCEPT ![t] = f] /\ node' = [node EXCEPT ![t] = n]
      /\ UNCHANGED <<path, size, cacheVars>>
  BY DEF get, put, Looks, Go
<1>1. pc'[t] = q /\ call'[t] = f /\ node'[t] = n /\ Rest(s) /\ Bucket[path[t]] \in 1 .. CACHE_SIZE
  BY CacheTypes DEF InGoodOrder, CachePc
<1>2. Tidy' /\ Rest(s)' /\ Entries' = Entries
  BY <1>1 DEF Tidy, Rest, Whole, Chained, Holds, Entries, cacheVars, listVars
<1>3. q = "unlinkFront" => n \in Entries
  BY <1>1 DEF Entries
<1>4. q = "create" => hashmap'[Bucket[path'[t]]] = NULL
  BY DEF cacheVars
<1>5. q = "unlinkFront" => key(n) = Bucket[path'[t]]
  BY <1>1 DEF Tidy
<1>6. InGoodOrder(t, s)'
  BY <1>1, <1>2, <1>3, <1>4, <1>5 DEF InGoodOrder, AtPosition, CachePc, MovePc
<1> QED BY <1>2, <1>6

LEMMA UnlinkFrontOrder ==
  ASSUME TypeInv, Tidy, NEW t \in Thread, NEW s \in Seq(Node), Once(s), InGoodOrder(t, s), UnlinkFront(t)
  PROVE  /\ Tidy'
         /\ \E r \in Seq(Node), k \in 0 .. Len(s) - 1 :
              IsWithout(r, s, k) /\ s[k + 1] = node[t] /\ InGoodOrder(t, r)'
<1> PICK n \in Node : n = node[t]
  BY CacheTypes DEF UnlinkFront, In, Go, Handling, CachePc
<1>1. /\ pc[t] = "unlinkFront" /\ pc' = [pc EXCEPT ![t] = "unlinkBack"]
      /\ UNCHANGED <<path, callVars, hashmap, created, crashed, tail, prev>>
      /\ IF prev[n] = NULL THEN head' = next[n] /\ UNCHANGED next
         ELSE next' = [next EXCEPT ![prev[n]] = next[n]] /\ UNCHANGED head
  BY DEF UnlinkFront, In, Go
<1>2. Rest(s) /\ n \in Entries /\ call[t] # "evict" /\ key(n) = Bucket[path[t]]
  BY <1>1 DEF InGoodOrder, AtPosition, CachePc, MovePc
<1>3. /\ next \in [Node -> Node \cup {NULL}] /\ pc'[t] = "unlinkBack" /\ node'[t] = n /\ call'[t] # "evict"
  BY <1>1, <1>2, CacheTypes DEF callVars
<1>20. PICK m \in Nat : Len(s) = m + 1 /\ \E k \in 0 .. m : n = s[k + 1]
  <2> PICK l \in Nat : l = Len(s)
    BY NthOf
  <2> PICK i \in 1 .. l : s[i] = n
    BY <1>2 DEF Rest, Holds, Elements
  <2>1. l - 1 \in Nat /\ i - 1 \in 0 .. l - 1 /\ l = (l - 1) + 1 /\ i = (i - 1) + 1
    OBVIOUS
  <2> QED BY <2>1
<1>21. PICK k \in 0 .. m : n = s[k + 1]
  BY <1>20
<1>22. PICK r \in Seq(Node) :
      /\ IsWithout(r, s, k) /\ Len(r) = m /\ Once(r) /\ n \notin Elements(r) /\ Elements(s) = Elements(r) \cup {n}
      /\ \A i \in 1 .. m : r[i] = IF i <= k THEN s[i] ELSE s[i + 1]
      /\ \A i \in Int : Nth(r, i) = IF i <= k THEN Nth(s, i) ELSE Nth(s, i + 1)
  <2>1. k \in 0 .. Len(s) - 1 /\ Len(s) - 1 = m
    BY <1>20
  <2>2. PICK r \in Seq(Node) : IsWithout(r, s, k)
    BY <2>1, WithoutOne
  <2>3. Len(r) = m
    BY <2>1, <2>2 DEF IsWithout
  <2> QED BY <1>21, <2>2, <2>3 DEF IsWithout
<1>30. /\ k \in Int /\ k + 1 \in 1 .. m + 1
       /\ \A i \in 0 .. m : i + 1 \in 1 .. m + 1 /\ (i + 1) + 1 = i + 2 /\ (i + 1) - 1 = i
       /\ \A i \in 1 .. m : i \in 0 .. m /\ i \in 1 .. m + 1
  OBVIOUS
<1>31. \A i \in 1 .. m : IF i <= k THEN r[i] = s[i] ELSE r[i] = s[i + 1]
  BY <1>22
<1>33. \A i \in 1 .. m : IF i <= k THEN Nth(r, i - 1) = Nth(s, i - 1) ELSE i = k + 1 \/ Nth(r, i - 1) = Nth(s, i)
  <2> SUFFICES ASSUME NEW i \in 1 .. m
               PROVE IF i <= k THEN Nth(r, i - 1) = Nth(s, i - 1) ELSE i = k + 1 \/ Nth(r, i - 1) = Nth(s, i)
    OBVIOUS
  <2>1. i - 1 \in Int /\ (i - 1) + 1 = i
    OBVIOUS
  <2> QED BY <1>22, <2>1
<1>34. \A i \in 1 .. m : IF i < k THEN Nth(r, i + 1) = Nth(s, i + 1) ELSE Nth(r, i + 1) = Nth(s, i + 2)
  <2> SUFFICES ASSUME NEW i \in 1 .. m
               PROVE IF i < k THEN Nth(r, i + 1) = Nth(s, i + 1) ELSE Nth(r, i + 1) = Nth(s, i + 2)
    OBVIOUS
  <2>1. i + 1 \in Int /\ (i + 1) + 1 = i + 2
    OBVIOUS
  <2> QED BY <1>22, <2>1
<1>32. Nth(r, k) = Nth(s, k) /\ Nth(r, k + 1) = Nth(s, k + 2)
  <2>1. k \in Int /\ k + 1 \in Int /\ (k + 1) + 1 = k + 2 /\ ~(k + 1 <= k)
    OBVIOUS
  <2> QED BY <1>22, <2>1
<1>4. /\ \A i \in 1 .. m + 1 : Nth(s, i) = s[i] /\ s[i] \in Node /\ s[i] # NULL
      /\ Nth(s, 0) = NULL /\ Nth(s, m + 2) = NULL
  <2>1. 0 \notin 1 .. m + 1 /\ m + 2 \notin 1 .. m + 1
    OBVIOUS
  <2> QED BY <1>20, <2>1, NthOf
<1>5. /\ head = Nth(s, 1) /\ tail = s[m + 1] /\ \A i \in 1 .. m + 1 : next[s[i]] = Nth(s, i + 1) /\ prev[s[i]] = Nth(s, i - 1)
  <2>1. m + 1 \in 1 .. m + 1
    OBVIOUS
  <2> QED BY <1>2, <1>4, <1>20, <2>1 DEF Rest, Whole, Chained
<1>51. \A i \in 0 .. m : next[s[i + 1]] = Nth(s, i + 2) /\ prev[s[i + 1]] = Nth(s, i)
  BY <1>5, <1>30
<1>6. prev[n] = Nth(s, k) /\ next[n] = Nth(s, k + 2) /\ Nth(r, k) = Nth(s, k) /\ Nth(r, k + 1) = Nth(s, k + 2)
  BY <1>21, <1>32, <1>51
<1>7. Nth(s, k) = NULL <=> k = 0
  <2>1. k = 0 \/ k \in 1 .. m + 1
    OBVIOUS
  <2> QED BY <1>4, <2>1
<1>8. /\ head' = Nth(r, 1) /\ \A i \in 1 .. m : next'[r[i]] = Nth(r, i + 1)
      /\ next'[n] = next[n] /\ \A x \in Node \ {n} : x \in Elements(s) \/ next'[x] = next[x]
  <2>1. CASE k = 0
    <3>1. head' = next[n] /\ next' = next
      BY <1>1, <1>6, <1>7, <2>1
    <3>2. \A i \in 1 .. m : next[r[i]] = Nth(r, i + 1)
      <4>1. \A i \in 1 .. m : ~(i <= k) /\ ~(i < k)
        BY <2>1
      <4> QED BY <1>30, <1>31, <1>34, <1>51, <4>1
    <3>3. head' = Nth(r, 1)
      <4>1. k + 1 = 1 /\ k + 2 = 2
        BY <2>1
      <4> QED BY <1>6, <3>1, <4>1
    <3> QED BY <3>1, <3>2, <3>3
  <2>2. CASE k # 0
    <3>1. /\ head' = head /\ next' = [next EXCEPT ![s[k]] = Nth(s, k + 2)] /\ k \in 1 .. m /\ s[k] # n
          /\ s[k] \in Node /\ s[k] \in Elements(s)
      <4>1. k \in 1 .. m /\ k \in 1 .. Len(s) /\ k + 1 \in 1 .. Len(s) /\ k # k + 1 /\ k \in 1 .. m + 1
        BY <1>20, <2>2
      <4>2. s[k] # n /\ s[k] \in Elements(s)
        BY <1>21, <4>1 DEF Once, Elements
      <4>3. s[k] \in Node /\ prev[n] = s[k] /\ prev[n] # NULL
        BY <1>4, <1>6, <1>7, <4>1
      <4> QED BY <1>1, <1>6, <4>1, <4>2, <4>3
    <3>2. ASSUME NEW i \in 1 .. m PROVE next'[r[i]] = Nth(r, i + 1)
      <4>1. CASE i = k
        BY <1>3, <1>31, <1>34, <3>1, <4>1
      <4>2. CASE i < k
        <5>1. r[i] = s[i] /\ i \in 1 .. m + 1 /\ Nth(r, i + 1) = Nth(s, i + 1)
          BY <1>31, <1>34, <4>2
        <5>2. s[i] # s[k]
          <6>1. i \in 1 .. Len(s) /\ k \in 1 .. Len(s) /\ i # k
            BY <1>20, <3>1, <4>2
          <6> QED BY <6>1 DEF Once
        <5> QED BY <1>3, <1>4, <1>5, <3>1, <5>1, <5>2
      <4>3. CASE i > k
        <5>1. r[i] = s[i + 1] /\ i + 1 \in 1 .. m + 1 /\ Nth(r, i + 1) = Nth(s, i + 2)
          BY <1>31, <1>34, <4>3
        <5>2. s[i + 1] # s[k]
          <6>1. i + 1 \in 1 .. Len(s) /\ k \in 1 .. Len(s) /\ i + 1 # k
            BY <1>20, <3>1, <4>3
          <6> QED BY <6>1 DEF Once
        <5>3. i \in 0 .. m
          OBVIOUS
        <5> QED BY <1>3, <1>4, <1>51, <3>1, <5>1, <5>2, <5>3
      <4> QED BY <3>1, <4>1, <4>2, <4>3
    <3>3. next'[n] = next[n] /\ \A x \in Node \ {n} : x \in Elements(s) \/ next'[x] = next[x]
      BY <1>3, <3>1
    <3>4. head' = Nth(r, 1)
      <4>1. 1 \in Int /\ 1 <= k
        BY <2>2
      <4> QED BY <1>5, <1>22, <3>1, <4>1
    <3> QED BY <3>2, <3>3, <3>4
  <2> QED BY <2>1, <2>2
<1>9. \A i \in 1 .. m : prev[r[i]] = IF i = k + 1 THEN n ELSE Nth(r, i - 1)
  <2> SUFFICES ASSUME NEW i \in 1 .. m PROVE prev[r[i]] = IF i = k + 1 THEN n ELSE Nth(r, i - 1)
    OBVIOUS
  <2>1. CASE i <= k
    <3>1. i \in 1 .. m + 1 /\ i # k + 1
      BY <2>1
    <3>2. r[i] = s[i] /\ Nth(r, i - 1) = Nth(s, i - 1)
      BY <1>31, <1>33, <2>1
    <3> QED BY <1>5, <3>1, <3>2
  <2>2. CASE i = k + 1
    <3>1. r[i] = s[i + 1] /\ i \in 0 .. m /\ i \in 1 .. m + 1 /\ s[i] = n
      BY <1>21, <1>31, <2>2
    <3> QED BY <1>4, <1>51, <2>2, <3>1
  <2>3. CASE i > k + 1
    <3>1. r[i] = s[i + 1] /\ i \in 0 .. m /\ i # k + 1 /\ Nth(r, i - 1) = Nth(s, i)
      BY <1>31, <1>33, <2>3
    <3> QED BY <1>51, <3>1
  <2> QED BY <2>1, <2>2, <2>3
<1>10. tail = IF k = m THEN n ELSE Nth(r, m)
  <2>1. CASE k = m
    BY <1>5, <1>21, <2>1
  <2>2. CASE k # m
    <3>1. Nth(r, m) = Nth(s, m + 1)
      BY <1>22, <2>2
    <3> QED BY <1>4, <1>5, <2>2, <3>1
  <2> QED BY <2>1, <2>2
<1>11. Tidy' /\ Entries' = Entries
  <2>1. Elements(s) \subseteq created /\ n \in created
    BY <1>2, EntriesCreated DEF Rest, Holds
  <2>2. \A x \in Node \ created : next'[x] = next[x]
    BY <1>8, <2>1
  <2> QED BY <1>1, <2>2, TidyStays DEF callVars
<1>12. HalfOut(r, n)'
  <2>1. Chained(r)'
    BY <1>8, <1>22 DEF Chained
  <2>2. /\ prev'[n] = Nth(r, k) /\ next'[n] = Nth(r, k + 1) /\ tail' = IF k = Len(r) THEN n ELSE Nth(r, Len(r))
        /\ \A i \in 1 .. Len(r) : prev'[r[i]] = IF i = k + 1 THEN n ELSE Nth(r, i - 1)
    BY <1>1, <1>6, <1>8, <1>9, <1>10, <1>22
  <2>3. k \in 0 .. Len(r)
    BY <1>22
  <2> QED BY <2>1, <2>2, <2>3 DEF HalfOut
<1>13. HoldsBut(r, n)'
  BY <1>2, <1>11, <1>22 DEF HoldsBut, Rest, Holds
<1>14. InGoodOrder(t, r)'
  BY <1>1, <1>2, <1>3, <1>12, <1>13 DEF InGoodOrder, AtPosition, CachePc, MovePc
<1>15. k \in 0 .. Len(s) - 1
  BY <1>20
<1> QED BY <1>11, <1>14, <1>15, <1>21, <1>22

LEMMA UnlinkBackOrder ==
  ASSUME TypeInv, Tidy, NEW t \in Thread, NEW s \in Seq(Node), Once(s), InGoodOrder(t, s), UnlinkBack(t)
  PROVE  Tidy' /\ InGoodOrder(t, s)'
<1> PICK n \in Node : n = node[t]
  BY CacheTypes DEF UnlinkBack, In, Go, Handling, CachePc
<1>1. /\ pc[t] = "unlinkBack" /\ UNCHANGED <<path, callVars, hashmap, created, crashed, head, next>>
      /\ pc' = [pc EXCEPT ![t] = IF call[t] = "evict" THEN "free" ELSE "link"]
      /\ IF next[n] = NULL THEN tail' = prev[n] /\ UNCHANGED prev
         ELSE prev' = [prev EXCEPT ![next[n]] = prev[n]] /\ UNCHANGED tail
  BY DEF UnlinkBack, In, Go
<1>2. HalfOut(s, n) /\ HoldsBut(s, n) /\ call[t] # "evict" /\ key(n) = Bucket[path[t]]
  BY <1>1 DEF InGoodOrder, AtPosition, CachePc, MovePc
<1>3. prev \in [Node -> Node \cup {NULL}] /\ pc'[t] = "link" /\ node'[t] = n /\ call'[t] # "evict"
  BY <1>1, <1>2, CacheTypes DEF callVars
<1> PICK m \in Nat : m = Len(s)
  BY NthOf
<1> PICK k \in 0 .. m :
      /\ prev[n] = Nth(s, k) /\ next[n] = Nth(s, k + 1)
      /\ tail = IF k = m THEN n ELSE Nth(s, m)
      /\ \A i \in 1 .. m : prev[s[i]] = IF i = k + 1 THEN n ELSE Nth(s, i - 1)
  BY <1>2 DEF HalfOut
<1>4. /\ \A i \in 1 .. m : Nth(s, i) = s[i] /\ s[i] \in Node /\ s[i] # NULL /\ s[i] \in Elements(s)
      /\ Nth(s, m + 1) = NULL
  BY NthOf DEF Elements
<1>5. /\ tail' = Nth(s, m) /\ \A i \in 1 .. m : prev'[s[i]] = Nth(s, i - 1)
      /\ \A x \in Node : x \in Elements(s) \/ prev'[x] = prev[x]
  <2>1. CASE k = m
    <3>1. next[n] = NULL
      BY <1>4, <2>1
    <3>2. tail' = Nth(s, m) /\ prev' = prev
      BY <1>1, <2>1, <3>1
    <3>3. \A i \in 1 .. m : i # k + 1
      BY <2>1
    <3> QED BY <3>2, <3>3
  <2>2. CASE k # m
    <3>1. k + 1 \in 1 .. m
      BY <2>2
    <3>2. next[n] = s[k + 1] /\ next[n] # NULL /\ s[k + 1] \in Node /\ s[k + 1] \in Elements(s)
      BY <1>4, <3>1
    <3>3. prev' = [prev EXCEPT ![s[k + 1]] = Nth(s, k)] /\ tail' = tail
      BY <1>1, <3>2
    <3>4. \A i \in 1 .. m : prev'[s[i]] = Nth(s, i - 1)
      <4> SUFFICES ASSUME NEW i \in 1 .. m PROVE prev'[s[i]] = Nth(s, i - 1)
        OBVIOUS
      <4>1. CASE i = k + 1
        <5>1. i - 1 = k
          BY <4>1
        <5> QED BY <1>3, <3>2, <3>3, <4>1, <5>1
      <4>2. CASE i # k + 1
        <5>1. s[i] # s[k + 1]
          BY <3>1, <4>2 DEF Once
        <5> QED BY <1>3, <1>4, <3>3, <4>2, <5>1
      <4> QED BY <4>1, <4>2
    <3> QED BY <1>3, <2>2, <3>2, <3>3, <3>4
  <2> QED BY <2>1, <2>2
<1>6. Tidy' /\ Entries' = Entries
  <2>1. Elements(s) \subseteq created
    BY <1>2, EntriesCreated DEF HoldsBut
  <2>2. \A x \in Node \ created : prev'[x] = prev[x]
    BY <1>5, <2>1
  <2> QED BY <1>1, <2>2, TidyStays DEF callVars
<1>7. Whole(s)' /\ HoldsBut(s, n)'
  BY <1>1, <1>2, <1>5, <1>6 DEF Whole, Chained, HalfOut, HoldsBut
<1>8. InGoodOrder(t, s)'
  BY <1>1, <1>2, <1>3, <1>7 DEF InGoodOrder, AtPosition, CachePc, MovePc
<1> QED BY <1>6, <1>8

LEMMA LinkOrder ==
  ASSUME TypeInv, Tidy, NEW t \in Thread, NEW s \in Seq(Node), Once(s), InGoodOrder(t, s), Link(t)
  PROVE  Tidy' /\ InGoodOrder(t, s)'
<1>0. PICK n \in Node : n = node[t]
  BY CacheTypes DEF Link, In, Go, Handling, CachePc
<1>1. /\ pc[t] = "link" /\ pc' = [pc EXCEPT ![t] = "linkHead"]
      /\ UNCHANGED <<path, callVars, hashmap, created, crashed, head, tail>>
      /\ next' = [next EXCEPT ![n] = head] /\ prev' = [prev EXCEPT ![n] = NULL]
  BY <1>0 DEF Link, In, Go
<1>2. Whole(s) /\ HoldsBut(s, n) /\ call[t] # "evict" /\ key(n) = Bucket[path[t]]
  BY <1>0, <1>1 DEF InGoodOrder, AtPosition, CachePc, MovePc
<1>3. /\ next'[n] = head' /\ prev'[n] = NULL /\ \A x \in Node \ {n} : next'[x] = next[x] /\ prev'[x] = prev[x]
      /\ pc'[t] = "linkHead" /\ node'[t] = n /\ call'[t] # "evict"
  BY <1>0, <1>1, <1>2, CacheTypes DEF callVars
<1>4. \A i \in 1 .. Len(s) : s[i] \in Node \ {n}
  BY <1>2, NthOf DEF HoldsBut, Elements
<1>5. Tidy' /\ Entries' = Entries
  <2>1. n \in created
    BY <1>2, EntriesCreated DEF HoldsBut
  <2>2. \A x \in Node \ created : next'[x] = next[x] /\ prev'[x] = prev[x]
    BY <1>3, <2>1
  <2> QED BY <1>1, <2>2, TidyStays DEF callVars
<1>6. Whole(s)' /\ HoldsBut(s, n)'
  BY <1>1, <1>2, <1>3, <1>4, <1>5 DEF Whole, Chained, HoldsBut
<1>7. InGoodOrder(t, s)'
  BY <1>1, <1>2, <1>3, <1>6 DEF InGoodOrder, AtPosition, CachePc, MovePc
<1> QED BY <1>5, <1>7

\* LinkHead, and InsertsBack in the same way: the first node is told of the one to come.
LEMMA FirstIsTold ==
  ASSUME TypeInv, Tidy, NEW s \in Seq(Node), Once(s), NEW n \in Node, Whole(s), HoldsBut(s, n),
         next[n] = head, prev[n] = NULL,
         prev' = IF head = NULL THEN prev ELSE [prev EXCEPT ![head] = n],
         UNCHANGED <<head, tail, next, hashmap, created, crashed, size>>
  PROVE  Tidy' /\ HalfIn(s, n)' /\ HoldsBut(s, n)'
<1>1. prev \in [Node -> Node \cup {NULL}] /\ head = Nth(s, 1)
  BY DEF TypeInv, CacheTypeOK, Whole, Chained
<1>2. \A i \in 1 .. Len(s) : s[i] \in Node /\ s[i] # NULL /\ s[i] # n /\ s[i] \in Elements(s)
  BY NthOf DEF HoldsBut, Elements
<1>3. CASE Len(s) = 0
  <2>1. head = NULL /\ prev' = prev
    BY <1>1, <1>3, NthOf
  <2>2. Tidy' /\ Entries' = Entries
    BY <2>1, TidyStays
  <2> QED BY <1>3, <2>1, <2>2 DEF HalfIn, Whole, Chained, HoldsBut
<1>4. CASE Len(s) # 0
  <2>1. 1 \in 1 .. Len(s)
    BY <1>4, NthOf
  <2>2. head = s[1] /\ head # NULL
    BY <1>1, <1>2, <2>1, NthOf
  <2>3. prev' = [prev EXCEPT ![s[1]] = n] /\ s[1] \in Node /\ s[1] \in Elements(s) /\ s[1] # n
    BY <1>2, <2>1, <2>2
  <2>4. /\ \A i \in 1 .. Len(s) : i # 1 => s[i] # s[1]
        /\ prev'[s[1]] = n /\ \A x \in Node : x # s[1] => prev'[x] = prev[x]
    BY <1>1, <2>1, <2>3 DEF Once
  <2>5. \A i \in 1 .. Len(s) : prev'[s[i]] = IF i = 1 THEN n ELSE Nth(s, i - 1)
    BY <1>2, <2>4 DEF Whole
  <2>6. prev'[n] = NULL
    BY <2>3, <2>4
  <2>7. Tidy' /\ Entries' = Entries
    <3>1. s[1] \in created
      BY <2>3, EntriesCreated DEF HoldsBut
    <3>2. \A x \in Node \ created : prev'[x] = prev[x]
      BY <2>4, <3>1
    <3> QED BY <3>2, TidyStays
  <2>8. HalfIn(s, n)'
    BY <2>5, <2>6 DEF HalfIn, Whole, Chained
  <2> QED BY <2>7, <2>8 DEF HoldsBut
<1> QED BY <1>3, <1>4

LEMMA LinkHeadOrder ==
  ASSUME TypeInv, Tidy, NEW t \in Thread, NEW s \in Seq(Node), Once(s), InGoodOrder(t, s),
         LinkHead(t) \/ InsertsBack(t)
  PROVE  Tidy' /\ InGoodOrder(t, s)'
<1>0. PICK n \in Node : n = node[t]
  BY CacheTypes DEF LinkHead, InsertsBack, In, Go, Handling, CachePc
<1>1. PICK q \in {"setHead", "insertHead"} :
        /\ pc[t] = (IF q = "setHead" THEN "linkHead" ELSE "insertBack") /\ pc' = [pc EXCEPT ![t] = q]
        /\ UNCHANGED <<path, callVars, hashmap, created, crashed, head, tail, next>>
        /\ prev' = IF head = NULL THEN prev ELSE [prev EXCEPT ![head] = n]
  BY <1>0 DEF LinkHead, InsertsBack, In, Go
<1>2. /\ Whole(s) /\ HoldsBut(s, n) /\ next[n] = head /\ prev[n] = NULL /\ call[t] # "evict"
      /\ q = "insertHead" => head # NULL
      /\ q = "setHead" => key(n) = Bucket[path[t]]
  BY <1>0, <1>1 DEF InGoodOrder, AtPosition, CachePc, MovePc
<1>3. pc'[t] = q /\ node'[t] = n /\ call'[t] # "evict" /\ head' = head
  BY <1>0, <1>1, <1>2, CacheTypes DEF callVars
<1>4. Tidy' /\ HalfIn(s, n)' /\ HoldsBut(s, n)'
  <2>1. UNCHANGED <<head, tail, next, hashmap, created, crashed, size>>
    BY <1>1 DEF callVars
  <2> QED BY <1>1, <1>2, <2>1, FirstIsTold
<1>5. InGoodOrder(t, s)'
  BY <1>1, <1>2, <1>3, <1>4 DEF InGoodOrder, AtPosition, CachePc, MovePc
<1> QED BY <1>4, <1>5

\* SetHead, and InsertsHead in the same way: the node becomes the first of the list.
LEMMA BecomesFirst ==
  ASSUME TypeInv, Tidy, NEW s \in Seq(Node), Once(s), NEW n \in Node, HalfIn(s, n), HoldsBut(s, n),
         head' = n, UNCHANGED <<tail, next, prev, hashmap, created, crashed, size>>
  PROVE  /\ Tidy'
         /\ \E r \in Seq(Node) : /\ HasFirst(r, n, s) /\ Headed(r)' /\ Holds(r)' /\ r # <<>> /\ r[1] = n
                                 /\ (head # NULL => Len(r) # 1)
<1>1. PICK r \in Seq(Node) : HasFirst(r, n, s)
  BY WithFirst DEF HoldsBut
<1>2. PICK m \in Nat : m = Len(s) /\ Len(r) = m + 1
  BY <1>1, NthOf DEF HasFirst
<1>3. /\ Once(r) /\ Elements(r) = Elements(s) \cup {n} /\ r # <<>> /\ r[1] = n /\ Nth(r, 1) = n
      /\ \A i \in 1 .. m + 1 : i = 1 \/ (i - 1 \in 1 .. m /\ r[i] = s[i - 1])
      /\ \A i \in Nat \ {0} : Nth(r, i + 1) = Nth(s, i)
  BY <1>1, <1>2 DEF HasFirst
<1>4. /\ head = Nth(s, 1) /\ next[n] = head /\ prev[n] = NULL /\ tail = Nth(s, m)
      /\ \A i \in 1 .. m : next[s[i]] = Nth(s, i + 1) /\ prev[s[i]] = IF i = 1 THEN n ELSE Nth(s, i - 1)
  BY <1>2 DEF HalfIn, Chained
<1>5. \A i \in 1 .. m : Nth(s, i) = s[i] /\ s[i] # NULL
  BY <1>2, NthOf
<1>6. Nth(s, 0) = NULL /\ Nth(r, 0) = NULL /\ (Nth(s, 1) = NULL <=> m = 0)
  <2>1. 0 \notin 1 .. m /\ 0 \notin 1 .. m + 1
    OBVIOUS
  <2> QED BY <1>2, <2>1, NthOf
<1>7. \A i \in 1 .. m + 1 : next[r[i]] = Nth(r, i + 1) /\ prev[r[i]] = Nth(r, i - 1)
  <2> SUFFICES ASSUME NEW i \in 1 .. m + 1 PROVE next[r[i]] = Nth(r, i + 1) /\ prev[r[i]] = Nth(r, i - 1)
    OBVIOUS
  <2>1. CASE i = 1
    <3>1. next[r[i]] = Nth(s, 1) /\ Nth(r, i + 1) = Nth(s, 1) /\ i - 1 = 0 /\ prev[r[i]] = NULL
      BY <1>3, <1>4, <2>1
    <3> QED BY <1>6, <3>1
  <2>2. CASE i # 1
    <3>1. PICK j \in 1 .. m : i = j + 1 /\ r[i] = s[j]
      <4>1. i - 1 \in 1 .. m /\ r[i] = s[i - 1] /\ i = (i - 1) + 1
        BY <1>3, <2>2
      <4> QED BY <4>1
    <3>2. next[r[i]] = Nth(r, i + 1)
      <4>1. next[s[j]] = Nth(s, j + 1) /\ j + 1 \in Nat \ {0}
        BY <1>4
      <4> QED BY <1>3, <3>1, <4>1
    <3>3. prev[r[i]] = Nth(r, i - 1)
      <4>1. i - 1 = j /\ prev[s[j]] = IF j = 1 THEN n ELSE Nth(s, j - 1)
        BY <1>4, <3>1
      <4>2. j # 1 => j - 1 \in Nat \ {0} /\ (j - 1) + 1 = j
        OBVIOUS
      <4>3. j # 1 => Nth(r, j) = Nth(s, j - 1)
        BY <1>3, <4>2
      <4> QED BY <1>3, <3>1, <4>1, <4>3
    <3> QED BY <3>2, <3>3
  <2> QED BY <2>1, <2>2
<1>8. tail = IF m + 1 = 1 THEN NULL ELSE Nth(r, m + 1)
  <2>1. CASE m = 0
    BY <1>4, <1>6, <2>1
  <2>2. CASE m # 0
    <3>1. m \in Nat \ {0}
      BY <2>2
    <3> QED BY <1>3, <1>4, <2>2, <3>1
  <2> QED BY <2>1, <2>2
<1>9. Headed(r)'
  BY <1>2, <1>3, <1>7, <1>8 DEF Headed, Chained
<1>10. Tidy' /\ Entries' = Entries
  BY TidyStays
<1>11. Holds(r)'
  BY <1>3, <1>10 DEF Holds, HoldsBut
<1>12. head # NULL => Len(r) # 1
  BY <1>2, <1>4, <1>6
<1> QED BY <1>1, <1>3, <1>9, <1>10, <1>11, <1>12

LEMMA SetHeadOrder ==
  ASSUME TypeInv, Tidy, NEW t \in Thread, NEW s \in Seq(Node), Once(s), InGoodOrder(t, s),
         SetHead(t) \/ InsertsHead(t)
  PROVE  Tidy' /\ \E r \in Seq(Node) : HasFirst(r, node[t], s) /\ InGoodOrder(t, r)'
<1>0. PICK n \in Node : n = node[t]
  BY CacheTypes DEF SetHead, InsertsHead, In, Go, Handling, CachePc
<1>1. PICK q \in {"setTail", "count"} :
        /\ pc[t] = (IF q = "setTail" THEN "setHead" ELSE "insertHead") /\ pc' = [pc EXCEPT ![t] = q]
        /\ head' = n /\ UNCHANGED <<path, callVars, hashmap, created, crashed, tail, next, prev>>
  BY <1>0 DEF SetHead, InsertsHead, In, Go
<1>2. /\ HalfIn(s, n) /\ HoldsBut(s, n) /\ call[t] # "evict" /\ (q = "count" => head # NULL)
      /\ (q = "setTail" => key(n) = Bucket[path[t]])
  BY <1>0, <1>1 DEF InGoodOrder, AtPosition, CachePc, MovePc
<1>3. pc'[t] = q /\ node'[t] = n /\ call'[t] # "evict"
  BY <1>0, <1>1, <1>2, CacheTypes DEF callVars
<1>4. UNCHANGED <<tail, next, prev, hashmap, created, crashed, size>>
  BY <1>1 DEF callVars
<1>5. Tidy'
  BY <1>1, <1>2, <1>4, BecomesFirst
<1>6. PICK r \in Seq(Node) : HasFirst(r, n, s) /\ Headed(r)' /\ Holds(r)' /\ r # <<>> /\ r[1] = n /\ (head # NULL => Len(r) # 1)
  BY <1>1, <1>2, <1>4, BecomesFirst
<1>7. q = "count" => Rest(r)'
  BY <1>2, <1>6 DEF Rest, Whole, Headed
<1>8. InGoodOrder(t, r)'
  BY <1>1, <1>2, <1>3, <1>6, <1>7 DEF InGoodOrder, AtPosition, CachePc, MovePc
<1> QED BY <1>0, <1>5, <1>6, <1>8

LEMMA SetTailOrder ==
  ASSUME TypeInv, Tidy, NEW t \in Thread, NEW s \in Seq(Node), Once(s), InGoodOrder(t, s), SetTail(t)
  PROVE  Tidy' /\ InGoodOrder(t, s)' /\ s # <<>> /\ key(s[1]) = Bucket[path[t]]
<1>0. PICK n \in Node : n = node[t]
  BY CacheTypes DEF SetTail, In, Go, Handling, CachePc
<1>1. PICK q \in {"hit", "stored"} :
        /\ pc[t] = "setTail" /\ pc' = [pc EXCEPT ![t] = q] /\ tail' = IF tail = NULL THEN n ELSE tail
        /\ UNCHANGED <<path, callVars, hashmap, created, crashed, head, next, prev>>
  BY <1>0 DEF SetTail, In, Go
<1>2. Headed(s) /\ Holds(s) /\ s # <<>> /\ n = s[1] /\ key(n) = Bucket[path[t]]
  BY <1>0, <1>1 DEF InGoodOrder, AtPosition, CachePc, MovePc
<1>3. pc'[t] \notin CachePc
  BY <1>1, CacheTypes DEF CachePc
<1>4. Tidy' /\ Entries' = Entries
  BY <1>1, TidyStays DEF callVars
<1>5. PICK m \in Nat : m = Len(s) /\ m # 0
  BY <1>2, NthOf, EmptySeq
<1>6. tail' = Nth(s, m)
  <2>1. 1 \in 1 .. m /\ m \in 1 .. m
    BY <1>5
  <2>2. Nth(s, 1) = n /\ Nth(s, m) # NULL
    BY <1>2, <1>5, <2>1, NthOf
  <2>3. tail = IF m = 1 THEN NULL ELSE Nth(s, m)
    BY <1>2, <1>5 DEF Headed
  <2> QED BY <1>1, <2>2, <2>3
<1>7. Rest(s)'
  BY <1>1, <1>2, <1>4, <1>5, <1>6 DEF Rest, Whole, Chained, Headed, Holds
<1>8. InGoodOrder(t, s)'
  BY <1>3, <1>7 DEF InGoodOrder
<1> QED BY <1>2, <1>4, <1>8

LEMMA CreateOrder ==
  ASSUME TypeInv, Tidy, NEW t \in Thread, NEW s \in Seq(Node), Once(s), InGoodOrder(t, s), createNode(t)
  PROVE  Tidy' /\ InGoodOrder(t, s)'
<1>0. PICK b \in 1 .. CACHE_SIZE : b = Bucket[path[t]]
  BY CacheTypes DEF createNode, Go
<1>1. PICK n \in Node \ created :
        /\ key(n) = b /\ created' = created \cup {n} /\ hashmap' = [hashmap EXCEPT ![b] = n]
        /\ node' = [node EXCEPT ![t] = n]
  BY <1>0 DEF createNode, Fresh
<1>2. /\ pc[t] = "create" /\ pc' = [pc EXCEPT ![t] = "insert"]
      /\ UNCHANGED <<path, call, size, listVars, crashed>>
  BY DEF createNode, Go
<1>3. Rest(s) /\ hashmap[b] = NULL /\ call[t] # "evict"
  BY <1>0, <1>2 DEF InGoodOrder, AtPosition, CachePc
<1>4. /\ pc'[t] = "insert" /\ node'[t] = n /\ call'[t] # "evict" /\ hashmap \in [1 .. CACHE_SIZE -> Node \cup {NULL}]
      /\ n # NULL
  BY <1>1, <1>2, <1>3, CacheTypes, NodeNumbers
<1>5. hashmap'[b] = n /\ \A c \in (1 .. CACHE_SIZE) \ {b} : hashmap'[c] = hashmap[c]
  BY <1>1, <1>4
<1>6. Tidy'
  <2>1. \A c \in 1 .. CACHE_SIZE : hashmap'[c] # NULL => key(hashmap'[c]) = c /\ hashmap'[c] \in created'
    <3> SUFFICES ASSUME NEW c \in 1 .. CACHE_SIZE, hashmap'[c] # NULL
                 PROVE key(hashmap'[c]) = c /\ hashmap'[c] \in created'
      OBVIOUS
    <3>1. CASE c = b
      BY <1>1, <1>5, <3>1
    <3>2. CASE c # b
      BY <1>1, <1>5, <3>2 DEF Tidy
    <3> QED BY <3>1, <3>2
  <2>2. \A x \in Node \ created' : next'[x] = NULL /\ prev'[x] = NULL
    BY <1>1, <1>2 DEF Tidy, listVars
  <2> QED BY <1>2, <2>1, <2>2 DEF Tidy
<1>7. HoldsBut(s, n)'
  <2>1. Entries' = Entries \cup {n}
    BY <1>3, <1>4, <1>5 DEF Entries
  <2>2. n \notin Entries
    BY <1>1, EntriesCreated
  <2> QED BY <1>3, <2>1, <2>2 DEF HoldsBut, Rest, Holds
<1>8. Whole(s)' /\ next'[n] = NULL /\ prev'[n] = NULL
  BY <1>1, <1>2, <1>3 DEF Rest, Whole, Chained, listVars, Tidy
<1>9. InGoodOrder(t, s)'
  BY <1>4, <1>7, <1>8 DEF InGoodOrder, AtPosition, CachePc, MovePc
<1> QED BY <1>6, <1>9

LEMMA InsertsOrder ==
  ASSUME TypeInv, Tidy, NEW t \in Thread, NEW s \in Seq(Node), Once(s), InGoodOrder(t, s), Inserts(t)
  PROVE  /\ Tidy'
         /\ \E r \in Seq(Node) : /\ Once(r) /\ InGoodOrder(t, r)'
                                 /\ IF head = NULL THEN s = <<>> /\ HasFirst(r, node[t], s) ELSE r = s
<1>0. PICK n \in Node : n = node[t]
  BY CacheTypes DEF Inserts, In, Go, Handling, CachePc
<1>1. /\ pc[t] = "insert" /\ UNCHANGED <<path, callVars, hashmap, created, crashed, prev>>
  BY DEF Inserts, In, Go
<1>2. Whole(s) /\ HoldsBut(s, n) /\ next[n] = NULL /\ prev[n] = NULL /\ call[t] # "evict"
  BY <1>0, <1>1 DEF InGoodOrder, AtPosition, CachePc
<1>3. node'[t] = n /\ call'[t] # "evict" /\ next \in [Node -> Node \cup {NULL}] /\ n \in created
  BY <1>0, <1>1, <1>2, CacheTypes, EntriesCreated DEF callVars, HoldsBut
<1>4. CASE head = NULL
  <2>1. pc'[t] = "count" /\ head' = n /\ tail' = n /\ next' = next
    BY <1>0, <1>4, CacheTypes DEF Inserts, In, Go
  <2>2. Tidy' /\ Entries' = Entries
    BY <1>1, <2>1, TidyStays DEF callVars
  <2>3. PICK r \in Seq(Node) : HasFirst(r, n, s)
    BY <1>2, WithFirst DEF HoldsBut
  <2>4. Len(s) = 0
    BY <1>2, <1>4, NthOf DEF Whole, Chained
  <2>5. Once(r) /\ Elements(r) = Elements(s) \cup {n} /\ Len(r) = 1 /\ Nth(r, 1) = n /\ r[1] = n
    BY <2>3, <2>4 DEF HasFirst
  <2>6. Nth(r, 0) = NULL /\ Nth(r, 2) = NULL
    <3>1. 0 \notin 1 .. 1 /\ 2 \notin 1 .. 1
      OBVIOUS
    <3> QED BY <2>5, <3>1, NthOf
  <2>7. Whole(r)'
    <3>1. \A i \in 1 .. Len(r) : i = 1 /\ i + 1 = 2 /\ i - 1 = 0
      BY <2>5
    <3>2. \A i \in 1 .. Len(r) : next'[r[i]] = Nth(r, i + 1) /\ prev'[r[i]] = Nth(r, i - 1)
      BY <1>1, <1>2, <2>1, <2>5, <2>6, <3>1
    <3> QED BY <2>1, <2>5, <3>2 DEF Whole, Chained
  <2>8. Holds(r)'
    BY <1>2, <2>2, <2>5 DEF Holds, HoldsBut
  <2>9. InGoodOrder(t, r)'
    BY <1>3, <2>1, <2>7, <2>8 DEF InGoodOrder, AtPosition, CachePc, MovePc, Rest
  <2>10. s = <<>>
    BY <2>4, EmptySeq
  <2> QED BY <1>0, <1>4, <2>2, <2>3, <2>5, <2>9, <2>10
<1>5. CASE head # NULL
  <2>1. pc'[t] = "insertBack" /\ next' = [next EXCEPT ![n] = head] /\ UNCHANGED <<head, tail>>
    BY <1>0, <1>5, CacheTypes DEF Inserts, In, Go
  <2>2. next'[n] = head /\ \A x \in Node \ {n} : next'[x] = next[x]
    BY <1>3, <2>1
  <2>3. Tidy' /\ Entries' = Entries
    <3>1. \A x \in Node \ created : next'[x] = next[x]
      BY <1>3, <2>2
    <3> QED BY <1>1, <3>1, TidyStays DEF callVars
  <2>4. \A i \in 1 .. Len(s) : s[i] \in Node \ {n}
    BY <1>2, NthOf DEF HoldsBut, Elements
  <2>5. Whole(s)' /\ HoldsBut(s, n)'
    BY <1>1, <1>2, <2>1, <2>2, <2>3, <2>4 DEF Whole, Chained, HoldsBut
  <2>6. next'[n] = head' /\ prev'[n] = NULL /\ head' # NULL
    BY <1>1, <1>2, <1>5, <2>1, <2>2
  <2>7. InGoodOrder(t, s)'
    BY <1>3, <2>1, <2>5, <2>6 DEF InGoodOrder, AtPosition, CachePc, MovePc
  <2> QED BY <1>5, <2>3, <2>7
<1> QED BY <1>4, <1>5

\* cacheSize counts the nodes of the list, of which there are not too many.
LEMMA CountOrder ==
  ASSUME TypeInv, Tidy, NEW t \in Thread, NEW s \in Seq(Node), Once(s), InGoodOrder(t, s),
         BeginsCount(t) \/ cacheSize(t) \/ EndsCount(t)
  PROVE  Tidy' /\ InGoodOrder(t, s)'
<1>1. /\ pc[t] \in {"count", "cacheSize"} /\ UNCHANGED <<path, call, cacheVars>>
  BY DEF BeginsCount, cacheSize, EndsCount, Go, callVars
<1>2. Rest(s) /\ call[t] # "evict" /\ (pc[t] = "cacheSize" => size[t] \in 0 .. Len(s) /\ node[t] = Nth(s, size[t] + 1))
  BY <1>1 DEF InGoodOrder, AtPosition, CachePc
<1>3. PICK m \in Nat : m = Len(s) /\ m <= CACHE_SIZE /\ CACHE_SIZE \in Nat
  BY <1>2, NotTooLong, NthOf, Constants DEF Rest, Holds
<1>4. /\ size \in [Thread -> 0 .. CACHE_SIZE + 1] /\ node \in [Thread -> Node \cup {NULL}]
      /\ pc \in [All -> HandlerPc \cup OtherPc] /\ t \in All
  BY CacheTypes
<1>5. Rest(s)' /\ Entries' = Entries
  BY <1>1, <1>2 DEF Rest, Whole, Chained, Holds, Entries, cacheVars, listVars
<1>6. ASSUME \A u \in Thread : size'[u] <= CACHE_SIZE PROVE Tidy'
  BY <1>1, <1>6 DEF Tidy, cacheVars, listVars
<1>7. CASE BeginsCount(t)
  <2>1. pc'[t] = "cacheSize" /\ node'[t] = Nth(s, 1) /\ size'[t] = 0 /\ \A u \in Thread \ {t} : size'[u] = size[u]
    BY <1>2, <1>4, <1>7 DEF BeginsCount, Go, Rest, Whole, Chained
  <2>2. Tidy'
    <3>1. \A u \in Thread : size'[u] <= CACHE_SIZE
      BY <1>3, <2>1 DEF Tidy
    <3> QED BY <1>6, <3>1
  <2>3. size'[t] \in 0 .. Len(s) /\ node'[t] = Nth(s, size'[t] + 1) /\ call'[t] # "evict"
    BY <1>1, <1>2, <1>3, <2>1
  <2>4. InGoodOrder(t, s)'
    BY <1>5, <2>1, <2>3 DEF InGoodOrder, AtPosition, CachePc, MovePc
  <2> QED BY <2>2, <2>4
<1>8. CASE cacheSize(t)
  <2>1. PICK k \in 0 .. m : k = size[t] /\ node[t] = Nth(s, k + 1) /\ node[t] # NULL
    BY <1>2, <1>3, <1>8 DEF cacheSize, Go
  <2>2. k + 1 \in 1 .. m /\ k <= CACHE_SIZE
    <3>1. k + 1 \in 1 .. m
      BY <1>3, <2>1, NthOf
    <3> QED BY <1>3, <3>1
  <2>3. node[t] = s[k + 1] /\ next[s[k + 1]] = Nth(s, (k + 1) + 1)
    BY <1>2, <1>3, <2>1, <2>2, NthOf DEF Rest, Whole, Chained
  <2>4. pc'[t] = "cacheSize" /\ size'[t] = k + 1 /\ \A u \in Thread \ {t} : size'[u] = size[u]
    <3>1. ~(size[t] > CACHE_SIZE)
      BY <1>3, <2>1, <2>2
    <3>2. pc'[t] = "cacheSize" /\ size' = [size EXCEPT ![t] = size[t] + 1]
      BY <1>4, <1>8, <3>1 DEF cacheSize, Go
    <3> QED BY <1>4, <2>1, <3>2
  <2>5. node'[t] = Nth(s, (k + 1) + 1)
    BY <1>4, <1>8, <2>3 DEF cacheSize
  <2>6. Tidy'
    <3>1. \A u \in Thread : size'[u] <= CACHE_SIZE
      BY <1>3, <2>2, <2>4 DEF Tidy
    <3> QED BY <1>6, <3>1
  <2>7. size'[t] \in 0 .. Len(s) /\ node'[t] = Nth(s, size'[t] + 1) /\ call'[t] # "evict"
    BY <1>1, <1>2, <1>3, <2>2, <2>4, <2>5
  <2>8. InGoodOrder(t, s)'
    BY <1>5, <2>4, <2>7 DEF InGoodOrder, AtPosition, CachePc, MovePc
  <2> QED BY <2>6, <2>8
<1>9. CASE EndsCount(t)
  <2>1. pc'[t] = "stored" /\ UNCHANGED size
    <3>1. ~(size[t] > CACHE_SIZE)
      BY <1>3, <1>4 DEF Tidy
    <3> QED BY <1>4, <1>9, <3>1 DEF EndsCount, Go, callVars
  <2>2. Tidy'
    BY <1>6, <2>1 DEF Tidy
  <2>3. InGoodOrder(t, s)'
    BY <1>5, <2>1 DEF InGoodOrder, CachePc
  <2> QED BY <2>2, <2>3
<1> QED BY <1>7, <1>8, <1>9

LEMMA CacheCallOrder ==
  ASSUME TypeInv, Tidy, NEW t \in Thread, InOrder(t), CacheCall(t)
  PROVE  Tidy' /\ InOrder(t)'
<1>1. PICK s \in Seq(Node) : Once(s) /\ InGoodOrder(t, s)
  BY DEF InOrder
<1>2. ~Evicts(t) /\ ~Frees(t)
  BY <1>1 DEF InGoodOrder, AtPosition, CachePc, Evicts, Frees, Go
<1>3. ~Crashes(t)
  BY <1>1 DEF InGoodOrder, AtPosition, CachePc, Crashes
<1>4. CASE UnlinkFront(t)
  BY <1>1, <1>4, UnlinkFrontOrder DEF InOrder, IsWithout
<1>5. CASE SetHead(t) \/ InsertsHead(t)
  BY <1>1, <1>5, SetHeadOrder DEF InOrder, HasFirst
<1>6. CASE Inserts(t)
  BY <1>1, <1>6, InsertsOrder DEF InOrder
<1>7. CASE ~UnlinkFront(t) /\ ~SetHead(t) /\ ~InsertsHead(t) /\ ~Inserts(t)
  <2>1. Tidy' /\ InGoodOrder(t, s)'
    BY <1>1, <1>2, <1>3, <1>7, LooksOrder, UnlinkBackOrder, LinkOrder, LinkHeadOrder, SetTailOrder, CreateOrder, CountOrder
       DEF CacheCall
  <2> QED BY <1>1, <2>1 DEF InOrder
<1> QED BY <1>4, <1>5, <1>6, <1>7

-----------------------------------------------------------------------------
Ordered ==
  /\ Tidy
  /\ \E s \in Seq(Node) : /\ Once(s) /\ (InCache = {} => Rest(s))
                          /\ \A t \in InCache : AtPosition(t, s)

CacheInv == ~overlapped => Ordered

LEMMA InitOrdered == Init => CacheInv
<1> SUFFICES ASSUME Init PROVE CacheInv
  OBVIOUS
<1>1. /\ head = NULL /\ tail = NULL /\ hashmap = [b \in 1 .. CACHE_SIZE |-> NULL]
      /\ next = [n \in Node |-> NULL] /\ prev = [n \in Node |-> NULL] /\ created = {} /\ crashed = FALSE
      /\ size = [t \in Thread |-> 0]
  BY DEF Init, createCache
<1>2. Tidy
  BY <1>1, Constants DEF Tidy
<1>3. Rest(<<>>) /\ Once(<<>>)
  <2>1. Len(<<>>) = 0 /\ \A i \in 1 .. 0 : FALSE
    OBVIOUS
  <2>2. Elements(<<>>) = {} /\ Entries = {} /\ Nth(<<>>, 0) = NULL /\ Nth(<<>>, 1) = NULL /\ Once(<<>>)
    BY <1>1, <2>1 DEF Elements, Entries, Nth, Once
  <2> QED BY <1>1, <2>1, <2>2 DEF Rest, Whole, Chained, Holds
<1>4. InCache = {}
  BY Constants DEF Init, InCache
<1>5. <<>> \in Seq(Node)
  OBVIOUS
<1>6. Ordered
  BY <1>2, <1>3, <1>4, <1>5 DEF Ordered
<1> QED BY <1>6, Zenon DEF CacheInv

\* A step outside the cache.
LEMMA CacheStays ==
  ASSUME Ordered, UNCHANGED cacheVars, InCache' = InCache, \A t \in Thread : size'[t] = size[t] \/ size'[t] = 0,
         \A t \in InCache : /\ pc'[t] = pc[t] /\ path'[t] = path[t] /\ call'[t] = call[t] /\ node'[t] = node[t]
                            /\ size'[t] = size[t]
  PROVE  Ordered'
<1>1. Tidy'
  <2>1. Tidy /\ UNCHANGED <<next, prev, hashmap, created, crashed>>
    BY DEF Ordered, cacheVars, listVars
  <2>2. \A t \in Thread : size'[t] <= CACHE_SIZE
    <3>1. 0 <= CACHE_SIZE
      BY Constants
    <3> QED BY <2>1, <3>1 DEF Tidy
  <2> QED BY <2>1, <2>2 DEF Tidy
<1>2. PICK s \in Seq(Node) : /\ Once(s) /\ (InCache = {} => Rest(s)) /\ \A t \in InCache : AtPosition(t, s)
  BY DEF Ordered
<1>3. UNCHANGED <<head, tail, next, prev, hashmap>> /\ Entries' = Entries
  BY DEF cacheVars, listVars, Entries
<1>4. InCache' = {} => Rest(s)'
  BY <1>2, <1>3 DEF Rest, Whole, Chained, Holds
<1>5. ASSUME NEW t \in InCache PROVE AtPosition(t, s)'
  <2>1. AtPosition(t, s)
    BY <1>2, <1>5
  <2> QED BY <1>3, <2>1 DEF AtPosition, MovePc, Rest, Whole, Chained, Holds, HoldsBut, HalfOut, HalfIn, Headed
<1> QED BY <1>1, <1>2, <1>4, <1>5 DEF Ordered

LEMMA InCacheByPc == InCache = {t \in Thread : pc[t] \in CachePc}
  BY DEF InCache, CachePc

\* The flusher walks no other path as long as nobody has met it.
LEMMA FlusherLeavesCache ==
  ASSUME TypeInv, Alone, ~overlapped, Flushes
  PROVE  UNCHANGED <<path, cacheVars, callVars>> /\ \A t \in Thread : pc'[t] = pc[t]
<1>1. pc[Flusher] = "flush" => strtok \in trie
  BY DEF Alone, TypeInv, TrieTypeOK
<1>2. crashed' = crashed /\ UNCHANGED <<path, listVars, hashmap, created, callVars>>
  BY <1>1, FlusherMoves
<1> QED BY <1>2, FlusherMoves, Constants DEF cacheVars

LEMMA OrderedStep == TypeInv /\ Alone /\ Alone' /\ CacheInv /\ [Next]_vars => CacheInv'
<1> SUFFICES ASSUME TypeInv, Alone, Alone', CacheInv, [Next]_vars, ~overlapped' PROVE Ordered'
  BY Zenon DEF CacheInv
<1>1. CASE UNCHANGED vars
  <2>1. UNCHANGED <<cacheVars, callVars, pc, path, overlapped>>
    BY <1>1 DEF vars
  <2>2. Ordered
    BY <2>1 DEF CacheInv
  <2> QED BY <2>1, <2>2, CacheStays DEF callVars, InCache
<1>2. CASE Next
  <2>2. Ordered /\ ~overlapped
    BY <1>2, NextObserves DEF CacheInv
  <2>3. /\ \A t, u \in InCache : t = u
        /\ \A t, u \in InCache' : t = u
    BY <2>2 DEF Alone
  <2>4. pc \in [All -> HandlerPc \cup OtherPc] /\ Thread \subseteq All
    BY Constants DEF TypeInv, ThreadsTypeOK
  <2>5. ASSUME NEW t \in Thread, Requests(t) \/ RequestsRename(t) PROVE Ordered'
    <3> PICK q \in {"walk", "get"}, o \in {"RESOLVE", "LIST"}, p \in Path : Begun(t, q, o, p)
      BY <2>5, RequestBegins
    <3>1. UNCHANGED <<cacheVars, callVars>> /\ pc[t] = "idle" /\ pc' = [pc EXCEPT ![t] = q]
      BY DEF Begun
    <3>2. \A u \in Thread \ {t} : pc'[u] = pc[u] /\ path'[u] = path[u]
      BY <2>4, <3>1 DEF Begun, TypeInv, RequestsTypeOK
    <3>3. t \notin InCache /\ pc'[t] \notin CachePc
      BY <2>4, <3>1, InCacheByPc DEF CachePc
    <3>4. InCache' = InCache
      BY <3>2, <3>3, InCacheByPc DEF InCache, CachePc
    <3> QED BY <2>2, <3>1, <3>2, <3>3, <3>4, CacheStays DEF callVars, InCache
  <2>6. ASSUME NEW t \in Thread, WalkStep(t) PROVE Ordered'
    <3>1. /\ UNCHANGED cacheVars
          /\ \/ UNCHANGED callVars
             \/ /\ call' = [call EXCEPT ![t] = "none"] /\ node' = [node EXCEPT ![t] = NULL]
                /\ size' = [size EXCEPT ![t] = 0]
      BY <2>6 DEF WalkStep, Hits, Misses, BeginsWalk, FindsChild, MissesChild, EndsWalk, Stores, Answers, trieVars, requestVars
    <3>2. pc[t] \notin CachePc /\ pc'[t] \notin CachePc
      BY <2>4, <2>6 DEF WalkStep, Hits, Misses, BeginsWalk, FindsChild, MissesChild, EndsWalk, Stores, Answers, Go, CachePc
    <3>3. \A u \in Thread \ {t} : pc'[u] = pc[u] /\ path'[u] = path[u]
      BY <2>4, <2>6 DEF WalkStep, Hits, Misses, BeginsWalk, FindsChild, MissesChild, EndsWalk, Stores, Answers, Go,
         TypeInv, RequestsTypeOK
    <3>4. InCache' = InCache /\ t \notin InCache
      BY <3>2, <3>3, InCacheByPc DEF InCache, CachePc
    <3>5. \A u \in Thread : /\ u # t => call'[u] = call[u] /\ node'[u] = node[u] /\ size'[u] = size[u]
                            /\ size'[u] = size[u] \/ size'[u] = 0
      BY <3>1, CacheTypes DEF callVars
    <3> QED BY <2>2, <3>1, <3>3, <3>4, <3>5, CacheStays DEF InCache
  <2>7. CASE Inserts_Path
    <3>1. UNCHANGED <<path, cacheVars, callVars>> /\ \A t \in Thread : pc'[t] = pc[t]
      BY <2>7, InserterMoves
    <3>2. InCache' = InCache
      BY <3>1 DEF InCache
    <3> QED BY <2>2, <3>1, <3>2, CacheStays DEF callVars, InCache
  <2>8. ASSUME NEW t \in Thread, CacheCall(t) PROVE Ordered'
    <3>1. UNCHANGED path /\ \A u \in Thread \ {t} : pc'[u] = pc[u] /\ node'[u] = node[u]
      BY <2>4, <2>8, CallMoves DEF CacheMoves
    <3>2. PICK s \in Seq(Node) : /\ Once(s) /\ (InCache = {} => Rest(s)) /\ \A u \in InCache : AtPosition(u, s)
      BY <2>2 DEF Ordered
    <3>3. CASE t \in InCache \/ InCache = {}
      <4>1. InGoodOrder(t, s)
        BY <3>2, <3>3, InCacheByPc DEF InGoodOrder
      <4>2. Tidy' /\ InOrder(t)'
        BY <2>2, <2>8, <3>2, <4>1, CacheCallOrder DEF InOrder, Ordered
      <4>3. PICK r \in Seq(Node) : Once(r) /\ InGoodOrder(t, r)'
        BY <4>2 DEF InOrder
      <4>4. InCache' \subseteq {t} /\ (t \in InCache' <=> pc'[t] \in CachePc)
        BY <2>3, <3>1, <3>3 DEF InCache, CachePc
      <4>5. (InCache' = {} => Rest(r)') /\ \A u \in InCache' : u = t /\ AtPosition(t, r)'
        BY <4>3, <4>4 DEF InGoodOrder
      <4> QED BY <4>2, <4>3, <4>5 DEF Ordered
    <3>4. CASE t \notin InCache /\ InCache # {}
      <4>1. PICK u \in InCache : u # t
        BY <3>4
      <4>2. u \in InCache' /\ t \notin InCache'
        <5>1. u \in InCache'
          BY <3>1, <4>1 DEF InCache
        <5> QED BY <2>3, <4>1, <5>1
      <4>3. get(t) \/ put(t)
        <5>1. pc[t] \notin CachePc
          BY <3>4, InCacheByPc
        <5> QED BY <2>8, <5>1 DEF CacheCall, UnlinkFront, UnlinkBack, Link, LinkHead, SetHead, SetTail, createNode, Inserts,
                   InsertsBack, InsertsHead, BeginsCount, cacheSize, EndsCount, Evicts, Frees, Crashes, In, Go, CachePc
      <4>4. UNCHANGED <<size, cacheVars>> /\ \A v \in Thread \ {t} : call'[v] = call[v]
        BY <4>3, CacheTypes DEF get, put, Looks
      <4>5. InCache' = InCache
        BY <3>1, <3>4, <4>2 DEF InCache
      <4> QED BY <2>2, <3>1, <3>4, <4>4, <4>5, CacheStays DEF InCache
    <3> QED BY <3>3, <3>4
  <2>9. CASE Flushes
    <3>1. UNCHANGED <<path, cacheVars, callVars>> /\ \A t \in Thread : pc'[t] = pc[t]
      BY <2>2, <2>9, FlusherLeavesCache
    <3>2. InCache' = InCache
      BY <3>1 DEF InCache
    <3> QED BY <2>2, <3>1, <3>2, CacheStays DEF callVars, InCache
  <2> QED BY <1>2, <2>5, <2>6, <2>7, <2>8, <2>9 DEF Next, Resolves, WalkStep, Renaming
<1> QED BY <1>1, <1>2

LEMMA CacheInvariant == Spec => [](TypeInv /\ Alone /\ CacheInv)
<1>1. (TypeInv /\ Alone /\ CacheInv) /\ [Next]_vars => (TypeInv /\ Alone /\ CacheInv)'
  BY TypesStep, AloneStep, OrderedStep
<1> QED BY <1>1, InitTypes, InitAlone, InitOrdered, PTL DEF Spec

(* As long as no two calls have overlapped, the cache never has an entry   *)
(* too many: put evicts nothing, its count comes to an end, no NULL        *)
(* pointer is followed, and the log flusher finds the mount trie.          *)
THEOREM NeverEvicts == Spec => []EvictsOnlyAfterOverlap
<1>1. TypeInv /\ CacheInv => EvictsOnlyAfterOverlap
  <2> SUFFICES ASSUME TypeInv, CacheInv, ~overlapped PROVE ~crashed /\ \A t \in Thread : ~(size[t] > CACHE_SIZE)
    BY DEF EvictsOnlyAfterOverlap
  <2>1. Tidy
    BY Zenon DEF CacheInv, Ordered
  <2> QED BY <2>1, CacheTypes, Constants DEF Tidy
<1> QED BY <1>1, CacheInvariant, PTL

-----------------------------------------------------------------------------
LEMMA Induction ==
  ASSUME NEW S, 0 \in S, \A n \in Nat : n \in S => n + 1 \in S
  PROVE  Nat \subseteq S
<1> DEFINE T == Nat \ S
<1> SUFFICES ASSUME T # {} PROVE FALSE
  OBVIOUS
<1>1. PICK m \in T : \A k \in T : m <= k
  BY LeastNumber
<1> QED BY <1>1

\* What Forward reads is the list.
LEMMA ForwardReads ==
  ASSUME TypeInv, Tidy, NEW s \in Seq(Node), Once(s), Chained(s), Elements(s) \subseteq Entries
  PROVE  Forward = s
<1> DEFINE Reads(w) == w = [i \in Node |->
             IF i = 1 THEN head ELSE IF w[i - 1] = NULL THEN NULL ELSE next[w[i - 1]]]
<1>1. PICK m \in Nat : m = Len(s) /\ m <= CACHE_SIZE
  BY NthOf, NotTooLong
<1>2. PICK N \in Nat \ {0} : Node = 1 .. N /\ m <= N
  <2>1. MaxSame \in Nat \ {0} /\ CACHE_SIZE \in Nat \ {0}
    BY Constants
  <2>2. MaxSame * CACHE_SIZE \in Nat /\ MaxSame * CACHE_SIZE >= CACHE_SIZE
    BY <2>1
  <2> PICK N \in Nat : N = MaxSame * CACHE_SIZE
    BY <2>2
  <2>3. N >= CACHE_SIZE /\ N # 0
    BY <2>1, <2>2
  <2> QED BY <1>1, <2>1, <2>3 DEF Node
<1>3. /\ head = Nth(s, 1) /\ \A i \in 1 .. m : next[s[i]] = Nth(s, i + 1) /\ Nth(s, i) = s[i] /\ s[i] # NULL /\ s[i] \in Node
      /\ \A i : i \notin 1 .. m => Nth(s, i) = NULL
  BY <1>1, NthOf DEF Chained
<1>4. ASSUME NEW i \in 1 .. N, i # 1
      PROVE Nth(s, i) = IF Nth(s, i - 1) = NULL THEN NULL ELSE next[Nth(s, i - 1)]
  <2>1. PICK j \in 1 .. N : i = j + 1 /\ i - 1 = j
    <3>1. i - 1 \in 1 .. N /\ i = (i - 1) + 1
      BY <1>4
    <3> QED BY <3>1
  <2>2. CASE j \in 1 .. m
    BY <1>3, <2>1, <2>2
  <2>3. CASE j \notin 1 .. m
    <3>1. i \notin 1 .. m
      BY <2>1, <2>3
    <3> QED BY <1>3, <2>1, <2>3, <3>1
  <2> QED BY <2>2, <2>3
<1>5. \E w : Reads(w)
  <2> DEFINE v == [i \in Node |-> Nth(s, i)]
  <2>1. ASSUME NEW i \in Node
        PROVE v[i] = IF i = 1 THEN head ELSE IF v[i - 1] = NULL THEN NULL ELSE next[v[i - 1]]
    <3>1. v[i] = Nth(s, i) /\ (i # 1 => v[i - 1] = Nth(s, i - 1))
      BY <1>2
    <3> QED BY <1>2, <1>3, <1>4, <3>1
  <2>2. v = [i \in Node |-> v[i]]
    OBVIOUS
  <2> HIDE DEF v
  <2>3. Reads(v)
    BY <2>1, <2>2
  <2> QED BY <2>3
<1> DEFINE w == CHOOSE v : Reads(v)
<1>6. Reads(w)
  BY <1>5
<1>7. Forward = SubSeq(w, 1, Cardinality({i \in Node : w[i] # NULL}))
  BY DEF Forward
<1> HIDE DEF w
<1>8. /\ DOMAIN w = 1 .. N /\ w[1] = head
      /\ \A i \in 1 .. N : i # 1 => w[i] = IF w[i - 1] = NULL THEN NULL ELSE next[w[i - 1]]
  BY <1>2, <1>6
<1>9. \A i \in 1 .. N : w[i] = Nth(s, i)
  <2> DEFINE S == {i \in Nat : i + 1 <= N => w[i + 1] = Nth(s, i + 1)}
  <2>1. 0 \in S
    BY <1>3, <1>8
  <2>2. ASSUME NEW i \in Nat, i \in S PROVE i + 1 \in S
    <3> SUFFICES ASSUME (i + 1) + 1 <= N PROVE w[(i + 1) + 1] = Nth(s, (i + 1) + 1)
      OBVIOUS
    <3>1. PICK j \in 1 .. N : j = i + 1 /\ j + 1 \in 1 .. N /\ j + 1 # 1 /\ (j + 1) - 1 = j
      OBVIOUS
    <3>2. w[j] = Nth(s, j)
      BY <2>2, <3>1
    <3> QED BY <1>4, <1>8, <3>1, <3>2
  <2> HIDE DEF S
  <2>3. Nat \subseteq S
    BY <2>1, <2>2, Induction
  <2>4. \A i \in 1 .. N : i - 1 \in Nat /\ (i - 1) + 1 = i /\ i <= N
    OBVIOUS
  <2> QED BY <2>3, <2>4 DEF S
<1>10. Cardinality({i \in Node : w[i] # NULL}) = m
  <2>1. {i \in Node : w[i] # NULL} = 1 .. m
    <3>1. 1 .. m \subseteq 1 .. N
      BY <1>2
    <3> QED BY <1>2, <1>3, <1>9, <3>1
  <2>2. Cardinality(1 .. m) = m
    BY FS_Interval
  <2> QED BY <2>1, <2>2
<1>11. SubSeq(w, 1, m) = s
  <2>1. w \in Seq(Node \cup {NULL}) /\ Len(w) = N
    <3>1. \A i \in 1 .. N : w[i] \in Node \cup {NULL}
      BY <1>3, <1>9
    <3>2. w = [i \in 1 .. N |-> w[i]]
      BY <1>6, <1>2
    <3>3. w \in [1 .. N -> Node \cup {NULL}]
      BY <3>1, <3>2
    <3> QED BY <3>3
  <2>2. /\ SubSeq(w, 1, m) \in Seq(Node \cup {NULL}) /\ Len(SubSeq(w, 1, m)) = m
        /\ \A i \in 1 .. m : SubSeq(w, 1, m)[i] = w[i]
    BY <1>2, <2>1
  <2>3. \A i \in 1 .. m : SubSeq(w, 1, m)[i] = s[i]
    <3>1. 1 .. m \subseteq 1 .. N
      BY <1>2
    <3> QED BY <1>3, <1>9, <2>2, <3>1
  <2>4. s \in Seq(Node \cup {NULL})
    BY SeqMonotonic
  <2> QED BY <1>1, <2>2, <2>3, <2>4, SeqEqual
<1> QED BY <1>7, <1>10, <1>11

(* While nobody is inside get or put, and no two calls have overlapped,    *)
(* the pointers are one list of the entries of the table, read forwards    *)
(* and backwards, and every entry is under its own hash.                   *)
THEOREM CacheIsIntact == Spec => []CacheIntact
<1>1. TypeInv /\ CacheInv => CacheIntact
  <2> SUFFICES ASSUME TypeInv, CacheInv, ~overlapped, InCache = {} PROVE CacheIntact
    BY Zenon DEF CacheIntact
  <2>1. Ordered
    BY Zenon DEF CacheInv
  <2>2. PICK s \in Seq(Node) : Once(s) /\ Rest(s)
    BY <2>1 DEF Ordered
  <2>3. Forward = s /\ Tidy
    BY <2>1, <2>2, ForwardReads DEF Ordered, Rest, Whole, Holds
  <2>4. PICK m \in Nat : m = Len(s) /\ DOMAIN s = 1 .. m
    BY LenProperties
  <2>5. ToSet(s) = {hashmap[b] : b \in 1 .. CACHE_SIZE} \ {NULL}
    BY <2>2, <2>4 DEF Rest, Holds, Entries, Elements, ToSet
  <2>6. \A i, j \in DOMAIN s : s[i] = s[j] => i = j
    BY <2>2, <2>4 DEF Once
  <2>7. \A i \in DOMAIN s : prev[s[i]] = IF i = 1 THEN NULL ELSE s[i - 1]
    <3>1. \A i \in 1 .. m : IF i = 1 THEN i - 1 = 0 /\ 0 \notin 1 .. m ELSE i - 1 \in 1 .. m
      OBVIOUS
    <3> QED BY <2>2, <2>4, <3>1 DEF Rest, Whole, Nth
  <2>8. tail = IF s = <<>> THEN NULL ELSE Last(s)
    <3>1. IF m = 0 THEN m \notin 1 .. m ELSE m \in 1 .. m
      OBVIOUS
    <3>2. m = 0 <=> s = <<>>
      BY <2>4, EmptySeq
    <3> QED BY <2>2, <2>4, <3>1, <3>2 DEF Rest, Whole, Nth, Last
  <2>9. \A b \in 1 .. CACHE_SIZE : hashmap[b] # NULL => key(hashmap[b]) = b
    BY <2>3 DEF Tidy
  <2> QED BY <2>3, <2>5, <2>6, <2>7, <2>8, <2>9 DEF CacheIntact
<1> QED BY <1>1, CacheInvariant, PTL

-----------------------------------------------------------------------------
(* The order of use                                                        *)

Moving == {"unlinkBack", "link", "linkHead", "setHead"}
Keys(q) == [i \in 1 .. Len(q) |-> key(q[i])]
NodesOf(t, s) == IF pc[t] \in Moving THEN <<node[t]>> \o s ELSE s

\* Of each key there is one entry.
LEMMA KeysDiffer ==
  ASSUME Tidy, NEW x \in Entries, NEW y \in Entries, key(x) = key(y)
  PROVE  x = y
  BY DEF Tidy, Entries

LEMMA SeqOfFunction ==
  ASSUME NEW S, NEW m \in Nat, NEW f \in [1 .. m -> S]
  PROVE  f \in Seq(S) /\ Len(f) = m
  OBVIOUS

IsCons(r, n, s, m) ==
  r = <<n>> \o s /\ Len(r) = m + 1 /\ \A i \in 1 .. m + 1 : r[i] = IF i = 1 THEN n ELSE s[i - 1]

\* A sequence with an element before its first, and one without that at position k + 1.
LEMMA ConsOf ==
  ASSUME NEW S, NEW n \in S, NEW s \in Seq(S), NEW m \in Nat, Len(s) = m
  PROVE  \E r \in Seq(S) : IsCons(r, n, s, m)
<1>1. <<n>> \in Seq(S) /\ Len(<<n>>) = 1 /\ 1 + m = m + 1 /\ <<n>>[1] = n
  OBVIOUS
<1>2. /\ <<n>> \o s \in Seq(S) /\ Len(<<n>> \o s) = Len(<<n>>) + Len(s)
      /\ \A i \in 1 .. Len(<<n>>) + Len(s) :
           (<<n>> \o s)[i] = IF i <= Len(<<n>>) THEN <<n>>[i] ELSE s[i - Len(<<n>>)]
  BY <1>1, ConcatProperties
<1>3. Len(<<n>> \o s) = m + 1
  BY <1>1, <1>2
<1>4. \A i \in 1 .. m + 1 : (<<n>> \o s)[i] = IF i <= 1 THEN n ELSE s[i - 1]
  BY <1>1, <1>2
<1>5. \A i \in 1 .. m + 1 : i <= 1 <=> i = 1
  OBVIOUS
<1> QED BY <1>2, <1>3, <1>4, <1>5 DEF IsCons

LEMMA CutOut ==
  ASSUME NEW S, NEW m \in Nat, NEW k \in 0 .. m, NEW b \in Seq(S), Len(b) = m + 1
  PROVE  \E r \in Seq(S) : /\ r = RemoveAt(b, k + 1) /\ Len(r) = m
                           /\ \A i \in 1 .. m : r[i] = IF i <= k THEN b[i] ELSE b[i + 1]
<1>1. PICK c \in Seq(S) : c = SubSeq(b, 1, k) /\ Len(c) = k /\ \A i \in 1 .. k : c[i] = b[i]
  <2>1. SubSeq(b, 1, k) \in Seq(S) /\ Len(SubSeq(b, 1, k)) = k /\ \A i \in 1 .. k : SubSeq(b, 1, k)[i] = b[i]
    OBVIOUS
  <2> QED BY <2>1
<1>2. PICK d \in Seq(S) : /\ d = SubSeq(b, k + 2, m + 1) /\ Len(d) = m - k
                          /\ \A i \in 1 .. m - k : d[i] = b[i + k + 1]
  <2>1. /\ SubSeq(b, k + 2, m + 1) \in Seq(S)
        /\ Len(SubSeq(b, k + 2, m + 1)) = IF k + 2 <= m + 1 THEN (m + 1) - (k + 2) + 1 ELSE 0
        /\ \A i \in 1 .. (m + 1) - (k + 2) + 1 : SubSeq(b, k + 2, m + 1)[i] = b[(k + 2) + i - 1]
    <3>1. k + 2 \in 1 .. Len(b) + 1 /\ m + 1 \in k + 2 - 1 .. Len(b)
      OBVIOUS
    <3> QED BY <3>1, SubSeqProperties
  <2>2. (m + 1) - (k + 2) + 1 = m - k /\ (IF k + 2 <= m + 1 THEN m - k ELSE 0) = m - k
    OBVIOUS
  <2>3. \A i \in 1 .. m - k : (k + 2) + i - 1 = i + k + 1
    OBVIOUS
  <2> QED BY <2>1, <2>2, <2>3
<1>3. /\ c \o d \in Seq(S) /\ Len(c \o d) = k + (m - k)
      /\ \A i \in 1 .. k + (m - k) : (c \o d)[i] = IF i <= k THEN c[i] ELSE d[i - k]
  BY <1>1, <1>2, ConcatProperties
<1>4. \A i \in 1 .. m : (c \o d)[i] = IF i <= k THEN b[i] ELSE b[i + 1]
  <2> SUFFICES ASSUME NEW i \in 1 .. m PROVE (c \o d)[i] = IF i <= k THEN b[i] ELSE b[i + 1]
    OBVIOUS
  <2>1. k + (m - k) = m
    OBVIOUS
  <2>2. CASE i <= k
    BY <1>1, <1>3, <2>1, <2>2
  <2>3. CASE ~(i <= k)
    <3>1. i - k \in 1 .. m - k /\ (i - k) + k + 1 = i + 1
      BY <2>3
    <3> QED BY <1>2, <1>3, <2>1, <2>3, <3>1
  <2> QED BY <2>2, <2>3
<1>5. RemoveAt(b, k + 1) = c \o d
  <2>1. (k + 1) - 1 = k /\ (k + 1) + 1 = k + 2
    OBVIOUS
  <2> QED BY <1>1, <1>2, <2>1 DEF RemoveAt
<1>6. Len(c \o d) = m
  BY <1>3
<1> QED BY <1>3, <1>4, <1>5, <1>6

LEMMA KeysOf ==
  ASSUME NEW s \in Seq(Node)
  PROVE  Keys(s) \in Seq(1 .. CACHE_SIZE) /\ Len(Keys(s)) = Len(s) /\ \A i \in 1 .. Len(s) : Keys(s)[i] = key(s[i])
<1> PICK m \in Nat : m = Len(s)
  BY NthOf
<1> PICK f : f = Keys(s)
  OBVIOUS
<1>1. \A i \in 1 .. m : f[i] = key(s[i]) /\ key(s[i]) \in 1 .. CACHE_SIZE
  BY NthOf, NodeNumbers DEF Keys
<1> PICK D : D = 1 .. CACHE_SIZE
  OBVIOUS
<1>2. f \in [1 .. m -> D]
  BY <1>1 DEF Keys
<1>3. f \in Seq(D) /\ Len(f) = m
  BY <1>2, SeqOfFunction
<1> QED BY <1>1, <1>3

\* The nodes that the order of use is read from.
LEMMA NodesInOrder ==
  ASSUME TypeInv, Tidy, NEW t \in Thread, NEW s \in Seq(Node), Once(s), InGoodOrder(t, s)
  PROVE  /\ Chained(s) /\ Elements(s) \subseteq Entries
         /\ NodesOf(t, s) \in Seq(Node) /\ Len(NodesOf(t, s)) <= CACHE_SIZE
<1>1. pc[t] \in CachePc => pc[t] \notin {"evict", "free"}
  BY DEF InGoodOrder, AtPosition
<1>2. Chained(s) /\ Elements(s) \subseteq Entries
  <2>1. CASE pc[t] \notin CachePc
    BY <2>1 DEF InGoodOrder, Rest, Whole, Holds
  <2>2. CASE pc[t] \in CachePc
    <3>1. AtPosition(t, s)
      BY <2>2 DEF InGoodOrder
    <3>2. Rest(s) \/ HalfOut(s, node[t]) \/ Whole(s) \/ HalfIn(s, node[t]) \/ Headed(s)
      BY <1>1, <2>2, <3>1 DEF AtPosition, CachePc
    <3>3. Rest(s) \/ HoldsBut(s, node[t]) \/ Holds(s)
      BY <1>1, <2>2, <3>1 DEF AtPosition, CachePc
    <3> QED BY <3>2, <3>3 DEF Rest, HalfOut, Whole, HalfIn, Headed, HoldsBut, Holds
  <2> QED BY <2>1, <2>2
<1>3. CASE pc[t] \in Moving
  <2>1. PICK n \in Node : n = node[t]
    BY <1>3, CacheTypes DEF Moving, Handling, CachePc
  <2>2. HoldsBut(s, n)
    BY <1>3, <2>1 DEF InGoodOrder, AtPosition, Moving, CachePc
  <2>3. <<n>> \o s \in Seq(Node) /\ Once(<<n>> \o s) /\ Elements(<<n>> \o s) \subseteq Entries
    <3>1. PICK r \in Seq(Node) : HasFirst(r, n, s)
      BY <2>2, WithFirst DEF HoldsBut
    <3> QED BY <2>2, <3>1 DEF HasFirst, HoldsBut
  <2>4. Len(<<n>> \o s) <= CACHE_SIZE
    BY <2>3, NotTooLong
  <2> QED BY <1>2, <1>3, <2>1, <2>3, <2>4 DEF NodesOf
<1>4. CASE pc[t] \notin Moving
  BY <1>2, <1>4, NotTooLong DEF NodesOf
<1> QED BY <1>3, <1>4

OrderInv ==
  \A t \in Thread : \A s \in Seq(Node) :
    Once(s) /\ InGoodOrder(t, s) /\ InCache \subseteq {t} => Order = Keys(NodesOf(t, s))

LEMMA OrderIs == TypeInv /\ Tidy => OrderInv
<1> SUFFICES ASSUME TypeInv, Tidy, NEW t \in Thread, NEW s \in Seq(Node), Once(s), InGoodOrder(t, s), InCache \subseteq {t}
             PROVE  Order = Keys(NodesOf(t, s))
  BY DEF OrderInv
<1>1. Chained(s) /\ Elements(s) \subseteq Entries
  BY NodesInOrder
<1>2. PICK q \in Seq(Node) : q = NodesOf(t, s) /\ Len(q) <= CACHE_SIZE
  BY NodesInOrder
<1>3. Forward = s
  BY <1>1, ForwardReads
<1> DEFINE moving == {u \in Thread : /\ pc[u] \in {"unlinkBack", "link", "linkHead", "setHead"}
                                     /\ call[u] # "evict"}
           nodes == IF moving = {} THEN Forward ELSE <<node[CHOOSE u \in moving : TRUE]>> \o Forward
           entries == [i \in DOMAIN nodes |-> key(nodes[i])]
<1>4. Order = SubSeq(entries, 1, IF Len(nodes) < CACHE_SIZE THEN Len(nodes) ELSE CACHE_SIZE)
  BY DEF Order
<1>5. nodes = q
  <2>1. moving \subseteq {t}
    BY DEF InCache
  <2>2. t \in moving <=> pc[t] \in Moving
    BY DEF InGoodOrder, AtPosition, Moving, CachePc
  <2>3. CASE pc[t] \in Moving
    <3>1. moving = {t}
      BY <2>1, <2>2, <2>3
    <3>2. (CHOOSE u \in moving : TRUE) = t /\ moving # {}
      BY <3>1
    <3> HIDE DEF moving
    <3> QED BY <1>2, <1>3, <2>3, <3>2 DEF NodesOf
  <2>4. CASE pc[t] \notin Moving
    <3>1. moving = {}
      BY <2>1, <2>2, <2>4
    <3> HIDE DEF moving
    <3> QED BY <1>2, <1>3, <2>4, <3>1 DEF NodesOf
  <2> QED BY <2>3, <2>4
<1> HIDE DEF nodes, moving
<1>6. entries = Keys(q)
  BY <1>5, LenProperties DEF Keys
<1> HIDE DEF entries
<1>7. PICK m \in Nat, c \in Nat : m = Len(q) /\ c = CACHE_SIZE /\ m <= c
  BY <1>2, NthOf, Constants
<1>8. (IF Len(nodes) < CACHE_SIZE THEN Len(nodes) ELSE CACHE_SIZE) = m
  BY <1>5, <1>7
<1>9. Keys(q) \in Seq(1 .. CACHE_SIZE) /\ Len(Keys(q)) = m
  BY <1>7, KeysOf
<1>10. SubSeq(Keys(q), 1, m) = Keys(q)
  BY <1>9, SubSeqFull
<1> QED BY <1>2, <1>4, <1>6, <1>8, <1>10

LEMMA OrderIsNext == (TypeInv /\ Tidy)' => OrderInv'
  BY OrderIs, PTL

\* The entry at position k + 1 is used again.
LEMMA Touched ==
  ASSUME NEW s \in Seq(Node), NEW k \in 0 .. Len(s) - 1, NEW r \in Seq(Node), IsWithout(r, s, k)
  PROVE  /\ k + 1 \in DOMAIN Keys(s)
         /\ Keys(<<s[k + 1]>> \o r) = <<Keys(s)[k + 1]>> \o RemoveAt(Keys(s), k + 1)
<1>1. PICK m \in Nat : Len(s) = m + 1 /\ Len(r) = m /\ k \in 0 .. m
  <2> PICK l \in Nat : l = Len(s) /\ k \in 0 .. l - 1
    BY NthOf
  <2>1. l - 1 \in Nat /\ l = (l - 1) + 1
    OBVIOUS
  <2> QED BY <2>1 DEF IsWithout
<1>2. PICK b \in Seq(1 .. CACHE_SIZE) : b = Keys(s) /\ Len(b) = m + 1 /\ \A i \in 1 .. m + 1 : b[i] = key(s[i])
  BY <1>1, KeysOf
<1>3. PICK n \in Node : n = s[k + 1] /\ b[k + 1] = key(n) /\ k + 1 \in 1 .. m + 1
  <2>1. k + 1 \in 1 .. m + 1
    BY <1>1
  <2> QED BY <1>1, <1>2, <2>1, NthOf
<1>4. PICK p \in Seq(Node) : /\ p = <<n>> \o r /\ Len(p) = m + 1
                             /\ \A i \in 1 .. m + 1 : p[i] = IF i = 1 THEN n ELSE r[i - 1]
  <2>1. \E p \in Seq(Node) : IsCons(p, n, r, m)
    BY <1>1, ConsOf
  <2> QED BY <2>1 DEF IsCons
<1>5. PICK x \in Seq(1 .. CACHE_SIZE) : x = Keys(p) /\ Len(x) = m + 1 /\ \A i \in 1 .. m + 1 : x[i] = key(p[i])
  BY <1>4, KeysOf
<1>8. PICK e \in Seq(1 .. CACHE_SIZE) :
        e = RemoveAt(b, k + 1) /\ Len(e) = m /\ \A i \in 1 .. m : e[i] = IF i <= k THEN b[i] ELSE b[i + 1]
  BY <1>1, <1>2, CutOut
<1>10. PICK y \in Seq(1 .. CACHE_SIZE) :
         y = <<b[k + 1]>> \o e /\ Len(y) = m + 1 /\ \A i \in 1 .. m + 1 : y[i] = IF i = 1 THEN b[k + 1] ELSE e[i - 1]
  <2>1. b[k + 1] \in 1 .. CACHE_SIZE
    BY <1>3, NodeNumbers
  <2>2. \E y \in Seq(1 .. CACHE_SIZE) : IsCons(y, b[k + 1], e, m)
    BY <1>8, <2>1, ConsOf
  <2> QED BY <2>2 DEF IsCons
<1>11. ASSUME NEW i \in 1 .. m + 1 PROVE x[i] = y[i]
  <2>1. CASE i = 1
    BY <1>3, <1>4, <1>5, <1>10, <2>1
  <2>2. CASE i # 1
    <3>1. PICK j \in 1 .. m : j = i - 1 /\ j \in 1 .. m + 1 /\ j + 1 \in 1 .. m + 1
      BY <2>2
    <3>2. r[j] = IF j <= k THEN s[j] ELSE s[j + 1]
      BY <1>1, <3>1 DEF IsWithout
    <3>3. x[i] = key(r[j])
      BY <1>4, <1>5, <2>2, <3>1
    <3>4. y[i] = IF j <= k THEN key(s[j]) ELSE key(s[j + 1])
      BY <1>2, <1>8, <1>10, <2>2, <3>1
    <3> QED BY <3>2, <3>3, <3>4
  <2> QED BY <2>1, <2>2
<1>12. x = y
  <2>1. Len(x) = Len(y) /\ \A i \in 1 .. Len(x) : x[i] = y[i]
    BY <1>5, <1>10, <1>11
  <2> QED BY <2>1, SeqEqual
<1>13. DOMAIN Keys(s) = 1 .. m + 1
  BY <1>2
<1> QED BY <1>2, <1>3, <1>4, <1>5, <1>8, <1>10, <1>12, <1>13

\* An entry that is new becomes the first, and leaves room for the others.
LEMMA Added ==
  ASSUME NEW s \in Seq(Node), NEW n \in Node, NEW r \in Seq(Node), HasFirst(r, n, s), Len(r) <= CACHE_SIZE,
         \A i \in 1 .. Len(s) : key(s[i]) # key(n)
  PROVE  /\ key(n) \notin ToSet(Keys(s))
         /\ Keys(r) = SubSeq(<<key(n)>> \o Keys(s), 1, IF Len(Keys(s)) < CACHE_SIZE THEN Len(Keys(s)) + 1 ELSE CACHE_SIZE)
<1>1. PICK m \in Nat : Len(s) = m /\ Len(r) = m + 1 /\ m < CACHE_SIZE
  <2> PICK l \in Nat : l = Len(s)
    BY NthOf
  <2>1. Len(r) = l + 1 /\ CACHE_SIZE \in Nat
    BY Constants DEF HasFirst
  <2>2. l < CACHE_SIZE
    BY <2>1
  <2> QED BY <2>1, <2>2
<1>2. PICK b \in Seq(1 .. CACHE_SIZE) : b = Keys(s) /\ Len(b) = m /\ \A i \in 1 .. m : b[i] = key(s[i])
  BY <1>1, KeysOf
<1>3. PICK x \in Seq(1 .. CACHE_SIZE) : x = Keys(r) /\ Len(x) = m + 1 /\ \A i \in 1 .. m + 1 : x[i] = key(r[i])
  BY <1>1, KeysOf
<1>4. PICK y \in Seq(1 .. CACHE_SIZE) :
        y = <<key(n)>> \o b /\ Len(y) = m + 1 /\ \A i \in 1 .. m + 1 : y[i] = IF i = 1 THEN key(n) ELSE b[i - 1]
  <2>1. key(n) \in 1 .. CACHE_SIZE
    BY NodeNumbers
  <2>2. \E y \in Seq(1 .. CACHE_SIZE) : IsCons(y, key(n), b, m)
    BY <1>2, <2>1, ConsOf
  <2> QED BY <2>2 DEF IsCons
<1>5. ASSUME NEW i \in 1 .. m + 1 PROVE x[i] = y[i]
  <2>1. i = 1 \/ (i - 1 \in 1 .. m /\ r[i] = s[i - 1])
    BY <1>1 DEF HasFirst
  <2>2. r[1] = n
    BY DEF HasFirst
  <2>3. CASE i = 1
    BY <1>3, <1>4, <2>2, <2>3
  <2>4. CASE i # 1
    <3>1. PICK j \in 1 .. m : j = i - 1 /\ r[i] = s[j]
      BY <2>1, <2>4
    <3> QED BY <1>2, <1>3, <1>4, <2>4, <3>1
  <2> QED BY <2>3, <2>4
<1>6. x = y
  <2>1. Len(x) = Len(y) /\ \A i \in 1 .. Len(x) : x[i] = y[i]
    BY <1>3, <1>4, <1>5
  <2> QED BY <2>1, SeqEqual
<1>7. SubSeq(y, 1, m + 1) = y
  BY <1>4, SubSeqFull
<1>8. key(n) \notin ToSet(b)
  <2>1. DOMAIN b = 1 .. m
    BY <1>2
  <2> QED BY <1>1, <1>2, <2>1 DEF ToSet
<1> QED BY <1>1, <1>2, <1>3, <1>4, <1>6, <1>7, <1>8

UsesInOrder == UNCHANGED Order \/ Abstract!Next
HitIsFirst(t) == pc[t] # "hit" /\ pc'[t] = "hit" => IsPrefix(<<Bucket[path[t]]>>, Order')

\* A node that is new in the list takes a place that was free.
LEMMA NewEntry ==
  ASSUME Tidy, NEW s \in Seq(Node), NEW n \in Node, HoldsBut(s, n), NEW r \in Seq(Node), HasFirst(r, n, s)
  PROVE  Len(r) <= CACHE_SIZE /\ key(n) \in 1 .. CACHE_SIZE /\ \A i \in 1 .. Len(s) : key(s[i]) # key(n)
<1>1. Len(r) <= CACHE_SIZE
  BY NotTooLong DEF HasFirst, HoldsBut
<1>2. ASSUME NEW i \in 1 .. Len(s), key(s[i]) = key(n) PROVE FALSE
  <2>1. s[i] \in Entries /\ n \in Entries /\ s[i] # n
    BY DEF HoldsBut, Elements
  <2> QED BY <1>2, <2>1, KeysDiffer
<1> QED BY <1>1, <1>2, NodeNumbers

LEMMA CallRefines ==
  ASSUME TypeInv, Tidy, OrderInv, OrderInv', NEW t \in Thread, NEW s \in Seq(Node), Once(s), InGoodOrder(t, s),
         InCache \subseteq {t}, InCache' \subseteq {t}, CacheCall(t)
  PROVE  UsesInOrder /\ HitIsFirst(t)
<1>1. Order = Keys(IF pc[t] \in Moving THEN <<node[t]>> \o s ELSE s)
  BY DEF OrderInv, NodesOf
<1>2. ASSUME NEW r \in Seq(Node), Once(r), InGoodOrder(t, r)'
      PROVE  Order' = Keys(IF pc'[t] \in Moving THEN <<node'[t]>> \o r ELSE r)
  BY <1>2 DEF OrderInv, NodesOf
<1>3. /\ pc \in [All -> HandlerPc \cup OtherPc] /\ t \in All /\ node \in [Thread -> Node \cup {NULL}]
      /\ pc[t] \in Handling => node[t] \in Node
  BY CacheTypes
<1>4. CASE UnlinkFront(t)
  <2>1. pc[t] \notin Moving /\ pc'[t] = "unlinkBack" /\ node'[t] = node[t]
    BY <1>3, <1>4 DEF UnlinkFront, In, Go, callVars, Moving
  <2>2. PICK r \in Seq(Node), k \in 0 .. Len(s) - 1 : IsWithout(r, s, k) /\ s[k + 1] = node[t] /\ InGoodOrder(t, r)'
    BY <1>4, UnlinkFrontOrder
  <2>3. Order = Keys(s) /\ Order' = Keys(<<s[k + 1]>> \o r)
    BY <1>1, <1>2, <2>1, <2>2 DEF IsWithout, Moving
  <2>4. k + 1 \in DOMAIN Order /\ Order' = <<Order[k + 1]>> \o RemoveAt(Order, k + 1)
    BY <2>2, <2>3, Touched
  <2>5. Abstract!Touch(k + 1)
    BY <2>4 DEF Abstract!Touch, Abstract!RemoveAt, RemoveAt
  <2>6. UsesInOrder
    BY <2>4, <2>5 DEF UsesInOrder, Abstract!Next
  <2> QED BY <2>1, <2>6 DEF HitIsFirst
<1>5. CASE SetHead(t)
  <2>1. pc[t] \in Moving /\ pc'[t] = "setTail" /\ pc'[t] \notin Moving
    BY <1>3, <1>5 DEF SetHead, In, Go, Moving
  <2>2. PICK r \in Seq(Node) : HasFirst(r, node[t], s) /\ InGoodOrder(t, r)'
    BY <1>5, SetHeadOrder
  <2>3. Order' = Order
    BY <1>1, <1>2, <2>1, <2>2 DEF HasFirst
  <2> QED BY <2>1, <2>3 DEF UsesInOrder, HitIsFirst
<1>6. ASSUME pc[t] \notin Moving, pc'[t] = "count", node[t] \in Node, HoldsBut(s, node[t]),
             NEW r \in Seq(Node), HasFirst(r, node[t], s), InGoodOrder(t, r)'
      PROVE  UsesInOrder /\ HitIsFirst(t)
  <2>1. PICK n \in Node : n = node[t]
    BY <1>6
  <2>2. Order = Keys(s) /\ Order' = Keys(r)
    BY <1>1, <1>2, <1>6 DEF HasFirst, Moving
  <2>3. Len(r) <= CACHE_SIZE /\ key(n) \in 1 .. CACHE_SIZE /\ \A i \in 1 .. Len(s) : key(s[i]) # key(n)
    BY <1>6, <2>1, NewEntry
  <2>4. /\ key(n) \notin ToSet(Order)
        /\ Order' = SubSeq(<<key(n)>> \o Order, 1, IF Len(Order) < CACHE_SIZE THEN Len(Order) + 1 ELSE CACHE_SIZE)
    BY <1>6, <2>1, <2>2, <2>3, Added
  <2>5. Abstract!Add(key(n))
    BY <2>4 DEF Abstract!Add, Abstract!ToSet, ToSet
  <2>6. UsesInOrder
    BY <2>3, <2>5 DEF UsesInOrder, Abstract!Next
  <2> QED BY <1>6, <2>6 DEF HitIsFirst
<1>7. CASE InsertsHead(t)
  <2>1. pc[t] = "insertHead" /\ pc'[t] = "count" /\ node[t] \in Node
    BY <1>3, <1>7 DEF InsertsHead, In, Go, Handling, CachePc
  <2>2. HoldsBut(s, node[t]) /\ pc[t] \notin Moving
    BY <2>1 DEF InGoodOrder, AtPosition, CachePc, Moving
  <2>3. PICK r \in Seq(Node) : HasFirst(r, node[t], s) /\ InGoodOrder(t, r)'
    BY <1>7, SetHeadOrder
  <2> QED BY <1>6, <2>1, <2>2, <2>3
<1>8. ASSUME InGoodOrder(t, s)', pc[t] \in Moving <=> pc'[t] \in Moving, pc[t] \in Moving => node'[t] = node[t]
      PROVE  Order' = Order
  BY <1>1, <1>2, <1>8
<1>9. CASE Inserts(t)
  <2>1. pc[t] = "insert" /\ node[t] \in Node /\ pc'[t] = IF head = NULL THEN "count" ELSE "insertBack"
    BY <1>3, <1>9 DEF Inserts, In, Go, Handling, CachePc
  <2>2. HoldsBut(s, node[t]) /\ pc[t] \notin Moving
    BY <2>1 DEF InGoodOrder, AtPosition, CachePc, Moving
  <2>3. PICK r \in Seq(Node) : /\ Once(r) /\ InGoodOrder(t, r)'
                               /\ IF head = NULL THEN s = <<>> /\ HasFirst(r, node[t], s) ELSE r = s
    BY <1>9, InsertsOrder
  <2>4. CASE head = NULL
    BY <1>6, <2>1, <2>2, <2>3, <2>4
  <2>5. CASE head # NULL
    <3>1. Order' = Order
      BY <1>8, <2>1, <2>2, <2>3, <2>5 DEF Moving
    <3> QED BY <2>1, <2>5, <3>1 DEF UsesInOrder, HitIsFirst
  <2> QED BY <2>4, <2>5
<1>10. CASE get(t) \/ put(t)
  <2>1. pc[t] \in {"get", "put"} /\ pc'[t] \in {"unlinkFront", "miss", "create"}
    BY <1>3, <1>10 DEF get, put, Looks, Go
  <2>2. Order' = Order
    BY <1>8, <1>10, <2>1, LooksOrder DEF Moving
  <2> QED BY <2>1, <2>2 DEF UsesInOrder, HitIsFirst
<1>11. CASE UnlinkBack(t) \/ Link(t) \/ LinkHead(t)
  <2>1. pc[t] \in Moving /\ node'[t] = node[t] /\ pc'[t] \in {"link", "free", "linkHead", "setHead"}
    BY <1>3, <1>11 DEF UnlinkBack, Link, LinkHead, In, Go, callVars, Moving
  <2>2. InGoodOrder(t, s)'
    BY <1>11, UnlinkBackOrder, LinkOrder, LinkHeadOrder
  <2>3. pc'[t] # "free"
    BY <2>2 DEF InGoodOrder, AtPosition, CachePc
  <2>4. Order' = Order
    BY <1>8, <2>1, <2>2, <2>3 DEF Moving
  <2> QED BY <2>1, <2>4 DEF UsesInOrder, HitIsFirst
<1>12. CASE SetTail(t)
  <2>1. pc[t] = "setTail" /\ pc'[t] \in {"hit", "stored"}
    BY <1>3, <1>12 DEF SetTail, In, Go
  <2>2. InGoodOrder(t, s)' /\ s # <<>> /\ key(s[1]) = Bucket[path[t]]
    BY <1>12, SetTailOrder
  <2>3. Order' = Order /\ Order = Keys(s)
    BY <1>1, <1>8, <2>1, <2>2 DEF Moving
  <2>4. PICK b : b = Bucket[path[t]]
    OBVIOUS
  <2>5. PICK m \in Nat : m = Len(s) /\ m # 0
    BY <2>2, NthOf, EmptySeq
  <2>6. PICK q \in Seq(1 .. CACHE_SIZE) : q = Order' /\ Len(q) = m /\ q[1] = b /\ b \in 1 .. CACHE_SIZE
    <3>1. 1 \in 1 .. m
      BY <2>5
    <3>2. key(s[1]) \in 1 .. CACHE_SIZE
      BY <2>5, <3>1, NthOf, NodeNumbers
    <3> QED BY <2>2, <2>3, <2>4, <2>5, <3>1, <3>2, KeysOf
  <2>7. IsPrefix(<<b>>, q)
    <3>1. <<b>> \in Seq(1 .. CACHE_SIZE) /\ Len(<<b>>) = 1 /\ <<b>>[1] = b /\ SubSeq(<<b>>, 1, 1) = <<b>>
      <4> PICK D : D = 1 .. CACHE_SIZE
        OBVIOUS
      <4>1. b \in D
        BY <2>6
      <4>2. <<b>> \in Seq(D) /\ Len(<<b>>) = 1 /\ <<b>>[1] = b
        BY <4>1
      <4>3. SubSeq(<<b>>, 1, 1) = <<b>>
        BY <4>2, SubSeqFull
      <4> QED BY <4>2, <4>3
    <3>2. SubSeq(q, 1, 1) \in Seq(1 .. CACHE_SIZE) /\ Len(SubSeq(q, 1, 1)) = 1 /\ SubSeq(q, 1, 1)[1] = q[1]
      BY <2>5, <2>6
    <3>3. SubSeq(q, 1, 1) = <<b>>
      <4>1. \A i \in 1 .. 1 : i = 1
        OBVIOUS
      <4>2. \A i \in 1 .. 1 : SubSeq(q, 1, 1)[i] = <<b>>[i]
        BY <2>6, <3>1, <3>2, <4>1
      <4> QED BY <3>1, <3>2, <4>2, SeqEqual
    <3>4. 1 <= m
      BY <2>5
    <3> QED BY <2>6, <3>1, <3>3, <3>4 DEF IsPrefix
  <2> QED BY <2>3, <2>4, <2>6, <2>7 DEF UsesInOrder, HitIsFirst
<1>13. CASE InsertsBack(t) \/ createNode(t) \/ BeginsCount(t) \/ cacheSize(t) \/ EndsCount(t)
  <2>1. /\ pc[t] \in {"insertBack", "create", "count", "cacheSize"}
        /\ pc'[t] \in {"insertHead", "insert", "cacheSize", "stored", "evict"}
    BY <1>3, <1>13 DEF InsertsBack, createNode, BeginsCount, cacheSize, EndsCount, In, Go
  <2>2. InGoodOrder(t, s)'
    BY <1>13, LinkHeadOrder, CreateOrder, CountOrder
  <2>3. Order' = Order
    BY <1>8, <2>1, <2>2 DEF Moving
  <2> QED BY <2>1, <2>3 DEF UsesInOrder, HitIsFirst
<1>14. ~Evicts(t) /\ ~Frees(t)
  BY DEF InGoodOrder, AtPosition, CachePc, Evicts, Frees, Go
<1>15. ~Crashes(t)
  BY DEF InGoodOrder, AtPosition, CachePc, Crashes
<1> QED BY <1>4, <1>5, <1>7, <1>9, <1>10, <1>11, <1>12, <1>13, <1>14, <1>15 DEF CacheCall

\* A step that leaves the list and whoever is inside the cache alone.
LEMMA OrderStays ==
  ASSUME UNCHANGED listVars, InCache' = InCache,
         \A t \in InCache : pc'[t] = pc[t] /\ call'[t] = call[t] /\ node'[t] = node[t]
  PROVE  Order' = Order
<1>1. Forward' = Forward
  BY DEF Forward, listVars
<1> DEFINE moving == {t \in Thread : /\ pc[t] \in {"unlinkBack", "link", "linkHead", "setHead"}
                                     /\ call[t] # "evict"}
           u == CHOOSE t \in moving : TRUE
<1>2. moving' = moving /\ moving \subseteq InCache
  BY DEF InCache
<1>3. moving # {} => node'[u] = node[u]
  <2>1. moving # {} => u \in moving
    OBVIOUS
  <2> QED BY <1>2, <2>1
<1>4. (IF moving = {} THEN Forward ELSE <<node[u]>> \o Forward)'
        = IF moving = {} THEN Forward ELSE <<node[u]>> \o Forward
  <2>1. u' = u
    BY <1>2
  <2> HIDE DEF u, moving
  <2> QED BY <1>1, <1>2, <1>3, <2>1
<1> QED BY <1>4 DEF Order

UsesLRU == overlapped' \/ (UsesInOrder /\ \A t \in Thread : HitIsFirst(t))

LEMMA UsesLRUStep == TypeInv /\ Alone /\ CacheInv /\ (TypeInv /\ Alone /\ CacheInv)' /\ [Next]_vars => UsesLRU
<1> SUFFICES ASSUME TypeInv, Alone, CacheInv, (TypeInv /\ Alone /\ CacheInv)', [Next]_vars, ~overlapped'
             PROVE  UsesInOrder /\ \A t \in Thread : HitIsFirst(t)
  BY Zenon DEF UsesLRU
<1>1. Tidy' /\ \A t, u \in InCache' : t = u
  BY DEF CacheInv, Ordered, Alone
<1>2. OrderInv'
  BY <1>1, OrderIsNext
<1>3. pc \in [All -> HandlerPc \cup OtherPc] /\ Thread \subseteq All
  BY Constants DEF TypeInv, ThreadsTypeOK
<1>4. CASE UNCHANGED vars
  <2>1. UNCHANGED <<cacheVars, callVars, pc, path, overlapped>>
    BY <1>4 DEF vars
  <2>2. Order' = Order
    BY <2>1, OrderStays DEF cacheVars, callVars, InCache
  <2> QED BY <2>1, <2>2 DEF UsesInOrder, HitIsFirst
<1>5. CASE Next
  <2>2. Ordered /\ ~overlapped
    BY <1>5, NextObserves DEF CacheInv
  <2>3. Tidy /\ OrderInv /\ \A t, u \in InCache : t = u
    BY <2>2, OrderIs DEF Alone, Ordered
  <2>4. ASSUME NEW t \in Thread, UNCHANGED cacheVars, \A u \in Thread \ {t} : pc'[u] = pc[u],
               pc[t] \notin CachePc, pc'[t] \notin CachePc \cup {"hit"},
               \A u \in Thread \ {t} : call'[u] = call[u] /\ node'[u] = node[u]
        PROVE  UsesInOrder /\ \A u \in Thread : HitIsFirst(u)
    <3>1. InCache' = InCache /\ t \notin InCache
      BY <2>4 DEF InCache, CachePc
    <3>2. Order' = Order
      BY <2>4, <3>1, OrderStays DEF InCache, cacheVars
    <3> QED BY <2>4, <3>2 DEF UsesInOrder, HitIsFirst
  <2>5. ASSUME NEW t \in Thread, Requests(t) \/ RequestsRename(t) PROVE UsesInOrder /\ \A u \in Thread : HitIsFirst(u)
    <3>1. UNCHANGED <<cacheVars, callVars>> /\ pc[t] = "idle" /\ \E q \in {"walk", "get"} : pc' = [pc EXCEPT ![t] = q]
      BY <2>5, RequestBegins DEF Begun
    <3>2. /\ pc[t] \notin CachePc /\ pc'[t] \notin CachePc \cup {"hit"}
          /\ \A u \in Thread \ {t} : pc'[u] = pc[u] /\ call'[u] = call[u] /\ node'[u] = node[u]
      BY <1>3, <3>1 DEF CachePc, callVars
    <3> QED BY <2>4, <3>1, <3>2
  <2>6. ASSUME NEW t \in Thread, WalkStep(t) PROVE UsesInOrder /\ \A u \in Thread : HitIsFirst(u)
    <3>1. /\ UNCHANGED cacheVars
          /\ \/ UNCHANGED callVars
             \/ /\ call' = [call EXCEPT ![t] = "none"] /\ node' = [node EXCEPT ![t] = NULL]
      BY <2>6 DEF WalkStep, Hits, Misses, BeginsWalk, FindsChild, MissesChild, EndsWalk, Stores, Answers, trieVars, requestVars
    <3>2. pc[t] \notin CachePc /\ pc'[t] \notin CachePc \cup {"hit"}
      BY <1>3, <2>6 DEF WalkStep, Hits, Misses, BeginsWalk, FindsChild, MissesChild, EndsWalk, Stores, Answers, Go, CachePc
    <3>3. \A u \in Thread \ {t} : pc'[u] = pc[u]
      BY <1>3, <2>6 DEF WalkStep, Hits, Misses, BeginsWalk, FindsChild, MissesChild, EndsWalk, Stores, Answers, Go
    <3>4. \A u \in Thread \ {t} : call'[u] = call[u] /\ node'[u] = node[u]
      BY <3>1, CacheTypes DEF callVars
    <3> QED BY <2>4, <3>1, <3>2, <3>3, <3>4
  <2>7. CASE Inserts_Path
    <3>1. UNCHANGED <<cacheVars, callVars>> /\ \A t \in Thread : pc'[t] = pc[t]
      BY <2>7, InserterMoves
    <3>2. Order' = Order
      BY <3>1, OrderStays DEF InCache, cacheVars, callVars
    <3> QED BY <3>1, <3>2 DEF UsesInOrder, HitIsFirst
  <2>8. ASSUME NEW t \in Thread, CacheCall(t) PROVE UsesInOrder /\ \A u \in Thread : HitIsFirst(u)
    <3>1. UNCHANGED path /\ \A u \in Thread \ {t} : pc'[u] = pc[u] /\ node'[u] = node[u]
      BY <1>3, <2>8, CallMoves DEF CacheMoves
    <3>2. PICK s \in Seq(Node) : /\ Once(s) /\ (InCache = {} => Rest(s)) /\ \A u \in InCache : AtPosition(u, s)
      BY <2>2 DEF Ordered
    <3>3. CASE t \in InCache \/ InCache = {}
      <4>1. InGoodOrder(t, s)
        BY <3>2, <3>3, InCacheByPc DEF InGoodOrder
      <4>2. InCache \subseteq {t}
        BY <2>3, <3>3
      <4>3. InCache' \subseteq {t}
        BY <3>1, <4>2 DEF InCache
      <4>4. UsesInOrder /\ HitIsFirst(t)
        BY <1>2, <2>3, <2>8, <3>2, <4>1, <4>2, <4>3, CallRefines
      <4> QED BY <3>1, <4>4 DEF HitIsFirst
    <3>4. CASE t \notin InCache /\ InCache # {}
      <4>1. PICK u \in InCache : u # t
        BY <3>4
      <4>2. u \in InCache' /\ t \notin InCache'
        <5>1. u \in InCache'
          BY <3>1, <4>1 DEF InCache
        <5> QED BY <1>1, <4>1, <5>1
      <4>3. get(t) \/ put(t)
        <5>1. pc[t] \notin CachePc
          BY <3>4, InCacheByPc
        <5> QED BY <2>8, <5>1 DEF CacheCall, UnlinkFront, UnlinkBack, Link, LinkHead, SetHead, SetTail, createNode, Inserts,
                   InsertsBack, InsertsHead, BeginsCount, cacheSize, EndsCount, Evicts, Frees, Crashes, In, Go, CachePc
      <4>4. UNCHANGED cacheVars /\ \A v \in Thread \ {t} : call'[v] = call[v]
        BY <4>3, CacheTypes DEF get, put, Looks
      <4>5. pc[t] \in {"get", "put"} /\ pc'[t] \in {"miss", "create", "unlinkFront"}
        BY <1>3, <4>3 DEF get, put, Looks, Go
      <4>6. pc[t] \notin CachePc /\ pc'[t] \notin CachePc \cup {"hit"}
        BY <4>2, <4>5 DEF InCache, CachePc
      <4> QED BY <2>4, <3>1, <4>4, <4>6
    <3> QED BY <3>3, <3>4
  <2>9. CASE Flushes
    <3>1. UNCHANGED <<cacheVars, callVars>> /\ \A t \in Thread : pc'[t] = pc[t]
      BY <2>2, <2>9, FlusherLeavesCache
    <3>2. Order' = Order
      BY <3>1, OrderStays DEF InCache, cacheVars, callVars
    <3> QED BY <3>1, <3>2 DEF UsesInOrder, HitIsFirst
  <2> QED BY <1>5, <2>5, <2>6, <2>7, <2>8, <2>9 DEF Next, Resolves, WalkStep, Renaming
<1> QED BY <1>4, <1>5

LEMMA InitOrder == Init => Abstract!Init
<1> SUFFICES ASSUME Init PROVE Order = <<>>
  BY DEF Abstract!Init
<1>1. TypeInv /\ CacheInv /\ ~overlapped
  BY InitTypes, InitOrdered DEF Init
<1>2. Ordered /\ InCache = {}
  BY <1>1, Constants DEF CacheInv, Init, InCache
<1>3. PICK s \in Seq(Node) : Once(s) /\ Rest(s)
  BY <1>2 DEF Ordered
<1>4. s = <<>> /\ Len(s) = 0
  <2>1. head = NULL
    BY DEF Init, createCache
  <2>2. Len(s) = 0
    BY <1>3, <2>1, NthOf DEF Rest, Whole, Chained
  <2> QED BY <2>2, EmptySeq
<1>5. Forward = s
  BY <1>1, <1>2, <1>3, ForwardReads DEF Ordered, Rest, Whole, Holds
<1>6. Keys(s) = <<>> /\ Keys(s) \in Seq(1 .. CACHE_SIZE) /\ Len(Keys(s)) = 0
  <2>1. Keys(s) \in Seq(1 .. CACHE_SIZE) /\ Len(Keys(s)) = 0
    BY <1>4, KeysOf
  <2> QED BY <2>1, EmptySeq
<1> DEFINE moving == {u \in Thread : /\ pc[u] \in {"unlinkBack", "link", "linkHead", "setHead"}
                                     /\ call[u] # "evict"}
           nodes == IF moving = {} THEN Forward ELSE <<node[CHOOSE u \in moving : TRUE]>> \o Forward
           entries == [i \in DOMAIN nodes |-> key(nodes[i])]
<1>7. Order = SubSeq(entries, 1, IF Len(nodes) < CACHE_SIZE THEN Len(nodes) ELSE CACHE_SIZE)
  BY DEF Order
<1>8. moving = {}
  BY <1>2 DEF InCache
<1> HIDE DEF moving
<1>9. nodes = s
  BY <1>5, <1>8
<1> HIDE DEF nodes
<1>10. entries = Keys(s)
  BY <1>9, LenProperties DEF Keys
<1>11. (IF Len(nodes) < CACHE_SIZE THEN Len(nodes) ELSE CACHE_SIZE) = 0
  BY <1>4, <1>9, Constants
<1> HIDE DEF entries
<1>12. SubSeq(Keys(s), 1, 0) = Keys(s)
  BY <1>6, SubSeqFull
<1> QED BY <1>6, <1>7, <1>10, <1>11, <1>12

(* As long as no two calls have overlapped, the pointers implement a list  *)
(* of the entries in the order of their use, and an entry that get has     *)
(* found is its first: every step is one of AbstractLRU, or leaves the     *)
(* order as it is.                                                         *)
THEOREM ImplementsOrderOfUse == Spec => ImplementsLRU
<1>1. UsesLRU <=> overlapped' \/ ((UNCHANGED Order \/ Abstract!Next)
                        /\ \A t \in Thread : pc[t] # "hit" /\ pc'[t] = "hit"
                                               => IsPrefix(<<Bucket[path[t]]>>, Order'))
  BY Zenon DEF UsesLRU, UsesInOrder, HitIsFirst
<1>2. TypeInv /\ Alone /\ CacheInv /\ (TypeInv /\ Alone /\ CacheInv)' /\ [Next]_vars
        => (overlapped' \/ ((UNCHANGED Order \/ Abstract!Next)
                        /\ \A t \in Thread : pc[t] # "hit" /\ pc'[t] = "hit"
                                               => IsPrefix(<<Bucket[path[t]]>>, Order')))
  BY <1>1, UsesLRUStep
<1> QED BY <1>2, CacheInvariant, InitOrder, PTL DEF Spec, ImplementsLRU
=============================================================================
