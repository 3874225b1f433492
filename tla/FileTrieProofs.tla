--------------------------- MODULE FileTrieProofs ---------------------------
(***************************************************************************)
(* Theorems about FileTrie, for every directory tree and every hash: the   *)
(* state in which start-up leaves the locks of the trie, and the paths     *)
(* that the server then announces.                                         *)
(***************************************************************************)
EXTENDS FileTrie, FiniteSetTheorems, SequenceTheorems, WellFoundedInduction, TLAPS

TrieInv == WalkInv /\ LocksAreShort

(* A sequence with one more element has the old one as its front. *)
LEMMA FrontOfAppend ==
  ASSUME NEW S, NEW s \in Seq(S), NEW e \in S
  PROVE  Append(s, e) \in Seq(S) /\ Append(s, e) # <<>> /\ Front(Append(s, e)) = s
<1>1. /\ Append(s, e) \in Seq(S) /\ Append(s, e) # <<>>
      /\ Len(Append(s, e)) = Len(s) + 1
      /\ \A i \in 1 .. Len(s) : Append(s, e)[i] = s[i]
  BY AppendProperties
<1>2. Front(Append(s, e)) = s
  BY <1>1 DEF Front
<1> QED BY <1>1, <1>2

(* The node of a child has a hash more than its parent. *)
LEMMA ChildOfNode ==
  ASSUME WalkInv, NEW n \in Node, left # <<>>
  PROVE  /\ Child(n, Head(left)) \in Seq(Range(Hash))
         /\ Child(n, Head(left)) # <<>>
         /\ Front(Child(n, Head(left))) = n
<1>1. Head(left) \in Name
  BY DEF WalkInv
<1>2. Hash[Head(left)] \in Range(Hash)
  BY <1>1, HashAssumption DEF Range
<1> QED BY <1>2, FrontOfAppend DEF WalkInv, Child

(* Children are nodes, and so finite in number. *)
LEMMA ChildrenFinite ==
  ASSUME WalkInv, NEW n
  PROVE  IsFiniteSet(Children(n)) /\ Cardinality(Children(n)) \in Nat
BY FS_Subset, FS_CardinalityType DEF WalkInv, Children

LEMMA InitTrieInv == Init => TrieInv
<1> SUFFICES ASSUME Init PROVE TrieInv
  OBVIOUS
<1>1. Node = {<<>>} /\ DOMAIN lock = {<<>>} /\ lock[<<>>] = RW_Lock_Init
  BY DEF Init, Node
<1>2. Entries(<<>>) \subseteq tree
  BY DEF Entries
<1>3. scan \in Seq(SUBSET tree) /\ left \in Seq(Name)
  BY <1>2 DEF Init
<1>4. Node \subseteq Seq(Range(Hash)) /\ IsFiniteSet(Node)
  <2>1. <<>> \in Seq(Range(Hash))
    OBVIOUS
  <2> QED BY <1>1, <2>1, FS_Singleton
<1>5. lock = [n \in Node |-> lock[n]]
  BY <1>1 DEF Init
<1>6. WalkInv
  BY <1>1, <1>3, <1>4, <1>5 DEF Init, WalkInv
<1>7. Children(<<>>) = {}
  BY <1>1 DEF Children
<1>8. LocksAreShort
  BY <1>1, <1>7, FS_EmptySet DEF LocksAreShort, RW_Lock_Init
<1> QED BY <1>6, <1>8 DEF TrieInv

(* A lock that is taken and given back by a reader is as it was. *)
LEMMA ReadLockedAndUnlocked ==
  ASSUME NEW k \in Nat, NEW l, l = [readers |-> 0 - k, write |-> FALSE]
  PROVE  Read_Unlock(Read_Lock(l)) = l
<1>1. l.readers = 0 - k /\ l.write = FALSE
  OBVIOUS
<1>2. CASE k = 0
  <2>1. l.readers = 0 /\ l.readers + 1 = 1
    BY <1>1, <1>2
  <2>2. Read_Lock(l) = [readers |-> 1, write |-> TRUE]
    BY <1>1, <2>1 DEF Read_Lock
  <2>3. Read_Lock(l).readers - 1 = 0 - k
    BY <2>2, <1>2
  <2>4. (Read_Lock(l).write /\ Read_Lock(l).readers # 1) = FALSE
    BY <2>2
  <2> QED BY <2>3, <2>4 DEF Read_Unlock
<1>3. CASE k # 0
  <2>1. (l.write \/ l.readers = 0) = FALSE
    BY <1>1, <1>3
  <2>2. Read_Lock(l) = [readers |-> 0 - k + 1, write |-> FALSE]
    BY <1>1, <2>1 DEF Read_Lock
  <2>3. Read_Lock(l).readers - 1 = 0 - k
    BY <2>2
  <2>4. (Read_Lock(l).write /\ Read_Lock(l).readers # 1) = FALSE
    BY <2>2
  <2> QED BY <2>3, <2>4 DEF Read_Unlock
<1> QED BY <1>2, <1>3

(* A new child is one child more for its parent, has none itself, and      *)
(* changes nothing for the other nodes.                                    *)
LEMMA CreatesChildStep == TrieInv /\ CreatesChild => TrieInv'
<1> SUFFICES ASSUME TrieInv, CreatesChild PROVE TrieInv'
  OBVIOUS
<1> DEFINE c == Child(curr, Head(left))
           After(n) == {k \in Node' : k # <<>> /\ Front(k) = n}   \* Children' of a fixed n
<1>1. WalkInv /\ LocksAreShort /\ left # <<>> /\ c \notin Node /\ curr \in Node
  BY DEF TrieInv, WalkInv, CreatesChild
<1>2. c \in Seq(Range(Hash)) /\ c # <<>> /\ Front(c) = curr
  BY <1>1, ChildOfNode
<1>3. Node' = Node \cup {c}
  BY DEF CreatesChild, Node, With
<1>4. /\ lock' = [n \in Node' |-> lock'[n]]
      /\ lock'[c] = RW_Lock_Init
      /\ lock'[curr] = Read_Unlock(lock[curr])
      /\ \A n \in Node \ {curr} : lock'[n] = lock[n]
  BY <1>1, <1>3 DEF CreatesChild, WalkInv, With
<1>5. WalkInv'
  <2>1. IsFiniteSet(Node')
    BY <1>1, <1>3, FS_AddElement DEF WalkInv
  <2>2. left' \in Seq(Name)
    BY <1>1 DEF CreatesChild, WalkInv
  <2>3. \A n \in Node' : n # <<>> => Front(n) \in Node'
    BY <1>1, <1>2, <1>3 DEF WalkInv
  <2>4. pc' = "walk" /\ curr' = c /\ tree' = tree /\ scan' = scan
    BY DEF CreatesChild
  <2> QED BY <1>1, <1>2, <1>3, <1>4, <2>1, <2>2, <2>3, <2>4 DEF WalkInv
<1>6. After(curr) = Children(curr) \cup {c} /\ c \notin Children(curr)
  BY <1>1, <1>2, <1>3 DEF Children
<1>7. After(c) = {}
  BY <1>1, <1>2, <1>3 DEF WalkInv
<1>8. \A n \in Node \ {curr} : After(n) = Children(n)
  BY <1>2, <1>3 DEF Children
<1>9. Cardinality(After(curr)) = Cardinality(Children(curr)) + 1
  BY <1>1, <1>6, ChildrenFinite, FS_AddElement
<1>10. lock'[curr] = [readers |-> 0 - Cardinality(After(curr)), write |-> FALSE]
  <2>1. PICK k \in Nat : k = Cardinality(Children(curr))
    BY <1>1, ChildrenFinite
  <2>2. lock[curr] = [readers |-> 0 - k, write |-> FALSE]
    BY <1>1, <2>1 DEF LocksAreShort
  <2>3. (lock[curr].write /\ lock[curr].readers # 1) = FALSE
    BY <2>2
  <2>4. lock[curr].readers - 1 = 0 - (k + 1)
    BY <2>2
  <2>5. Read_Unlock(lock[curr]) = [readers |-> 0 - (k + 1), write |-> FALSE]
    BY <2>3, <2>4 DEF Read_Unlock
  <2> QED BY <1>4, <1>9, <2>1, <2>5
<1>11. lock'[c] = [readers |-> 0 - Cardinality(After(c)), write |-> FALSE]
  <2>1. 0 - Cardinality(After(c)) = 0
    BY <1>7, FS_EmptySet
  <2>2. lock'[c] = [readers |-> 0, write |-> FALSE]
    BY <1>4 DEF RW_Lock_Init
  <2> QED BY <2>1, <2>2
<1>12. LocksAreShort'
  <2>1. \A n \in Node' : lock'[n] = [readers |-> 0 - Cardinality(After(n)), write |-> FALSE]
    BY <1>1, <1>3, <1>4, <1>8, <1>10, <1>11 DEF LocksAreShort
  <2> QED BY <2>1 DEF LocksAreShort, Children
<1> QED BY <1>5, <1>12 DEF TrieInv

(* Looking for a child leaves its parent's lock as it was. *)
LEMMA LookingStep ==
  ASSUME TrieInv, Looking
  PROVE  [lock EXCEPT ![curr] = Read_Unlock(Read_Lock(@))] = lock
<1>1. lock[curr] = [readers |-> 0 - Cardinality(Children(curr)), write |-> FALSE]
  BY DEF TrieInv, WalkInv, LocksAreShort
<1>2. Read_Unlock(Read_Lock(lock[curr])) = lock[curr]
  BY <1>1, ChildrenFinite, ReadLockedAndUnlocked DEF TrieInv
<1> QED BY <1>2 DEF TrieInv, WalkInv

(* Steps that leave the trie and its locks alone. *)
LEMMA SameTrie ==
  ASSUME TrieInv, UNCHANGED <<path_token, lock>>
  PROVE  LocksAreShort' /\ Node' = Node
BY DEF TrieInv, LocksAreShort, Children, Node

LEMMA TrieStep == TrieInv /\ [Next]_vars => TrieInv'
<1> SUFFICES ASSUME TrieInv, [Next]_vars PROVE TrieInv'
  OBVIOUS
<1> USE DEF TrieInv
<1>1. CASE InsertsEntry
  <2>1. LocksAreShort' /\ Node' = Node
    BY <1>1, SameTrie DEF InsertsEntry
  <2>2. PICK p \in Last(scan) : /\ left' = p
                                /\ scan' = Append(Append(Front(scan), Last(scan) \ {p}), Entries(p))
    BY <1>1 DEF InsertsEntry
  <2>3. scan # <<>> /\ pc' = "walk" /\ curr' = <<>> /\ UNCHANGED <<tree, path_token, lock>>
    BY <1>1 DEF InsertsEntry
  <2>4. Last(scan) \subseteq tree /\ Front(scan) \in Seq(SUBSET tree)
    BY <2>3 DEF WalkInv, Last, Front
  <2>5. p \in Seq(Name) /\ Entries(p) \subseteq tree
    BY <2>4, DiskAssumption DEF WalkInv, Entries
  <2>6. scan' \in Seq(SUBSET tree)
    BY <2>2, <2>4, <2>5
  <2> QED BY <2>1, <2>2, <2>3, <2>5, <2>6 DEF WalkInv
<1>2. CASE LeavesDirectory
  <2>1. LocksAreShort' /\ Node' = Node
    BY <1>2, SameTrie DEF LeavesDirectory
  <2>2. Front(scan) \in Seq(SUBSET tree)
    BY <1>2 DEF LeavesDirectory, WalkInv, Front
  <2> QED BY <1>2, <2>1, <2>2 DEF LeavesDirectory, WalkInv
<1>3. CASE Populated
  BY <1>3, SameTrie DEF Populated, WalkInv
<1>4. CASE FindsChild
  <2>1. lock' = lock /\ UNCHANGED path_token
    BY <1>4, LookingStep DEF FindsChild
  <2>2. LocksAreShort' /\ Node' = Node
    BY <2>1, SameTrie
  <2>3. left' \in Seq(Name)
    BY <1>4 DEF FindsChild, Looking, WalkInv
  <2> QED BY <1>4, <2>1, <2>2, <2>3 DEF FindsChild, Looking, WalkInv
<1>5. CASE MissesChild
  <2>1. lock' = lock /\ UNCHANGED path_token
    BY <1>5, LookingStep DEF MissesChild
  <2>2. LocksAreShort' /\ Node' = Node
    BY <2>1, SameTrie
  <2> QED BY <1>5, <2>1, <2>2 DEF MissesChild, Looking, WalkInv, Child
<1>6. CASE CreatesChild
  BY <1>6, CreatesChildStep
<1>7. CASE Inserted
  BY <1>7, SameTrie DEF Inserted, WalkInv
<1>8. CASE UNCHANGED vars
  BY <1>8, SameTrie DEF vars, WalkInv, Child
<1>9. CASE Prints \/ Lists \/ ListsTooMuch
  <2>1. UNCHANGED <<tree, scan, left, curr, path_token, lock>> /\ pc' \in {"list", "done", "crashed"}
    BY <1>9 DEF Prints, Lists, ListsTooMuch
  <2> QED BY <2>1, SameTrie DEF WalkInv
<1> QED BY <1>1, <1>2, <1>3, <1>4, <1>5, <1>6, <1>7, <1>8, <1>9 DEF Next

(* Between two rounds, each node is short by its children.  From the       *)
(* invariant: an insertion creates a child only where there is none, so    *)
(* that every unmatched Read_Unlock goes with a new node.                  *)
THEOREM LocksAfterStartUp == Spec => []LocksAreShort
<1>1. TrieInv => LocksAreShort
  BY DEF TrieInv
<1> QED BY <1>1, TrieStep, InitTrieInv, PTL DEF Spec

-----------------------------------------------------------------------------
(* What the trie holds                                                     *)

LEMMA MinimalOf ==
  ASSUME NEW R, IsWellFoundedOn(R, Nat), NEW T, T \subseteq Nat, T # {}
  PROVE  \E m \in T : \A k \in T : <<k, m>> \notin R
  BY WFMin

LEMMA SomeOrder == \E R : IsWellFoundedOn(R, Nat) /\ \A k, m \in Nat : k < m => <<k, m>> \in R
<1>1. IsWellFoundedOn(OpToRel(<, Nat), Nat)
  BY NatLessThanWellFounded, Zenon
<1>2. \A k, m \in Nat : k < m => <<k, m>> \in OpToRel(<, Nat)
  BY DEF OpToRel
<1> QED BY <1>1, <1>2, Zenon

\* Every set of natural numbers that is not empty has a least one.
LEMMA LeastNumber ==
  ASSUME NEW T, T \subseteq Nat, T # {}
  PROVE  \E m \in T : \A k \in T : m <= k
<1>1. PICK R : IsWellFoundedOn(R, Nat) /\ \A k, m \in Nat : k < m => <<k, m>> \in R
  BY SomeOrder
<1>2. PICK m \in T : \A k \in T : <<k, m>> \notin R
  BY <1>1, MinimalOf
<1>3. \A k \in T : ~(k < m)
  BY <1>1, <1>2
<1> QED BY <1>3


\* A set of sequences that is closed under Front holds every prefix that is not empty.
LEMMA Fronts ==
  ASSUME NEW S, NEW t, t \subseteq Seq(S), \A q \in t : Len(q) > 1 => Front(q) \in t,
         NEW p \in t, NEW j \in 1 .. Len(p)
  PROVE  SubSeq(p, 1, j) \in t
<1> DEFINE T == {k \in 1 .. Len(p) : \A i \in k .. Len(p) : SubSeq(p, 1, i) \in t}
<1> PICK n \in Nat : n = Len(p) /\ n >= 1 /\ p \in Seq(S)
  BY LenProperties
<1>1. n \in T
  <2>1. SubSeq(p, 1, n) = p
    BY SubSeqProperties
  <2>2. \A i \in n .. n : SubSeq(p, 1, i) \in t
    <3>1. \A i \in n .. n : i = n
      OBVIOUS
    <3> QED BY <2>1, <3>1, Zenon
  <2>3. n \in 1 .. n
    OBVIOUS
  <2> QED BY <2>2, <2>3
<1>2. T \subseteq Nat
  OBVIOUS
<1>3. PICK m \in T : \A k \in T : m <= k
  <2> HIDE DEF T
  <2> QED BY <1>1, <1>2, LeastNumber
<1>4. m \in 1 .. n /\ \A i \in m .. n : SubSeq(p, 1, i) \in t
  BY <1>3
<1>5. m = 1
  <2> SUFFICES ASSUME m # 1 PROVE FALSE
    OBVIOUS
  <2>1. m - 1 \in 1 .. n /\ m > 1
    BY <1>4
  <2>2. SubSeq(p, 1, m) \in t /\ SubSeq(p, 1, m) \in Seq(S) /\ Len(SubSeq(p, 1, m)) = m
    BY <1>4, SubSeqProperties
  <2>3. Front(SubSeq(p, 1, m)) \in t
    BY <2>1, <2>2
  <2>4. Front(SubSeq(p, 1, m)) = SubSeq(p, 1, m - 1)
    BY <1>4, <2>1, <2>2 DEF Front
  <2>5. m - 1 \in T
    <3>1. \A i \in m - 1 .. n : i = m - 1 \/ i \in m .. n
      BY <1>4
    <3> QED BY <1>4, <2>1, <2>3, <2>4, <3>1
  <2>6. m <= m - 1
    BY <1>3, <2>5
  <2> QED BY <1>4, <2>6
<1> QED BY <1>4, <1>5

LEMMA LastAndFront ==
  ASSUME NEW S, NEW s \in Seq(S), s # <<>>
  PROVE  \E n \in Nat : /\ Len(s) = n + 1 /\ Last(s) = s[n + 1] /\ Last(s) \in S
                        /\ Front(s) \in Seq(S) /\ Len(Front(s)) = n
                        /\ \A i \in 1 .. n : Front(s)[i] = s[i]
<1> PICK n \in Nat : n = Len(s) - 1 /\ Len(s) = n + 1
  <2>1. Len(s) \in Nat /\ Len(s) # 0
    BY EmptySeq, LenProperties
  <2>2. Len(s) - 1 \in Nat /\ Len(s) = (Len(s) - 1) + 1
    BY <2>1
  <2> QED BY <2>2
<1>1. Last(s) = s[n + 1] /\ n + 1 \in 1 .. Len(s)
  BY DEF Last
<1>2. Front(s) = SubSeq(s, 1, n)
  BY DEF Front
<1>3. \A i \in 1 .. n : s[i] \in S
  OBVIOUS
<1>4. /\ SubSeq(s, 1, n) \in Seq(S) /\ Len(SubSeq(s, 1, n)) = n
      /\ \A i \in 1 .. n : SubSeq(s, 1, n)[i] = s[i]
  BY <1>3
<1> QED BY <1>1, <1>2, <1>4

LEMMA TreePrefixes ==
  ASSUME WalkInv, NEW p \in tree, NEW j \in 1 .. Len(p)
  PROVE  SubSeq(p, 1, j) \in tree
BY DiskAssumption, Fronts DEF WalkInv

LEMMA NodePrefixes ==
  ASSUME WalkInv, NEW n \in Node, NEW j \in 1 .. Len(n)
  PROVE  SubSeq(n, 1, j) \in Node
<1> DEFINE t == Node
<1>1. t \subseteq Seq(Range(Hash)) /\ \A q \in t : Len(q) > 1 => Front(q) \in t
  BY DEF WalkInv
<1> HIDE DEF t
<1>2. \A p \in t : \A i \in 1 .. Len(p) : SubSeq(p, 1, i) \in t
  BY <1>1, Fronts
<1> QED BY <1>2 DEF t

\* The node of a path: a hash for every name.
LEMMA NodeOfPath ==
  ASSUME NEW p \in Seq(Name)
  PROVE  /\ NodeOf(p) \in Seq(Range(Hash)) /\ Len(NodeOf(p)) = Len(p)
         /\ \A i \in 1 .. Len(p) : NodeOf(p)[i] = Hash[p[i]]
         /\ NodeOf(p) = <<>> <=> p = <<>>
<1>1. \A i \in 1 .. Len(p) : Hash[p[i]] \in Range(Hash)
  BY HashAssumption DEF Range
<1>2. NodeOf(p) = [i \in 1 .. Len(p) |-> Hash[p[i]]] /\ Len(p) \in Nat
  BY DEF NodeOf
<1> QED BY <1>1, <1>2

LEMMA NodeOfPrefix ==
  ASSUME NEW p \in Seq(Name), NEW k \in 0 .. Len(p)
  PROVE  SubSeq(NodeOf(p), 1, k) = NodeOf(SubSeq(p, 1, k))
<1> PICK n \in Seq(Range(Hash)) : n = NodeOf(p) /\ Len(n) = Len(p) /\ \A i \in 1 .. Len(p) : n[i] = Hash[p[i]]
  BY NodeOfPath
<1> PICK q \in Seq(Name) : q = SubSeq(p, 1, k) /\ Len(q) = k /\ \A i \in 1 .. k : q[i] = p[i]
  <2>1. \A i \in 1 .. k : p[i] \in Name
    OBVIOUS
  <2>2. /\ SubSeq(p, 1, k) \in Seq(Name) /\ Len(SubSeq(p, 1, k)) = k
        /\ \A i \in 1 .. k : SubSeq(p, 1, k)[i] = p[i]
    OBVIOUS
  <2> QED BY <2>2
<1>1. SubSeq(n, 1, k) = [i \in 1 .. k |-> n[i]]
  BY SubSeqProperties
<1>2. NodeOf(q) = [i \in 1 .. k |-> Hash[q[i]]]
  BY DEF NodeOf
<1>3. \A i \in 1 .. k : n[i] = Hash[q[i]]
  OBVIOUS
<1> QED BY <1>1, <1>2, <1>3

LEMMA NodeOfNext ==
  ASSUME NEW p \in Seq(Name), NEW k \in 0 .. Len(p) - 1
  PROVE  /\ Child(NodeOf(SubSeq(p, 1, k)), p[k + 1]) = NodeOf(SubSeq(p, 1, k + 1))
         /\ SubSeq(p, k + 1, Len(p)) # <<>>
         /\ Head(SubSeq(p, k + 1, Len(p))) = p[k + 1]
         /\ Tail(SubSeq(p, k + 1, Len(p))) = SubSeq(p, k + 2, Len(p))
<1> PICK m \in Nat : m = Len(p) /\ k + 1 \in 1 .. m
  BY LenProperties
<1>1. NodeOf(SubSeq(p, 1, k)) = [i \in 1 .. k |-> Hash[p[i]]]
  BY SubSeqProperties DEF NodeOf
<1>2. NodeOf(SubSeq(p, 1, k + 1)) = [i \in 1 .. k + 1 |-> Hash[p[i]]]
  BY SubSeqProperties DEF NodeOf
<1>3. Append([i \in 1 .. k |-> Hash[p[i]]], Hash[p[k + 1]]) = [i \in 1 .. k + 1 |-> Hash[p[i]]]
  OBVIOUS
<1>4. SubSeq(p, k + 1, m) # <<>> /\ Head(SubSeq(p, k + 1, m)) = p[k + 1]
  <2> PICK s \in Seq(Name) : s = SubSeq(p, k + 1, m) /\ Len(s) = m - k /\ s[1] = p[k + 1]
    <3>1. SubSeq(p, k + 1, m) \in Seq(Name) /\ Len(SubSeq(p, k + 1, m)) = m - k
      OBVIOUS
    <3>2. SubSeq(p, k + 1, m)[1] = p[k + 1]
      OBVIOUS
    <3> QED BY <3>1, <3>2
  <2>1. Len(s) # 0
    OBVIOUS
  <2>2. s # <<>>
    BY <2>1, EmptySeq
  <2>3. Head(s) = s[1]
    BY <2>2
  <2> QED BY <2>2, <2>3
<1>5. Tail(SubSeq(p, k + 1, m)) = SubSeq(p, k + 2, m)
  OBVIOUS
<1> QED BY <1>1, <1>2, <1>3, <1>4, <1>5 DEF Child

-----------------------------------------------------------------------------
\* What is left of the walk along p, and the node that it has reached.
WalksAt(p, k) == left = SubSeq(p, k + 1, Len(p)) /\ curr = NodeOf(SubSeq(p, 1, k))
Walks(p) == pc \in {"walk", "create"} /\ \E k \in 0 .. Len(p) : WalksAt(p, k)

\* An entry on the way to p, or p itself, is not inserted yet.
Pending(p) ==
  \E i \in 1 .. Len(scan) : \E q \in scan[i] : Len(q) <= Len(p) /\ q = SubSeq(p, 1, Len(q))

\* The trie can tell the paths of the tree apart, and hold their names.
Distinct == /\ \A p, q \in tree : NodeOf(p) = NodeOf(q) => p = q
            /\ \A p \in tree : \A i \in 1 .. Len(p) : Token(p[i]) = p[i]

(* Every node is there for an entry, and has its name unless names collide; *)
(* and every entry has its node, or is on its way to it.                    *)
ContentsInv ==
  /\ \A n \in Node \ {<<>>} : \E p \in tree : n = NodeOf(p)
  /\ Distinct => \A p \in tree : NodeOf(p) \in Node => path_token[NodeOf(p)] = p[Len(p)]
  /\ pc \in {"walk", "create"} => \E p \in tree : Walks(p)
  /\ \A p \in tree : NodeOf(p) \in Node \/ Pending(p) \/ Walks(p)
  /\ pc \in {"print", "list", "done"} => scan = <<>>
  /\ pc = "done" /\ Distinct => ListingTooLong \/ MountPaths = tree

TokensInv ==
  /\ pc \in {"scan", "walk", "create", "print", "list", "done", "crashed"}
  /\ Range(path_token) \subseteq Name \cup {"Mount", "unterminated"}
  /\ MountPaths \subseteq Listed
  /\ pc \in {"scan", "walk", "create", "print", "list"} => MountPaths = {}

LEMMA OfTree == WalkInv => \A p \in tree : p \in Seq(Name) /\ p # <<>> /\ Len(p) \in Nat \ {0}
  BY DiskAssumption DEF WalkInv

LEMMA InitContents == Init => ContentsInv
<1> SUFFICES ASSUME Init PROVE ContentsInv
  OBVIOUS
<1>1. Node = {<<>>} /\ pc = "scan" /\ tree \in Disk /\ WalkInv
  BY InitTrieInv DEF Init, Node, TrieInv
<1>2. \A p \in tree : NodeOf(p) # <<>>
  BY <1>1, OfTree, NodeOfPath
<1>3. ASSUME NEW p \in tree PROVE Pending(p)
  <2>1. p \in Seq(Name) /\ Len(p) \in Nat \ {0} /\ 1 \in 1 .. Len(p)
    BY <1>1, OfTree
  <2>2. SubSeq(p, 1, 1) \in tree
    BY <1>1, <2>1, TreePrefixes
  <2> PICK q \in tree : q = SubSeq(p, 1, 1) /\ Len(q) = 1
    <3>1. Len(SubSeq(p, 1, 1)) = 1
      BY <2>1
    <3> QED BY <2>2, <3>1
  <2>3. q \in Entries(<<>>)
    <3>1. Len(<<>>) + 1 = 1 /\ SubSeq(q, 1, Len(<<>>)) = <<>>
      OBVIOUS
    <3> QED BY <3>1 DEF Entries
  <2>4. Len(scan) = 1 /\ scan[1] = Entries(<<>>)
    BY DEF Init
  <2>5. 1 \in 1 .. Len(scan) /\ q \in scan[1] /\ Len(q) <= Len(p) /\ q = SubSeq(p, 1, Len(q))
    BY <2>1, <2>3, <2>4
  <2> QED BY <2>5 DEF Pending
<1> QED BY <1>1, <1>2, <1>3 DEF ContentsInv

\* A walk that goes on has its next node before it.
LEMMA WalkGoesOn ==
  ASSUME WalkInv, NEW p \in tree, Walks(p), left # <<>>
  PROVE  \E k \in 0 .. Len(p) - 1 :
           /\ WalksAt(p, k) /\ Head(left) = p[k + 1] /\ Tail(left) = SubSeq(p, k + 2, Len(p))
           /\ Child(curr, Head(left)) = NodeOf(SubSeq(p, 1, k + 1))
           /\ SubSeq(p, 1, k + 1) \in tree
<1>1. p \in Seq(Name) /\ Len(p) \in Nat
  BY OfTree
<1> PICK k \in 0 .. Len(p) : WalksAt(p, k)
  BY DEF Walks
<1>2. k \in 0 .. Len(p) - 1
  <2>1. k = Len(p) => SubSeq(p, k + 1, Len(p)) = <<>>
    BY <1>1
  <2> QED BY <1>1, <2>1 DEF WalksAt
<1>3. SubSeq(p, 1, k + 1) \in tree
  <2>1. k + 1 \in 1 .. Len(p)
    BY <1>1, <1>2
  <2> QED BY <2>1, TreePrefixes
<1> QED BY <1>1, <1>2, <1>3, NodeOfNext DEF WalksAt

LEMMA FindsChildContents == TrieInv /\ ContentsInv /\ FindsChild => ContentsInv'
<1> SUFFICES ASSUME TrieInv, ContentsInv, FindsChild PROVE ContentsInv'
  OBVIOUS
<1>1. /\ WalkInv /\ pc = "walk" /\ left # <<>> /\ UNCHANGED <<tree, scan, pc, path_token>>
      /\ curr' = Child(curr, Head(left)) /\ left' = Tail(left)
  BY DEF FindsChild, Looking, TrieInv
<1>2. Node' = Node
  BY <1>1 DEF Node
<1>3. ASSUME NEW p \in tree, Walks(p) PROVE Walks(p)'
  <2> PICK k \in 0 .. Len(p) - 1 :
           /\ Tail(left) = SubSeq(p, k + 2, Len(p))
           /\ Child(curr, Head(left)) = NodeOf(SubSeq(p, 1, k + 1))
    BY <1>1, <1>3, WalkGoesOn
  <2>1. k + 1 \in 0 .. Len(p) /\ (k + 1) + 1 = k + 2
    BY <1>1, OfTree
  <2> QED BY <1>1, <2>1 DEF Walks, WalksAt
<1>4. \A p \in tree : Pending(p) => Pending(p)'
  BY <1>1 DEF Pending
<1> QED BY <1>1, <1>2, <1>3, <1>4 DEF ContentsInv, Distinct

LEMMA MissesChildContents == TrieInv /\ ContentsInv /\ MissesChild => ContentsInv'
<1> SUFFICES ASSUME TrieInv, ContentsInv, MissesChild PROVE ContentsInv'
  OBVIOUS
<1>1. pc = "walk" /\ pc' = "create" /\ UNCHANGED <<tree, scan, left, curr, path_token>> /\ Node' = Node
  BY DEF MissesChild, Looking, Node
<1>2. \A p \in tree : (Pending(p) => Pending(p)') /\ (Walks(p) => Walks(p)')
  BY <1>1 DEF Pending, Walks, WalksAt
<1> QED BY <1>1, <1>2 DEF ContentsInv, Distinct

LEMMA InsertedContents == TrieInv /\ ContentsInv /\ Inserted => ContentsInv'
<1> SUFFICES ASSUME TrieInv, ContentsInv, Inserted PROVE ContentsInv'
  OBVIOUS
<1>1. /\ WalkInv /\ pc = "walk" /\ pc' = "scan" /\ left = <<>> /\ UNCHANGED <<tree, scan, left, curr, path_token>>
      /\ Node' = Node
  BY DEF Inserted, Node, TrieInv
<1>2. ASSUME NEW p \in tree, Walks(p) PROVE NodeOf(p) \in Node
  <2> PICK k \in 0 .. Len(p) : WalksAt(p, k)
    BY <1>2 DEF Walks
  <2>1. p \in Seq(Name) /\ Len(p) \in Nat
    BY <1>1, OfTree
  <2>2. k = Len(p)
    <3>1. k # Len(p) => k \in 0 .. Len(p) - 1
      BY <2>1
    <3>2. k # Len(p) => SubSeq(p, k + 1, Len(p)) # <<>>
      BY <2>1, <3>1, NodeOfNext
    <3> QED BY <1>1, <3>2 DEF WalksAt
  <2>3. SubSeq(p, 1, Len(p)) = p
    BY <2>1
  <2> QED BY <1>1, <2>2, <2>3 DEF WalksAt, WalkInv
<1>3. \A p \in tree : Pending(p) => Pending(p)'
  BY <1>1 DEF Pending
<1> QED BY <1>1, <1>2, <1>3 DEF ContentsInv, Distinct

LEMMA CreatesChildContents == TrieInv /\ ContentsInv /\ CreatesChild => ContentsInv'
<1> SUFFICES ASSUME TrieInv, ContentsInv, CreatesChild PROVE ContentsInv'
  OBVIOUS
<1> PICK c : c = Child(curr, Head(left))
  OBVIOUS
<1>1. /\ WalkInv /\ pc = "create" /\ pc' = "walk" /\ left # <<>> /\ UNCHANGED <<tree, scan>>
      /\ curr' = c /\ left' = Tail(left) /\ path_token' = With(path_token, c, Token(Head(left))) /\ c \notin Node
  BY DEF CreatesChild, TrieInv, WalkInv
<1>2. /\ Node' = Node \cup {c} /\ path_token'[c] = Token(Head(left))
      /\ \A n \in Node : path_token'[n] = path_token[n]
  BY <1>1 DEF Node, With
<1> PICK w \in tree : Walks(w)
  BY <1>1 DEF ContentsInv
<1> PICK k \in 0 .. Len(w) - 1 : /\ Head(left) = w[k + 1] /\ c = NodeOf(SubSeq(w, 1, k + 1))
                                 /\ SubSeq(w, 1, k + 1) \in tree
  BY <1>1, WalkGoesOn
<1>3. \A n \in Node' \ {<<>>} : \E p \in tree' : n = NodeOf(p)
  BY <1>1, <1>2 DEF ContentsInv
<1>4. ASSUME Distinct, NEW p \in tree, NodeOf(p) \in Node' PROVE path_token'[NodeOf(p)] = p[Len(p)]
  <2>1. CASE NodeOf(p) \in Node
    BY <1>2, <1>4, <2>1 DEF ContentsInv
  <2>2. CASE NodeOf(p) = c
    <3>1. p = SubSeq(w, 1, k + 1)
      BY <1>4, <2>2 DEF Distinct
    <3>2. w \in Seq(Name) /\ Len(w) \in Nat
      BY <1>1, OfTree
    <3>3. p[Len(p)] = w[k + 1]
      BY <3>1, <3>2
    <3>4. Token(w[k + 1]) = w[k + 1]
      BY <1>4, <3>2 DEF Distinct
    <3> QED BY <1>2, <2>2, <3>3, <3>4
  <2> QED BY <1>2, <1>4, <2>1, <2>2
<1>5. ASSUME NEW p \in tree, Walks(p) PROVE Walks(p)'
  <2> PICK j \in 0 .. Len(p) - 1 :
           Tail(left) = SubSeq(p, j + 2, Len(p)) /\ c = NodeOf(SubSeq(p, 1, j + 1))
    BY <1>1, <1>5, WalkGoesOn
  <2>1. j + 1 \in 0 .. Len(p) /\ (j + 1) + 1 = j + 2
    BY <1>1, OfTree
  <2> QED BY <1>1, <2>1 DEF Walks, WalksAt
<1>6. \A p \in tree : Pending(p) => Pending(p)'
  BY <1>1 DEF Pending
<1> QED BY <1>1, <1>2, <1>3, <1>4, <1>5, <1>6 DEF ContentsInv, Distinct

\* A directory of the tree has an entry on the way to each path below it.
LEMMA EntryOnTheWay ==
  ASSUME WalkInv, NEW p \in tree, NEW q \in tree, Len(q) < Len(p), q = SubSeq(p, 1, Len(q))
  PROVE  \E e \in Entries(q) : Len(e) <= Len(p) /\ e = SubSeq(p, 1, Len(e))
<1> PICK n \in Nat : n = Len(q) /\ n + 1 \in 1 .. Len(p) /\ p \in Seq(Name)
  <2>1. Len(q) \in Nat /\ Len(p) \in Nat /\ p \in Seq(Name)
    BY OfTree
  <2>2. Len(q) + 1 \in 1 .. Len(p)
    BY <2>1
  <2> QED BY <2>1, <2>2
<1>1. SubSeq(p, 1, n + 1) \in tree
  BY TreePrefixes
<1> PICK e \in tree : e = SubSeq(p, 1, n + 1)
  BY <1>1
<1>2. Len(e) = n + 1
  OBVIOUS
<1>3. SubSeq(e, 1, n) = SubSeq(p, 1, n)
  OBVIOUS
<1>4. e \in Entries(q)
  <2>1. SubSeq(e, 1, Len(q)) = q
    BY <1>3
  <2> QED BY <1>2, <2>1 DEF Entries
<1>5. Len(e) <= Len(p) /\ e = SubSeq(p, 1, Len(e))
  BY <1>2
<1> QED BY <1>4, <1>5

LEMMA InsertsEntryContents == TrieInv /\ ContentsInv /\ InsertsEntry => ContentsInv'
<1> SUFFICES ASSUME TrieInv, ContentsInv, InsertsEntry PROVE ContentsInv'
  OBVIOUS
<1>1. /\ WalkInv /\ pc = "scan" /\ pc' = "walk" /\ scan # <<>> /\ curr' = <<>>
      /\ UNCHANGED <<tree, path_token>> /\ Node' = Node
  BY DEF InsertsEntry, TrieInv, Node
<1> PICK q \in Last(scan) : /\ scan' = Append(Append(Front(scan), Last(scan) \ {q}), Entries(q))
                            /\ left' = q
  BY DEF InsertsEntry
<1> PICK n \in Nat : /\ n + 1 = Len(scan) /\ Last(scan) = scan[n + 1] /\ Last(scan) \in SUBSET tree
                     /\ Front(scan) \in Seq(SUBSET tree) /\ Len(Front(scan)) = n
                     /\ \A i \in 1 .. n : Front(scan)[i] = scan[i]
  <2>1. scan \in Seq(SUBSET tree)
    BY <1>1 DEF WalkInv
  <2> QED BY <1>1, <2>1, LastAndFront
<1>2. q \in tree /\ q \in Seq(Name) /\ Len(q) \in Nat
  BY <1>1, OfTree
<1>3. /\ Len(scan') = n + 2 /\ \A i \in 1 .. n : scan'[i] = scan[i]
      /\ scan'[n + 1] = scan[n + 1] \ {q} /\ scan'[n + 2] = Entries(q)
  <2> PICK f \in Seq(SUBSET tree) : f = Front(scan) /\ Len(f) = n /\ \A i \in 1 .. n : f[i] = scan[i]
    OBVIOUS
  <2> PICK d \in SUBSET tree : d = scan[n + 1] \ {q}
    OBVIOUS
  <2> PICK g \in SUBSET tree : g = Entries(q)
    BY DEF Entries
  <2> PICK a \in Seq(SUBSET tree) : /\ a = Append(f, d) /\ Len(a) = n + 1 /\ a[n + 1] = d
                                    /\ \A i \in 1 .. n : a[i] = scan[i]
    <3>1. /\ Append(f, d) \in Seq(SUBSET tree) /\ Len(Append(f, d)) = n + 1 /\ Append(f, d)[n + 1] = d
          /\ \A i \in 1 .. n : Append(f, d)[i] = f[i]
      BY AppendProperties
    <3> QED BY <3>1
  <2>1. scan' = Append(a, g)
    OBVIOUS
  <2> QED BY <2>1, AppendProperties
<1>4. Walks(q)'
  <2>1. SubSeq(q, 1, Len(q)) = q /\ SubSeq(q, 1, 0) = <<>>
    BY <1>2
  <2>3. NodeOf(<<>>) = <<>>
    <3>1. <<>> \in Seq(Name)
      OBVIOUS
    <3> QED BY <3>1, NodeOfPath
  <2>2. 0 \in 0 .. Len(q) /\ 0 + 1 = 1
    BY <1>2
  <2> QED BY <1>1, <2>1, <2>2, <2>3 DEF Walks, WalksAt
<1>5. ASSUME NEW p \in tree, Pending(p) PROVE Pending(p)' \/ Walks(p)'
  <2> PICK i \in 1 .. Len(scan) : \E e \in scan[i] : Len(e) <= Len(p) /\ e = SubSeq(p, 1, Len(e))
    BY <1>5 DEF Pending
  <2> PICK e \in scan[i] : Len(e) <= Len(p) /\ e = SubSeq(p, 1, Len(e))
    OBVIOUS
  <2>1. i \in 1 .. n + 1 /\ i \in 1 .. Len(scan') /\ p \in Seq(Name) /\ Len(p) \in Nat
    BY <1>1, <1>3, OfTree
  <2>2. CASE i # n + 1 \/ e # q
    <3>1. e \in scan'[i]
      BY <1>3, <2>1, <2>2
    <3> QED BY <2>1, <3>1 DEF Pending
  <2>3. CASE e = q
    <3>1. CASE Len(q) = Len(p)
      <4>1. p = q
        <5>1. SubSeq(p, 1, Len(p)) = p
          BY <2>1
        <5> QED BY <2>3, <3>1, <5>1
      <4> QED BY <1>4, <4>1
    <3>2. CASE Len(q) < Len(p)
      <4>1. PICK d \in Entries(q) : Len(d) <= Len(p) /\ d = SubSeq(p, 1, Len(d))
        BY <1>1, <1>2, <2>3, <3>2, EntryOnTheWay
      <4>2. n + 2 \in 1 .. Len(scan') /\ d \in scan'[n + 2]
        BY <1>3
      <4> QED BY <4>1, <4>2 DEF Pending
    <3> QED BY <1>2, <2>1, <2>3, <3>1, <3>2
  <2> QED BY <2>2, <2>3
<1>6. \A p \in tree : ~Walks(p)
  BY <1>1 DEF Walks
<1> QED BY <1>1, <1>2, <1>4, <1>5, <1>6 DEF ContentsInv, Distinct

LEMMA LeavesDirectoryContents == TrieInv /\ ContentsInv /\ LeavesDirectory => ContentsInv'
<1> SUFFICES ASSUME TrieInv, ContentsInv, LeavesDirectory PROVE ContentsInv'
  OBVIOUS
<1>1. /\ WalkInv /\ pc = "scan" /\ scan # <<>> /\ Last(scan) = {} /\ scan' = Front(scan)
      /\ UNCHANGED <<tree, pc, left, curr, path_token>> /\ Node' = Node
  BY DEF LeavesDirectory, TrieInv, Node
<1> PICK n \in Nat : /\ n + 1 = Len(scan) /\ Last(scan) = scan[n + 1] /\ Last(scan) \in SUBSET tree
                     /\ Front(scan) \in Seq(SUBSET tree) /\ Len(Front(scan)) = n
                     /\ \A i \in 1 .. n : Front(scan)[i] = scan[i]
  <2>1. scan \in Seq(SUBSET tree)
    BY <1>1 DEF WalkInv
  <2> QED BY <1>1, <2>1, LastAndFront
<1>2. Len(scan') = n /\ \A i \in 1 .. n : scan'[i] = scan[i]
  BY <1>1 DEF Front
<1>3. ASSUME NEW p \in tree, Pending(p) PROVE Pending(p)'
  <2> PICK i \in 1 .. Len(scan) : \E e \in scan[i] : Len(e) <= Len(p) /\ e = SubSeq(p, 1, Len(e))
    BY <1>3 DEF Pending
  <2> PICK e \in scan[i] : Len(e) <= Len(p) /\ e = SubSeq(p, 1, Len(e))
    OBVIOUS
  <2>1. i # n + 1
    BY <1>1
  <2>2. i \in 1 .. Len(scan') /\ e \in scan'[i]
    BY <1>2, <2>1
  <2> QED BY <2>2 DEF Pending
<1>4. \A p \in tree : ~Walks(p)
  BY <1>1 DEF Walks
<1> QED BY <1>1, <1>3, <1>4 DEF ContentsInv, Distinct

LEMMA PopulatedContents == TrieInv /\ ContentsInv /\ Populated => ContentsInv'
<1> SUFFICES ASSUME TrieInv, ContentsInv, Populated PROVE ContentsInv'
  OBVIOUS
<1>1. /\ pc = "scan" /\ pc' = "print" /\ scan = <<>> /\ UNCHANGED <<tree, scan, left, curr, path_token>>
      /\ Node' = Node
  BY DEF Populated, Node
<1>2. \A p \in tree : ~Walks(p) /\ (Pending(p) => Pending(p)')
  BY <1>1 DEF Walks, Pending
<1> QED BY <1>1, <1>2 DEF ContentsInv, Distinct

\* When all entries are inserted, the paths that the trie lists are theirs.
LEMMA ListedIsTree ==
  ASSUME WalkInv, ContentsInv, pc = "list", Distinct
  PROVE  Listed = tree
<1>1. \A p \in tree : NodeOf(p) \in Node
  BY DEF ContentsInv, Pending, Walks
<1>2. ASSUME NEW p \in tree PROVE [i \in DOMAIN NodeOf(p) |-> path_token[SubSeq(NodeOf(p), 1, i)]] = p
  <2>1. p \in Seq(Name) /\ Len(p) \in Nat
    BY OfTree
  <2>2. DOMAIN NodeOf(p) = 1 .. Len(p)
    BY <2>1 DEF NodeOf
  <2>3. ASSUME NEW i \in 1 .. Len(p) PROVE path_token[SubSeq(NodeOf(p), 1, i)] = p[i]
    <3> PICK q \in tree : q = SubSeq(p, 1, i)
      BY TreePrefixes
    <3>1. SubSeq(NodeOf(p), 1, i) = NodeOf(q)
      BY <2>1, NodeOfPrefix
    <3>2. path_token[NodeOf(q)] = q[Len(q)]
      BY <1>1 DEF ContentsInv
    <3>3. q[Len(q)] = p[i]
      BY <2>1
    <3> QED BY <3>1, <3>2, <3>3
  <2> QED BY <2>1, <2>2, <2>3
<1>3. \A n \in Node \ {<<>>} : \E p \in tree : n = NodeOf(p)
  BY DEF ContentsInv
<1>4. \A p \in tree : NodeOf(p) \in Node \ {<<>>}
  BY <1>1, OfTree, NodeOfPath
<1>5. Listed \subseteq tree
  BY <1>2, <1>3 DEF Listed
<1>6. tree \subseteq Listed
  <2> SUFFICES ASSUME NEW p \in tree PROVE p \in Listed
    OBVIOUS
  <2> QED BY <1>2, <1>4 DEF Listed
<1> QED BY <1>5, <1>6

LEMMA PrintsContents == TrieInv /\ ContentsInv /\ Prints => ContentsInv'
<1> SUFFICES ASSUME TrieInv, ContentsInv, Prints PROVE ContentsInv'
  OBVIOUS
<1>1. /\ pc = "print" /\ pc' \in {"list", "crashed"} /\ UNCHANGED <<tree, scan, left, curr, path_token>>
      /\ Node' = Node
  BY DEF Prints, Node
<1>2. \A p \in tree : ~Walks(p) /\ (Pending(p) => Pending(p)')
  BY <1>1 DEF Walks, Pending
<1> QED BY <1>1, <1>2 DEF ContentsInv, Distinct

LEMMA ListsContents == TrieInv /\ ContentsInv /\ (Lists \/ ListsTooMuch) => ContentsInv'
<1> SUFFICES ASSUME TrieInv, ContentsInv, Lists \/ ListsTooMuch PROVE ContentsInv'
  OBVIOUS
<1>1. /\ pc = "list" /\ pc' \in {"done", "crashed"} /\ UNCHANGED <<tree, scan, left, curr, path_token>>
      /\ Node' = Node /\ WalkInv
  BY DEF Lists, ListsTooMuch, Node, TrieInv
<1>2. \A p \in tree : ~Walks(p) /\ (Pending(p) => Pending(p)')
  BY <1>1 DEF Walks, Pending
<1>3. Distinct' => Distinct
  BY <1>1 DEF Distinct
<1>4. ASSUME pc' = "done", Distinct PROVE ListingTooLong' \/ MountPaths' = tree'
  <2>1. Listed = tree
    BY <1>1, <1>4, ListedIsTree
  <2>2. Lists
    BY <1>4 DEF ListsTooMuch
  <2>3. TooLong(tree) => ListingTooLong'
    BY <1>1 DEF ListingTooLong
  <2> QED BY <1>1, <2>1, <2>2, <2>3 DEF Lists
<1> QED BY <1>1, <1>2, <1>3, <1>4 DEF ContentsInv, Distinct

(* The trie holds what was inserted, under the names that it was inserted  *)
(* for unless two of them have the same hashes, and the rest is still to   *)
(* come.                                                                   *)
THEOREM ContentsInvariant == Spec => [](TrieInv /\ ContentsInv)
<1>1. (TrieInv /\ ContentsInv) /\ [Next]_vars => (TrieInv /\ ContentsInv)'
  <2> SUFFICES ASSUME TrieInv, ContentsInv, [Next]_vars PROVE TrieInv' /\ ContentsInv'
    OBVIOUS
  <2>1. TrieInv'
    BY TrieStep
  <2>2. CASE UNCHANGED vars
    <3>1. UNCHANGED <<tree, scan, pc, left, curr, path_token, MountPaths>> /\ Node' = Node
      BY <2>2 DEF vars, Node
    <3>2. \A p \in tree : (Pending(p) => Pending(p)') /\ (Walks(p) => Walks(p)')
      BY <3>1 DEF Pending, Walks, WalksAt
    <3>3. ContentsInv'
      BY <3>1, <3>2 DEF ContentsInv, Distinct, ListingTooLong
    <3> QED BY <2>1, <3>3
  <2> QED BY <2>1, <2>2, InsertsEntryContents, LeavesDirectoryContents, PopulatedContents, FindsChildContents,
             MissesChildContents, CreatesChildContents, InsertedContents, PrintsContents, ListsContents
          DEF Next
<1> QED BY <1>1, InitTrieInv, InitContents, PTL DEF Spec

(* What the server announces is the directory tree, unless two of its      *)
(* paths are the same to the trie, or a name or a listing is too long.     *)
THEOREM AnnouncesTheTree == Spec => []AnnouncedWithinLimits
<1>1. ASSUME TrieInv, ContentsInv, ~NamesCollide, ~NameTooLong PROVE Distinct
  <2>1. \A p \in tree : p \in Seq(Name) /\ DOMAIN p = 1 .. Len(p)
    BY <1>1, OfTree DEF TrieInv
  <2>2. ASSUME NEW p \in tree, NEW i \in 1 .. Len(p) PROVE Token(p[i]) = p[i]
    BY <1>1, <2>1, <2>2, LengthAssumption DEF NameTooLong, Token
  <2> QED BY <1>1, <2>2 DEF NamesCollide, Distinct
<1>2. TrieInv /\ ContentsInv => AnnouncedWithinLimits
  BY <1>1 DEF ContentsInv, AnnouncedWithinLimits, AnnouncesTree
<1> QED BY <1>2, ContentsInvariant, PTL

LEMMA TokensStep == TrieInv /\ TokensInv /\ [Next]_vars => TokensInv'
<1> SUFFICES ASSUME TrieInv, TokensInv, [Next]_vars PROVE TokensInv'
  OBVIOUS
<1>1. CASE CreatesChild
  <2> PICK c : c = Child(curr, Head(left))
    OBVIOUS
  <2>1. /\ left # <<>> /\ left \in Seq(Name) /\ pc = "create" /\ pc' = "walk"
        /\ path_token' = With(path_token, c, Token(Head(left))) /\ UNCHANGED MountPaths
    BY <1>1 DEF CreatesChild, TrieInv, WalkInv
  <2>2. Token(Head(left)) \in Name \cup {"unterminated"}
    BY <2>1 DEF Token
  <2>3. Range(path_token') \subseteq Range(path_token) \cup {Token(Head(left))}
    BY <2>1 DEF With, Range
  <2>4. MountPaths' = {}
    BY <2>1 DEF TokensInv
  <2> QED BY <2>1, <2>2, <2>3, <2>4 DEF TokensInv
<1>2. CASE Lists \/ ListsTooMuch
  <2>1. UNCHANGED path_token /\ pc' \in {"done", "crashed"}
    BY <1>2 DEF Lists, ListsTooMuch
  <2>2. Listed' = Listed
    BY <2>1 DEF Listed, Node
  <2>3. MountPaths' \subseteq Listed
    BY <1>2 DEF Lists, ListsTooMuch, TokensInv
  <2> QED BY <2>1, <2>2, <2>3 DEF TokensInv
<1>3. CASE UNCHANGED vars
  <2>1. UNCHANGED <<pc, path_token, MountPaths>>
    BY <1>3 DEF vars
  <2>2. Listed' = Listed
    BY <2>1 DEF Listed, Node
  <2> QED BY <2>1, <2>2 DEF TokensInv
<1>4. CASE InsertsEntry \/ LeavesDirectory \/ Populated \/ FindsChild \/ MissesChild \/ Inserted \/ Prints
  <2>1. UNCHANGED <<path_token, MountPaths>>
    BY <1>4 DEF InsertsEntry, LeavesDirectory, Populated, FindsChild, MissesChild, Inserted, Prints
  <2>2. Listed' = Listed
    BY <2>1 DEF Listed, Node
  <2>3. pc \in {"scan", "walk", "print"} /\ pc' \in {"scan", "walk", "create", "print", "list", "crashed"}
    BY <1>4 DEF InsertsEntry, LeavesDirectory, Populated, FindsChild, MissesChild, Inserted, Prints, Looking
  <2> QED BY <2>1, <2>2, <2>3 DEF TokensInv
<1> QED BY <1>1, <1>2, <1>3, <1>4 DEF Next

(* Every variable has its type: the walk stays in the trie, every node has *)
(* a lock and the name of an entry.                                        *)
THEOREM TypeCorrectness == Spec => []TypeOK
<1>1. Init => TokensInv
  BY DEF Init, TokensInv, Range, Listed
<1>2. TrieInv /\ TokensInv => TypeOK
  <2> SUFFICES ASSUME TrieInv, TokensInv PROVE TypeOK
    OBVIOUS
  <2>1. ASSUME NEW n \in Node PROVE lock[n].readers \in Int /\ lock[n].write \in BOOLEAN
    <3> PICK k \in Nat : k = Cardinality(Children(n))
      BY ChildrenFinite DEF TrieInv
    <3>1. lock[n] = [readers |-> 0 - k, write |-> FALSE]
      BY DEF TrieInv, LocksAreShort
    <3> QED BY <3>1
  <2>2. DOMAIN lock = Node
    BY DEF TrieInv, WalkInv
  <2> QED BY <2>1, <2>2 DEF TrieInv, WalkInv, TokensInv, TypeOK
<1> QED BY <1>1, <1>2, TokensStep, ContentsInvariant, PTL DEF Spec
=============================================================================
