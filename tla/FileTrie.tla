------------------------------ MODULE FileTrie ------------------------------
(***************************************************************************)
(* How a storage server builds its file trie at start-up                   *)
(* (src/Storage Server/SS.c, Populate_Trie, and Trie.c, trie_insert), and  *)
(* in which state that leaves the lock of each node; and what of the trie  *)
(* then fits the buffers in which it is printed and announced to the       *)
(* naming server.  One thread runs.                                        *)
(*                                                                         *)
(* A node has a table of children, indexed by the hash of a name; so a     *)
(* node is the sequence of hashes that leads to it, and remembers the name *)
(* that it was created for.  Names are compared nowhere.                   *)
(***************************************************************************)
EXTENDS Integers, Sequences, FiniteSets, SequencesExt, Functions

CONSTANTS Name,   \* the names of files and directories
          Hash,   \* their hashes
          Length, \* how many characters they have
          Disk,   \* the directory trees that the server may be started in
          TokenSize, BufferSize   \* TOKEN_SIZE and MAX_BUFFER_SIZE

ASSUME HashAssumption == DOMAIN Hash = Name
ASSUME DiskAssumption ==
  \A t \in Disk :
    t \subseteq Seq(Name) /\ \A p \in t : p # <<>> /\ (Len(p) > 1 => Front(p) \in t)

ASSUME LengthAssumption ==
  Length \in [Name -> Nat \ {0}] /\ TokenSize \in Nat /\ BufferSize \in Nat

VARIABLES tree,       \* the directory tree below the cwd, as a set of paths
          scan,       \* per directory being scanned, the entries not yet inserted
          pc,
          left,       \* the names of the inserted path that are left
          curr,       \* the node that its walk has reached
          path_token, \* per node of the trie, its name
          lock,       \* per node, the count and whether Write_Lock is locked
          MountPaths  \* the paths in the packet for the naming server

vars == <<tree, scan, pc, left, curr, path_token, lock, MountPaths>>

Node == DOMAIN path_token
Child(n, name) == Append(n, Hash[name])
Children(n) == {c \in Node : c # <<>> /\ Front(c) = n}
Entries(dir) == {p \in tree : Len(p) = Len(dir) + 1 /\ SubSeq(p, 1, Len(dir)) = dir}

\* A table of nodes with a new node n.
With(table, n, entry) == [k \in DOMAIN table \cup {n} |-> IF k = n THEN entry ELSE table[k]]

RW_Lock_Init == [readers |-> 0, write |-> FALSE]
CanReadLock(l) == l.readers = 0 => ~l.write
Read_Lock(l) == [readers |-> l.readers + 1, write |-> l.write \/ l.readers = 0]
Read_Unlock(l) == [readers |-> l.readers - 1, write |-> l.write /\ l.readers # 1]

Init ==
  /\ tree \in Disk
  /\ scan = <<Entries(<<>>)>> /\ pc = "scan" /\ left = <<>> /\ curr = <<>>
  /\ path_token = [n \in {<<>>} |-> "Mount"] /\ lock = [n \in {<<>>} |-> RW_Lock_Init]
  /\ MountPaths = {}

(* Populate_Trie inserts an entry and, if it is a directory, scans it.     *)
InsertsEntry ==
  /\ pc = "scan" /\ scan # <<>>
  /\ \E p \in Last(scan) :
       /\ scan' = Append(Append(Front(scan), Last(scan) \ {p}), Entries(p))
       /\ left' = p
  /\ pc' = "walk" /\ curr' = <<>>
  /\ UNCHANGED <<tree, path_token, lock, MountPaths>>

LeavesDirectory ==
  /\ pc = "scan" /\ scan # <<>> /\ Last(scan) = {}
  /\ scan' = Front(scan)
  /\ UNCHANGED <<tree, pc, left, curr, path_token, lock, MountPaths>>

Populated ==
  /\ pc = "scan" /\ scan = <<>> /\ pc' = "print"
  /\ UNCHANGED <<tree, scan, left, curr, path_token, lock, MountPaths>>

-----------------------------------------------------------------------------
(* trie_insert, one round of its loop after the other                      *)

Looking == pc = "walk" /\ left # <<>> /\ CanReadLock(lock[curr])

\* Fault: the step is taken before the child is found there.
StepsUnchecked ==
  /\ Looking
  /\ lock' = [lock EXCEPT ![curr] = Read_Unlock(Read_Lock(@))]
  /\ curr' = Child(curr, Head(left)) /\ left' = Tail(left)
  /\ UNCHANGED <<tree, scan, pc, path_token, MountPaths>>

FindsChild ==
  /\ Looking /\ Child(curr, Head(left)) \in Node
  /\ lock' = [lock EXCEPT ![curr] = Read_Unlock(Read_Lock(@))]
  /\ curr' = Child(curr, Head(left)) /\ left' = Tail(left)
  /\ UNCHANGED <<tree, scan, pc, path_token, MountPaths>>

\* Fault: the reader asks for the Write_Lock before it has unlocked.
KeepsReadLock ==
  /\ Looking /\ Child(curr, Head(left)) \notin Node
  /\ lock' = [lock EXCEPT ![curr] = Read_Lock(@)]
  /\ pc' = "create"
  /\ UNCHANGED <<tree, scan, left, curr, path_token, MountPaths>>

MissesChild ==
  /\ Looking /\ Child(curr, Head(left)) \notin Node
  /\ lock' = [lock EXCEPT ![curr] = Read_Unlock(Read_Lock(@))]
  /\ pc' = "create"
  /\ UNCHANGED <<tree, scan, left, curr, path_token, MountPaths>>

(* strncpy of a name that fills path_token leaves it without its end: the  *)
(* pointer behind it reads as six more characters.                         *)
Token(name) == IF Length[name] < TokenSize THEN name ELSE "unterminated"

\* Fault: the child keeps the name of its parent's table entry, and curr stays.
CreatesBeside ==
  /\ pc = "create" /\ ~lock[curr].write
  /\ LET c == Child(curr, Head(left))
     IN /\ path_token' = With(path_token, c, path_token[curr])
        /\ lock' = With([lock EXCEPT ![curr] = Read_Unlock(@)], c, RW_Lock_Init)
        /\ curr' = c
  /\ left' = Tail(left) /\ pc' = "walk"
  /\ UNCHANGED <<tree, scan, MountPaths>>

\* Fault: the child is created under the Write_Lock alone, which is all that is unlocked.
CreatesAndUnlocksOnce ==
  /\ pc = "create" /\ ~lock[curr].write
  /\ LET c == Child(curr, Head(left))
     IN /\ path_token' = With(path_token, c, Token(Head(left)))
        /\ lock' = With(lock, c, RW_Lock_Init)
        /\ curr' = c
  /\ left' = Tail(left) /\ pc' = "walk"
  /\ UNCHANGED <<tree, scan, MountPaths>>

(* The child is created between Write_Lock and Write_Unlock; the           *)
(* Read_Unlock after that has no Read_Lock to it.                          *)
CreatesChild ==
  /\ pc = "create" /\ ~lock[curr].write
  /\ LET c == Child(curr, Head(left))
     IN /\ path_token' = With(path_token, c, Token(Head(left)))
        /\ lock' = With([lock EXCEPT ![curr] = Read_Unlock(@)], c, RW_Lock_Init)
        /\ curr' = c
  /\ left' = Tail(left) /\ pc' = "walk"
  /\ UNCHANGED <<tree, scan, MountPaths>>

Inserted ==
  /\ pc = "walk" /\ left = <<>> /\ pc' = "scan"
  /\ UNCHANGED <<tree, scan, left, curr, path_token, lock, MountPaths>>

-----------------------------------------------------------------------------
(* The trie is printed, and its paths are listed, each in a buffer of      *)
(* BufferSize characters that nobody watches: what does not fit is written *)
(* behind it on the stack.  (sprintf of the buffer to itself appends.)     *)

\* What trie_paths lists for the root: each node under the names on the way to it.
Listed == {[i \in DOMAIN n |-> path_token[SubSeq(n, 1, i)]] : n \in Node \ {<<>>}}

Characters(token) == IF token \in Name THEN Length[token] ELSE TokenSize + 6

\* "./a/b\n" for each path; "|-Mount\n", and for each path "|  |-b\n" below it.
PathsLength(paths) ==
  MapThenSumSet(LAMBDA p : 2 + MapThenSumSet(LAMBDA i : 1 + Characters(p[i]), DOMAIN p), paths)
PrintLength(paths) ==
  8 + MapThenSumSet(LAMBDA p : Len(p) + Len(p) \div 2 + 3 + Characters(Last(p)), paths)

TooLong(paths) == PrintLength(paths) >= BufferSize \/ PathsLength(paths) >= BufferSize

Prints ==
  /\ pc = "print"
  /\ \/ pc' = "list"
     \/ PrintLength(Listed) >= BufferSize /\ pc' = "crashed"
  /\ UNCHANGED <<tree, scan, left, curr, path_token, lock, MountPaths>>

\* Once a buffer has overflown, the packet has any part of the listing, or the process ends.
Lists ==
  /\ pc = "list" /\ pc' = "done"
  /\ IF TooLong(Listed) THEN MountPaths' \in SUBSET Listed ELSE MountPaths' = Listed
  /\ UNCHANGED <<tree, scan, left, curr, path_token, lock>>

ListsTooMuch ==
  /\ pc = "list" /\ TooLong(Listed) /\ pc' = "crashed"
  /\ UNCHANGED <<tree, scan, left, curr, path_token, lock, MountPaths>>

-----------------------------------------------------------------------------
Next == \/ InsertsEntry \/ LeavesDirectory \/ Populated
        \/ FindsChild \/ MissesChild \/ CreatesChild \/ Inserted
        \/ Prints \/ Lists \/ ListsTooMuch

Spec == Init /\ [][Next]_vars
LiveSpec == Spec /\ WF_vars(Next)

TypeOK ==
  /\ tree \in Disk /\ pc \in {"scan", "walk", "create", "print", "list", "done", "crashed"}
  /\ curr \in Node /\ <<>> \in Node /\ DOMAIN lock = Node
  /\ Range(path_token) \subseteq Name \cup {"Mount", "unterminated"}
  /\ MountPaths \subseteq Listed
  /\ \A n \in Node : lock[n].readers \in Int /\ lock[n].write \in BOOLEAN

(* Between two rounds of an insertion, the count of a node is short by one *)
(* for each of its children, and no Write_Lock is locked: this is the      *)
(* state in which the handlers find the locks.                             *)
LocksAreShort ==
  \A n \in Node : lock[n] = [readers |-> 0 - Cardinality(Children(n)), write |-> FALSE]

(* What makes it inductive: the walk stays in the trie, a child that is    *)
(* about to be created is not there, and the trie has no gaps.             *)
WalkInv ==
  /\ tree \in Disk /\ scan \in Seq(SUBSET tree) /\ left \in Seq(Name)
  /\ IsFiniteSet(Node) /\ Node \subseteq Seq(Range(Hash)) /\ lock = [n \in Node |-> lock[n]]
  /\ <<>> \in Node
  /\ \A n \in Node : n # <<>> => Front(n) \in Node
  /\ curr \in Node
  /\ pc = "create" => left # <<>> /\ Child(curr, Head(left)) \notin Node

NodeOf(p) == [i \in DOMAIN p |-> Hash[p[i]]]

(* "The trie is populated with the all contents of the cwd (recursively)"; *)
(* what the server announces to the naming server is the directory tree.   *)
AnnouncesTree == pc = "done" => MountPaths = tree

\* Two entries of a directory have names with the same hash.
NamesCollide == \E p, q \in tree : p # q /\ NodeOf(p) = NodeOf(q)

\* A name fills path_token.
NameTooLong == \E p \in tree : \E i \in DOMAIN p : Length[p[i]] >= TokenSize

\* The tree is too large for the buffers of its listings.
ListingTooLong == TooLong(tree)

(* It is, but for three limits of the code that nothing checks: names that *)
(* collide, names and listings that are too long for their buffers.        *)
AnnouncedWithinLimits == NamesCollide \/ NameTooLong \/ ListingTooLong \/ AnnouncesTree

(* No insertion waits forever for a lock of its own: the server gets to    *)
(* announce itself, or its trie is too large to be printed or listed.      *)
StartsUp ==
  <>(pc = "done" \/ (pc = "crashed" /\ TooLong(Listed)))
=============================================================================
