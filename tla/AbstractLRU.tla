----------------------------- MODULE AbstractLRU -----------------------------
(***************************************************************************)
(* What the cache of the naming server promises (src/Naming Sever/LRU.c):  *)
(* at most CACHE_SIZE entries, of which the most recently used are kept,   *)
(* in the order of their use.                                              *)
(***************************************************************************)
EXTENDS Integers, Sequences, SequencesExt

CONSTANTS Entry, CACHE_SIZE

VARIABLE order   \* the entries, the one used last first

vars == order

Init == order = <<>>

\* An entry that is there is used again.
Touch(i) == order' = <<order[i]>> \o RemoveAt(order, i)

\* A new entry takes the place of the one that was not used for longest.
Add(e) ==
  /\ e \notin ToSet(order)
  /\ order' = SubSeq(<<e>> \o order, 1, IF Len(order) < CACHE_SIZE THEN Len(order) + 1 ELSE CACHE_SIZE)

Next ==
  \/ \E i \in DOMAIN order : Touch(i)
  \/ \E e \in Entry : Add(e)

Spec == Init /\ [][Next]_vars
=============================================================================
