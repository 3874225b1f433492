---------------------------- MODULE CommandTable ----------------------------
(***************************************************************************)
(* The client's table of commands (src/Client/Hash.c), filled by main      *)
(* (src/Client/Client.c).  A slot holds one function pointer and no key,   *)
(* so that whatever word hashes to a slot runs the function in it.         *)
(***************************************************************************)
EXTENDS Integers, Sequences, SequencesExt

CONSTANT NULL   \* the empty function pointer

PRIME == 37
FUNCTION_COUNT == 127

(* The words, as the characters that hash reads.  The last three are some  *)
(* that main does not know: EDIT, 8 and >.                                 *)
Characters ==
  [ HELP   |-> <<72, 69, 76, 80>>,           CLEAR |-> <<67, 76, 69, 65, 82>>,
    EXIT   |-> <<69, 88, 73, 84>>,           READ  |-> <<82, 69, 65, 68>>,
    WRITE  |-> <<87, 82, 73, 84, 69>>,       INFO  |-> <<73, 78, 70, 79>>,
    LIST   |-> <<76, 73, 83, 84>>,           DELETE |-> <<68, 69, 76, 69, 84, 69>>,
    CREATE |-> <<67, 82, 69, 65, 84, 69>>,   COPY  |-> <<67, 79, 80, 89>>,
    MOVE   |-> <<77, 79, 86, 69>>,           RENAME |-> <<82, 69, 78, 65, 77, 69>>,
    EDIT   |-> <<69, 68, 73, 84>>,           EIGHT |-> <<56>>,
    GREATER |-> <<62>> ]

hash(key, capacity) ==
  LET h[i \in 0 .. Len(key)] ==
        IF i = 0 THEN 0 ELSE (h[i - 1] + key[i] + h[i - 1] * PRIME) % capacity
  IN  h[Len(key)]

\* main's calls of insert, in their order.
Inserted == << "HELP", "CLEAR", "EXIT", "READ", "WRITE", "INFO", "LIST",
               "DELETE", "CREATE", "COPY", "MOVE", "RENAME" >>

createHashTable == [i \in 0 .. FUNCTION_COUNT - 1 |-> NULL]

slot(word) == hash(Characters[word], FUNCTION_COUNT)

insert(table, word) == [table EXCEPT ![slot(word)] = word]

Table ==
  LET t[i \in 0 .. Len(Inserted)] == IF i = 0 THEN createHashTable ELSE insert(t[i - 1], Inserted[i])
  IN  t[Len(Inserted)]

\* Fault: lookup works with one slot less than insert.
lookupShort(word) == Table[hash(Characters[word], FUNCTION_COUNT - 1)]

lookup(word) == Table[slot(word)]

\* What lookup may return, whatever the word.
Runnable == {Table[i] : i \in 0 .. FUNCTION_COUNT - 1}

Function == [word \in DOMAIN Characters |-> lookup(word)]
=============================================================================
