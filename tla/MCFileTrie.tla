----------------------------- MODULE MCFileTrie -----------------------------
(* Names of which two have the same hash, one is long and one is too long, *)
(* and all trees of at most MaxEntries entries in two levels.              *)
EXTENDS FileTrie, TLC

CONSTANTS MaxEntries

MCName == {"a", "b", "c", "d"}
MCHash == ("a" :> 1) @@ ("b" :> 1) @@ ("c" :> 2) @@ ("d" :> 3)
MCLength == ("a" :> 1) @@ ("b" :> 12) @@ ("c" :> 1) @@ ("d" :> 14)

Paths == {<<n>> : n \in MCName} \cup {<<n, k>> : n, k \in MCName}
MCDisk == {t \in SUBSET Paths : Cardinality(t) <= MaxEntries
                                /\ \A p \in t : Len(p) > 1 => Front(p) \in t}
=============================================================================
