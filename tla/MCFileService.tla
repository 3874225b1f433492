--------------------------- MODULE MCFileService ---------------------------
(* A mount m with a directory d and a file f in it; x is in no directory.  *)
EXTENDS FileService

CONSTANTS m, d, f, x

MCTrie == {<<>>, <<d>>, <<d, f>>}
MCPath == {<<m>>, <<m, d, f>>, <<m, x>>}

\* A flat trie, for the run that checks liveness as well.
MCFlatTrie == {<<>>, <<d>>}
MCFlatPath == {<<m>>, <<m, d>>, <<m, x>>}
=============================================================================
