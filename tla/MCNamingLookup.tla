--------------------------- MODULE MCNamingLookup ---------------------------
(* Two mounted files below one directory, a path that is not mounted and   *)
(* shares a bucket with one of them, and the directory itself.             *)
EXTENDS NamingLookup, TLC

CONSTANTS m, d, f, g, x

MCPath == {<<m, d>>, <<m, d, f>>, <<m, d, g>>, <<m, x>>}
MCListed == {<<m, d>>}
MCRenames == {<< <<m, x>>, <<f>> >>}   \* x ends in a blank and f
MCBucket == <<m, d>> :> 1 @@ <<m, d, f>> :> 2 @@ <<m, d, g>> :> 3 @@ <<m, x>> :> 2
MCMountPaths == << <<m, d, f>>, <<m, d, g>> >>

\* Of threads that have met, those are followed that resolve paths, all being mounted.
Followed ==
  overlapped => /\ InStrtok = {} /\ pc[Inserter] = "insertNext" /\ inserted = Len(MountPaths)
                /\ \A t \in Thread : op[t] # "LIST"
=============================================================================
