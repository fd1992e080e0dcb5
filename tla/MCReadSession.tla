--------------------------- MODULE MCReadSession ---------------------------
(* Small instances of ReadSession.  Restores in place and exchanged files   *)
(* multiply each other's states, so each has the larger bounds only where   *)
(* the other has not: the one file keeps two revisions, two schemas and two *)
(* projections, or there are two files with one of each.                    *)
EXTENDS ReadSession, TLC

OneFile == \A f \in File \ {1} : files[f] = NoStore

OneOfEach ==
    /\ \A f \in File : /\ files[f].schema <= 1
                       /\ \A i \in Items : files[f].items[i].revision <= 1
    /\ call.request # None /\ call.request.kind = "get" => call.request.projection = "work"

Bounded == OneFile \/ OneOfEach
=============================================================================
