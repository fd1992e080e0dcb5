------------------------------- MODULE MCFiles -------------------------------
(* Small instances of the two views of StoreFiles.                          *)
EXTENDS StoreFiles

ASSUME Expectation == NamesApart

(* The store, the name of its write-ahead log, and two other paths, each of *)
(* which may hold an older file at the start.                               *)
MCPaths == {"live", "live-wal", "b1", "b2"}
MCCollide == {{"live", "live-wal"}}

(* One followed item and one of another project, pages of one row. *)
MCItems == {"a", "other"}
MCFollowed == {"a"}
=============================================================================
