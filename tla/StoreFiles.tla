------------------------------ MODULE StoreFiles ------------------------------
(* Two views of a store's file over time: the operator's commands over the  *)
(* store and its backups, step by step, and a follower that reads the       *)
(* journal through prunes, restores and its own deaths.  The views share no *)
(* state but the generations drawn, and a behaviour is one of the two.      *)
EXTENDS OfflineMaintenance

CONSTANTS
    Items, Followed, Limit,                 \* of the feed
    MaxHigh, MaxDrawn, MaxCrashes           \* bounds of the feed

VARIABLES
    part,                                   \* which of the two moves
    store, saved, snap, source, covered, target, page, more, copy, crashes

fileVars == <<files, window, op, commits>>
feedVars == <<store, saved, snap, source, covered, target, page, more, copy, crashes>>
filesVars == <<part, drawn, fileVars, feedVars>>

Feed == INSTANCE JournalFeed

ASSUME FilesAssumption == MaintenanceAssumption /\ Feed!FeedAssumption

FilesInit ==
    /\ Init /\ Feed!Init
    /\ \/ part = "maintenance"
       \/ part = "feed" /\ \A p \in Paths : files[p] # Old

FilesNext ==
    \/ part = "maintenance" /\ Next /\ UNCHANGED <<part, feedVars>>
    \/ part = "feed" /\ Feed!Next /\ UNCHANGED <<part, fileVars>>

\* A follower that lives goes on; nothing is asked of writers and operators.
FollowerStep == part = "feed" /\ Feed!FollowerStep /\ UNCHANGED <<part, drawn, fileVars>>

FilesSpec ==
    /\ FilesInit
    /\ [][FilesNext]_filesVars
    /\ WF_filesVars(FollowerStep)

(* What is expected of the operator, since the tool compares the paths it is*)
(* given and not the files that lie beside them: no two files but the store *)
(* and its sidecars collide.                                                *)
NamesApart == \A pair \in Collide : Live \in pair

(* The follower knows every revision journaled up to the position it covers,*)
(* and rows past it say so where it is behind (storage/journal.rs).         *)
FollowerIsExact == Feed!FollowerIsExact

(* Under finitely many changes the follower catches up with an enabled      *)
(* store, through expired coverage, restores and its own deaths.            *)
CatchesUp == <>[](part = "feed" => Feed!CaughtUp)
=============================================================================
