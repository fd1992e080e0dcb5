-------------------------------- MODULE Reads --------------------------------
(* The read path: pages of items and of histories as clients follow them,   *)
(* and the delivery of one page under a budget.  The three share no state,  *)
(* so a behaviour is one of a single `part`: the budget of one delivery,    *)
(* the histories, or a scene, which is what clients and writers do to one   *)
(* table of items.                                                          *)
EXTENDS ResponseBudget, Sequences, FiniteSets

CONSTANTS
    MaxI64, Needles, Fold,                              \* of all pages
    Requesters, Projects, Assignees, Priorities,        \* of the item pages
    Times, Contents, Requests, Backups,
    MaxSequence, MaxChanges, MaxGenerations,
    Scenes,                 \* per scene, what is asked for, and its bounds
    Items, Missing, Limits,                             \* of the histories
    MaxEvents, MaxRevision, MaxHistories

VARIABLES
    part,                                   \* which of them moves
    db, changes, itemScan, itemAnswer,      \* of the item pages
    log, generation, backup, eventScan, eventAnswer    \* of the histories

itemVars == <<db, changes, itemScan, itemAnswer>>
eventVars == <<log, generation, backup, eventScan, eventAnswer>>
readsVars == <<part, vars, itemVars, eventVars>>

Lists == INSTANCE ItemPages WITH scan <- itemScan, last <- itemAnswer
History == INSTANCE HistoryPages WITH
    scan <- eventScan, last <- eventAnswer, MaxGenerations <- MaxHistories

ASSUME ReadsAssumption ==
    /\ Lists!QueryAssumption /\ Lists!PagesAssumption
    /\ History!HistoryAssumption
    /\ \A scene \in DOMAIN Scenes : Scenes[scene].requests \subseteq Requests

Found == [store |-> db.store, items |-> db.items]

ReadsInit ==
    /\ Init /\ Lists!Init /\ History!Init
    /\ \/ part \in {"budget", "history"} /\ Found = CHOOSE b \in Backups : TRUE
       \/ part \in DOMAIN Scenes /\ Found \in Scenes[part].starts

PlayScene ==
    LET scene == Scenes[part]
    IN  /\ part \in DOMAIN Scenes
        /\ \/ Lists!Write
           \/ \E b \in Backups : Lists!Restore(b)
           \/ Lists!Read(scene.requests)
        /\ \A id \in Lists!ItemIds : db'.items[id] \in scene.rows \cup {None}
        /\ changes' <= scene.changes /\ db'.generation <= scene.generations

ReadsNext ==
    \/ part = "budget" /\ Next /\ UNCHANGED <<part, itemVars, eventVars>>
    \/ part = "history" /\ History!Next /\ UNCHANGED <<part, vars, itemVars>>
    \/ PlayScene /\ UNCHANGED <<part, vars, eventVars>>

ReadsSpec == ReadsInit /\ [][ReadsNext]_readsVars

-----------------------------------------------------------------------------
(* A cursor is honoured for the same query of the same history of the same  *)
(* store, in any spelling, and refused otherwise (cursors.rs).              *)
CursorIsHonouredInScope == Lists!CursorIsHonouredInScope

(* Keyset pages of any table are what v1's predicates, comparator and       *)
(* offsets give (read_semantics.rs, projection_reads.rs).                   *)
PagesAreAsInV1 == part \in DOMAIN Scenes /\ itemScan = None => Lists!PagesAreAsInV1

(* Lists do not repeat, and no scan misses a row that held still.           *)
ScanKeepsItsPromise == Lists!ScanKeepsItsPromise

(* Pages of a growing history join without a gap or a repetition.           *)
HistoryIsGapless == History!HistoryIsGapless

(* A history scan ends only when all there is has been sent.                *)
EndsAtTheEnd == History!EndsAtTheEnd
=============================================================================
