------------------------------ MODULE JournalFeed ------------------------------
(***************************************************************************)
(* Following the change journal (storage/journal.rs): a follower copies    *)
(* the revisions of one project's items, then asks for pages of journal    *)
(* rows between the position it covers and a high water mark it fixed, in  *)
(* read snapshots.  Writers append, and the operator prunes, activates,    *)
(* backs up and restores, at any time.                                     *)
(*                                                                         *)
(* The library stops at select_range: the follower is external, and uses   *)
(* it as its comments and docs/bif-v2-migration-plan.md say: positions are *)
(* durable after they are applied, one scan keeps one high water mark.     *)
(***************************************************************************)
EXTENDS Integers, FiniteSets

CONSTANTS
    Items,          \* items of the store
    Followed,       \* those of the project the follower asks for
    None,
    Limit,          \* rows in a page
    MaxHigh,        \* bound: journal positions
    MaxDrawn,       \* bound: generations drawn, 1 + the restores
    MaxCrashes      \* bound: deaths of the follower

VARIABLES
    store,      \* identity, metadata, rows and item revisions
    saved,      \* a backup of it, or None
    drawn,      \* identities drawn so far; each draw is new
    snap,       \* the follower's open read snapshot, or None
    source,     \* the identity its positions belong to, or None
    covered,    \* the position it has durably applied
    target,     \* the high water mark of its scan, or None
    page,       \* the rows it has been given and not applied, or None
    more,       \* whether the page was cut at its limit
    copy,       \* the revisions it knows
    crashes

storeVars == <<store, saved, drawn>>
followerVars == <<snap, source, covered, target, page, more, copy, crashes>>
vars == <<store, saved, drawn, snap, source, covered, target, page, more, copy, crashes>>

FeedAssumption ==
    /\ Followed \subseteq Items
    /\ Limit \in Nat \ {0} /\ MaxHigh \in Nat /\ MaxDrawn \in Nat \ {0} /\ MaxCrashes \in Nat
    /\ None \notin Nat \cup {"mismatch", "disabled", "invalid", "expired"} /\ None # {}

-----------------------------------------------------------------------------
(* The store.  `rows` is the whole history; the table holds the Retained. *)

Retained(s) == {r \in s.rows : r.seq > s.floor}

\* append_change inside the transaction that moves the item's revision.
Commit(i) ==
    /\ store.high < MaxHigh
    /\ store' = [store EXCEPT
          !.high = @ + 1,
          !.rows = @ \cup {[seq |-> store.high + 1, item |-> i, revision |-> store.revision[i] + 1]},
          !.revision[i] = @ + 1]
    /\ UNCHANGED <<saved, drawn, followerVars>>

Prune(through) ==
    /\ through \in store.floor..store.high
    /\ store' = [store EXCEPT !.floor = through]
    /\ UNCHANGED <<saved, drawn, followerVars>>

Activate ==
    /\ store' = [store EXCEPT !.enabled = TRUE]
    /\ UNCHANGED <<saved, drawn, followerVars>>

Backup == saved = None /\ saved' = store /\ UNCHANGED <<store, drawn, followerVars>>

Restore ==
    /\ saved # None /\ drawn < MaxDrawn
    /\ drawn' = drawn + 1
    /\ store' = [saved EXCEPT !.id = drawn + 1, !.enabled = FALSE]
    /\ UNCHANGED <<saved, followerVars>>

-----------------------------------------------------------------------------
(* JournalSnapshot: one read transaction. *)

Begin == snap = None /\ snap' = store
         /\ UNCHANGED <<storeVars, source, covered, target, page, more, copy, crashes>>

\* Mutant: half-open at the other end, [from, to) as sequence ranges usually are.
SelectedBelow(s, from, to) ==
    {r \in Retained(s) : r.item \in Followed /\ from <= r.seq /\ r.seq < to}

\* What select_range selects in (from, to], in order, and its first page.
Selected(s, from, to) ==
    {r \in Retained(s) : r.item \in Followed /\ from < r.seq /\ r.seq <= to}

First(rows) == {r \in rows : Cardinality({q \in rows : q.seq < r.seq}) < Limit}

\* Mutant: coverage at the floor has expired.
RefusalAtFloor(s, id, from, to) ==
    IF id # s.id THEN "mismatch"
    ELSE IF ~s.enabled THEN "disabled"
    ELSE IF to < from \/ to > s.high THEN "invalid"
    ELSE IF from <= s.floor THEN "expired"
    ELSE None

\* require_sync, then select_range.
Refusal(s, id, from, to) ==
    IF id # s.id THEN "mismatch"
    ELSE IF ~s.enabled THEN "disabled"
    ELSE IF to < from \/ to > s.high THEN "invalid"
    ELSE IF from < s.floor THEN "expired"
    ELSE None

-----------------------------------------------------------------------------
(* The follower. *)

\* The scan under way keeps its mark; a new one ends at the snapshot's.
Mark == IF target = None THEN snap.high ELSE target

FetchRefused ==
    /\ snap # None /\ source # None /\ page = None
    /\ Refusal(snap, source, covered, Mark) # None
    /\ snap' = None
    /\ source' = IF Refusal(snap, source, covered, Mark) = "disabled" THEN source ELSE None
    /\ target' = None
    /\ UNCHANGED <<storeVars, covered, page, more, copy, crashes>>

Fetch ==
    /\ snap # None /\ source # None /\ page = None
    /\ Refusal(snap, source, covered, Mark) = None
    /\ LET rows == Selected(snap, covered, Mark)
       IN  page' = First(rows) /\ more' = (First(rows) # rows)
    /\ target' = Mark
    /\ snap' = None
    /\ UNCHANGED <<storeVars, source, covered, copy, crashes>>

\* A follower without a source copies the items and the mark of one snapshot.
Bootstrap ==
    /\ snap # None /\ source = None
    /\ snap' = None
    /\ IF snap.enabled
       THEN /\ source' = snap.id
            /\ covered' = snap.high
            /\ copy' = [i \in Followed |-> snap.revision[i]]
       ELSE UNCHANGED <<source, covered, copy>>
    /\ target' = None
    /\ page' = None
    /\ UNCHANGED <<storeVars, more, crashes>>

Apply(r) ==
    /\ page # None /\ r \in page
    /\ \A q \in page : r.seq <= q.seq
    /\ copy' = [copy EXCEPT ![r.item] = r.revision]
    /\ covered' = r.seq
    /\ page' = page \ {r}
    /\ UNCHANGED <<storeVars, snap, source, target, more, crashes>>

\* The last page of a scan covers everything up to its mark.
PageDone ==
    /\ page = {}
    /\ page' = None
    /\ IF more THEN UNCHANGED <<covered, target>>
       ELSE covered' = target /\ target' = None
    /\ UNCHANGED <<storeVars, snap, source, more, copy, crashes>>

Crash ==
    /\ crashes < MaxCrashes
    /\ crashes' = crashes + 1
    /\ snap' = None /\ page' = None
    /\ UNCHANGED <<storeVars, source, covered, target, more, copy>>

NewStore ==
    [id |-> 1, floor |-> 0, high |-> 0, enabled |-> FALSE, rows |-> {},
     revision |-> [i \in Items |-> 1]]

Init ==
    /\ store = NewStore /\ saved = None /\ drawn = 1
    /\ snap = None /\ source = None /\ covered = 0 /\ target = None
    /\ page = None /\ more = FALSE /\ copy = [i \in Followed |-> 0] /\ crashes = 0

StoreStep ==
    \/ \E i \in Items : Commit(i)
    \/ \E t \in 0..MaxHigh : Prune(t)
    \/ Activate \/ Backup \/ Restore

FollowerStep ==
    \/ Begin \/ Fetch \/ FetchRefused \/ Bootstrap \/ PageDone
    \/ page # None /\ \E r \in page : Apply(r)

Next == StoreStep \/ FollowerStep \/ Crash

Spec == Init /\ [][Next]_vars

-----------------------------------------------------------------------------
(* Properties. *)

(* The follower's copy is exact at the position it covers: it knows every   *)
(* revision journaled up to there, and where it is behind an item, a row it *)
(* has not covered says so.                                                 *)
FollowerIsExact ==
    source = store.id =>
        /\ \A r \in store.rows :
             r.item \in Followed /\ r.seq <= covered => r.revision <= copy[r.item]
        /\ \A i \in Followed :
             copy[i] # store.revision[i] =>
                 /\ copy[i] < store.revision[i]
                 /\ \E r \in store.rows : r.item = i /\ r.seq > covered

(* Under finitely many changes the follower catches up with an enabled      *)
(* store, through expired coverage, restores and its own deaths.            *)
CaughtUp ==
    store.enabled => /\ source = store.id /\ covered = store.high
                     /\ \A i \in Followed : copy[i] = store.revision[i]

CatchesUp == <>[]CaughtUp
=============================================================================
