---------------------------- MODULE HistoryPages ----------------------------
(***************************************************************************)
(* A client that reads an item's audit events page by page while writers   *)
(* append to them and an operator restores backups (history_pages.rs,      *)
(* read_session.rs).  Events are numbered by the revision of the operation *)
(* that wrote them and their index in it, and are only ever appended.      *)
(***************************************************************************)
EXTENDS Cursors

CONSTANTS
    Items,          \* item identities; Missing is asked for but never captured
    Missing,
    Limits,         \* page sizes the client asks for
    MaxEvents,      \* bound: events of one operation
    MaxRevision,    \* bound: operations of one item
    MaxGenerations  \* bound: generations drawn, 1 + the restores

Store == "store"    \* a restored backup of another store: see ItemPages
Event == [revision : 1..MaxRevision, index : 0..(MaxEvents - 1)]
Token == [type : {"cursor"}, version : {CursorVersion}, kind : {"history"}, store : {Store},
          generation : Nat, query : {"history"} \X {Store} \X Items,
          boundary : [type : {"history"}, key : Event]]
Scan == [item : Items, generation : Nat, cursor : Token \cup {None}, got : SUBSET Event,
         repeated : BOOLEAN]

HistoryAssumption ==
    /\ MaxRevision \in 1..MaxI64 /\ MaxEvents \in 1..MaxI64
    /\ MaxGenerations \in Nat \ {0} /\ Limits \subseteq 1..100
    /\ Missing \notin Items
    /\ None \notin Items \cup Event \cup Token \cup Scan \cup CursorErrors

VARIABLES
    log,        \* per item, its events
    generation, \* of the store; a restore draws a new one
    backup,     \* the events in the last backup
    scan,       \* the client's scan and the cursor it holds, or None
    last        \* the outcome of the last page read

vars == <<log, generation, backup, scan, last>>

(* Order and selection. *)

Follows(e, boundary) ==
    \/ e.revision > boundary.revision
    \/ e.revision = boundary.revision /\ e.index > boundary.index

\* Mutant: the rest of the boundary's revision is skipped.
SelectionOfLaterRevisions(events, after) ==
    IF after = None THEN events
    ELSE {e \in events : e.revision > after.revision}

(* selection: a row value above the boundary; what SQLite cannot bind is    *)
(* above everything it stores.                                              *)
Selection(events, after) ==
    IF after = None THEN events
    ELSE IF after.revision > MaxI64 THEN {}
    ELSE IF after.index > MaxI64 THEN {e \in events : e.revision > after.revision}
    ELSE {e \in events : Follows(e, after)}

FirstEvents(events, n) ==
    {e \in events : Cardinality({o \in events : Follows(e, o)}) < n}

(* select_history_page *)
HistoryPage(item, limit, after) ==
    LET selected == Selection(log[item], after)
        records == FirstEvents(selected, limit)
    IN  [records |-> records, has_more |-> selected # records]

-----------------------------------------------------------------------------
Revision(item) == Cardinality({e.revision : e \in log[item]})

(* An effective transaction: one revision and the events it is made of.     *)
AppendEvents(item, n) ==
    /\ Revision(item) < MaxRevision
    /\ log' = [log EXCEPT ![item] = @ \cup
                {[revision |-> Revision(item) + 1, index |-> i] : i \in 0..(n - 1)}]
    /\ UNCHANGED <<generation, backup, scan, last>>

Backup == backup' = log /\ UNCHANGED <<log, generation, scan, last>>

Restore ==
    /\ generation < MaxGenerations
    /\ generation' = generation + 1
    /\ log' = backup
    /\ UNCHANGED <<backup, scan, last>>

-----------------------------------------------------------------------------
Outcome(item, error, after, rows) ==
    [item |-> item, generation |-> generation, error |-> error, after |-> after,
     rows |-> rows]

Found(item) == item \in Items /\ log[item] # {}

(* The page is cut at a non-empty prefix by the response budget.            *)
Emissions(records) ==
    IF records = {} THEN {{}}
    ELSE {{e \in records : ~Follows(e, final)} : final \in records}

\* Mutant: a page that was cut short has a cursor only if the store had more.
NextCursorOfSelection(item, page, emitted) ==
    IF page.has_more
    THEN Encode(HistoryContext(Store, generation, item),
                HistoryBoundary(CHOOSE e \in emitted : \A o \in emitted : ~Follows(o, e)))
    ELSE None

NextCursor(item, page, emitted) ==
    IF page.has_more \/ emitted # page.records
    THEN Encode(HistoryContext(Store, generation, item),
                HistoryBoundary(CHOOSE e \in emitted : \A o \in emitted : ~Follows(o, e)))
    ELSE None

Deliver(item, limit, after, sofar) ==
    LET page == HistoryPage(item, limit, after)
    IN  \E emitted \in Emissions(page.records) :
            /\ scan' = [sofar EXCEPT !.cursor = NextCursor(item, page, emitted),
                                     !.got = @ \cup emitted,
                                     !.repeated = @ \/ emitted \cap sofar.got # {}]
            /\ last' = Outcome(item, None, after, emitted)

FirstPage(item, limit) ==
    /\ scan = None
    /\ \/ /\ Found(item)
          /\ Deliver(item, limit, None,
                     [item |-> item, generation |-> generation, cursor |-> None,
                      got |-> {}, repeated |-> FALSE])
       \/ /\ ~Found(item)
          /\ last' = Outcome(item, "not_found", None, {})
          /\ UNCHANGED scan
    /\ UNCHANGED <<log, generation, backup>>

Holding == scan # None /\ scan.cursor # None

(* The cursor is bound before the item is looked up.                        *)
NextPage(item, limit) ==
    LET error == CursorError(HistoryContext(Store, generation, item), scan.cursor)
    IN  /\ Holding
        /\ \/ error # None /\ last' = Outcome(item, error, None, {}) /\ UNCHANGED scan
           \/ /\ error = None /\ Found(item)
              /\ Deliver(item, limit, scan.cursor.boundary.key, scan)
           \/ /\ error = None /\ ~Found(item)
              /\ last' = Outcome(item, "not_found", None, {}) /\ UNCHANGED scan
        /\ UNCHANGED <<log, generation, backup>>

(* The same token given to a list: the kind is checked first.               *)
ListPage ==
    LET request == [view |-> "all", me |-> 1, ordering |-> "newest_first",
                    projection |-> "summary", limit |-> 1,
                    filters |-> [project |-> None, requester |-> None, assignee |-> None,
                                 status |-> None, priority |-> None,
                                 unassigned |-> FALSE, text |-> None]]
    IN  /\ Holding
        /\ last' = Outcome(None, CursorError(ItemContext(Store, generation, request),
                                             scan.cursor), None, {})
        /\ UNCHANGED <<log, generation, backup, scan>>

Abandon ==
    /\ scan # None
    /\ scan' = None /\ last' = None
    /\ UNCHANGED <<log, generation, backup>>

Init ==
    /\ log = [i \in Items |-> {}] /\ backup = log
    /\ generation = 1
    /\ scan = None /\ last = None

Next ==
    \/ \E item \in Items, n \in 1..MaxEvents : AppendEvents(item, n)
    \/ Backup \/ Restore
    \/ \E item \in Items \cup {Missing}, limit \in Limits :
          FirstPage(item, limit) \/ NextPage(item, limit)
    \/ ListPage
    \/ Abandon

Spec == Init /\ [][Next]_vars

-----------------------------------------------------------------------------
(* Properties.                                                              *)

(* What a scan was sent is an initial part of one item's history, however   *)
(* writers appended to it between the pages: nothing is skipped, nothing is *)
(* sent twice, and no page continues another item's history or the same     *)
(* item's in another generation, where what was sent may have been undone.  *)
HistoryIsGapless ==
    scan # None =>
        /\ last.after # None => last.item = scan.item /\ last.generation = scan.generation
        /\ scan.generation = generation =>
              /\ scan.got \subseteq log[scan.item] /\ ~scan.repeated
              /\ \A sent \in scan.got : \A e \in log[scan.item] :
                    Follows(sent, e) => e \in scan.got

(* A scan ends only when everything that was there has been sent.           *)
EndsAtTheEnd ==
    [][scan' # scan /\ scan' # None /\ scan'.cursor = None
        => scan'.got = log[scan'.item]]_vars
=============================================================================
