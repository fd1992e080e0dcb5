----------------------------- MODULE ItemPages -----------------------------
(***************************************************************************)
(* A client that reads a list or a queue page by page while others capture *)
(* and change items and an operator restores backups.  Pages are live: a   *)
(* continuation is a new query over the table as it is then, beyond the    *)
(* last row the client was sent, and it is accepted only for the store,    *)
(* generation and query its cursor was made for (read_session.rs,          *)
(* projection_reads.rs, cursors.rs).                                       *)
(*                                                                         *)
(* A page is read from one snapshot, so reading one is a step.  How many   *)
(* of the selected rows fit the response budget depends on their bytes     *)
(* (module ResponseBudget): here any non-empty prefix may be what fits.    *)
(* A read that fails in another way (a busy store, a response too large)   *)
(* leaves client and store as they were.                                   *)
(***************************************************************************)
EXTENDS Cursors

CONSTANTS
    Requesters, Projects, Assignees, Priorities,   \* used by the items
    Times,          \* capture times; the clock may go back
    Contents,       \* what new items say: sets of folded needles
    Requests,       \* the page requests the client makes
    Backups,        \* backup files an operator has: a store and its items
    MaxSequence,    \* bound: captures per requester and project
    MaxChanges,     \* bound: lifecycle and triage changes
    MaxGenerations  \* bound: generations drawn, 1 + the restores

VARIABLES
    db,         \* the store: its id, generation and items
    changes,    \* how many changes there were
    scan,       \* the client's scan and the cursor it holds, or None
    last        \* the outcome of the last page read, and what it was read from

vars == <<db, changes, scan, last>>

ItemIds == Requesters \X Projects \X (1..MaxSequence)

Table == {db.items[id] : id \in {i \in ItemIds : db.items[i] # None}}

Request == [view : Views, me : Requesters, filters : Filters, ordering : Orderings,
            projection : Projections, limit : 1..100]

(* What a client and the store hold.  Sequences of a requester in a project *)
(* are drawn 1, 2, ... and no item is deleted.                              *)
Stores == {b.store : b \in Backups}
IsTable(items) ==
    /\ items \in [ItemIds -> Row \cup {None}]
    /\ \A id \in ItemIds : items[id] # None => IdOf(items[id]) = id
    /\ \A requester \in Requesters, project \in Projects : \E n \in 0..MaxSequence :
          \A m \in 1..MaxSequence : items[<<requester, project, m>>] # None <=> m <= n
Key == [captured : Nat, priority : Ranks \cup {None}, requester : Nat,
        project : Nat, sequence : Nat]
Token == [type : {"cursor"}, version : Nat, kind : {"list", "next"}, store : Stores,
          generation : Nat, boundary : [type : {"item"}, key : Key],
          query : {Fingerprint(store, request) : store \in Stores, request \in Requests}]
Scan == [request : Requests, store : Stores, generation : Nat, cursor : Token \cup {None},
         got : SUBSET ItemIds, repeated : BOOLEAN, steady : SUBSET ItemIds]
Answer == [request : Requests, store : Stores, generation : Nat,
           error : CursorErrors \cup {None}, strange : BOOLEAN,
           after : Key \cup {None}, rows : SUBSET Row]

(* A filter leaves something out: queries that differ ask for other items.  *)
LeavesOut(f) ==
    /\ f.project # None => Projects \ {f.project} # {}
    /\ f.requester # None => Requesters \ {f.requester} # {}
    /\ f.unassigned => Assignees # {}

PagesAssumption ==
    /\ IsFiniteSet(Requesters) /\ IsFiniteSet(Projects)
    /\ Requesters \subseteq Nat /\ Projects \subseteq Nat /\ Times \subseteq Nat
    /\ Assignees \subseteq Nat /\ Priorities \subseteq Ranks
    /\ MaxSequence \in 1..MaxI64 /\ Cardinality(ItemIds) <= MaxI64 + 1
    /\ MaxChanges \in Nat /\ MaxGenerations \in Nat \ {0}
    /\ Contents \subseteq SUBSET Needles
    /\ \A request \in Requests : request \in Request /\ LeavesOut(request.filters)
    /\ \A b \in Backups : IsTable(b.items)
    /\ None \notin Row \cup Key \cup Token \cup Scan \cup Answer \cup CursorErrors

-----------------------------------------------------------------------------
(* What writers and the operator do.                                        *)

(* A scan counts the rows that stayed what they were since it began.        *)
Moves(before, after, request) ==
    \/ KeyOf(before) # KeyOf(after)
    \/ ~Matches(Effective(request.view, request.me, request.filters), after)

Observed(id, before, after) ==
    IF scan = None \/ before = None THEN scan
    ELSE [scan EXCEPT !.steady = {s \in @ : s = id => ~Moves(before, after, scan.request)}]

Capture(requester, project, captured, words) ==
    LET sequence == Cardinality({n \in 1..MaxSequence :
                                    db.items[<<requester, project, n>>] # None}) + 1
        id == <<requester, project, sequence>>
        row == [captured |-> captured, priority |-> None, requester |-> requester,
                project |-> project, sequence |-> sequence, status |-> "proposed",
                assignee |-> None, words |-> words]
    IN  /\ sequence <= MaxSequence
        /\ db' = [db EXCEPT !.items[id] = row]
        /\ UNCHANGED <<changes, scan, last>>

(* transition and triage: what each status leads to, and what triage may do *)
Successors(status) ==
    CASE status = "proposed" -> {"ready", "rejected"}
      [] status = "ready" -> {"in_progress"}
      [] status = "in_progress" -> {"blocked", "done"}
      [] status = "blocked" -> {"in_progress"}
      [] OTHER -> {}

Change(id, row) ==
    /\ changes < MaxChanges
    /\ db.items[id] # None
    /\ db' = [db EXCEPT !.items[id] = row]
    /\ scan' = Observed(id, db.items[id], row)
    /\ changes' = changes + 1
    /\ UNCHANGED last

Transition(id) ==
    /\ db.items[id] # None
    /\ \E status \in Successors(db.items[id].status) :
          Change(id, [db.items[id] EXCEPT !.status = status])

Triage(id) ==
    /\ db.items[id] # None
    /\ db.items[id].status \notin {"done", "rejected"}
    /\ \/ \E priority \in Priorities \cup {None} :
             /\ priority # db.items[id].priority
             /\ Change(id, [db.items[id] EXCEPT !.priority = priority])
       \/ \E assignee \in Assignees \cup {None} :
             /\ assignee # db.items[id].assignee
             /\ Change(id, [db.items[id] EXCEPT !.assignee = assignee])

(* maintenance.rs, restore: whatever store the backup is of, its items and  *)
(* its id take the target's place under a generation that is new.           *)
Restore(b) ==
    /\ db.generation < MaxGenerations
    /\ db' = [store |-> b.store, generation |-> db.generation + 1, items |-> b.items]
    /\ UNCHANGED <<changes, scan, last>>

-----------------------------------------------------------------------------
(* ReadSession::read of a page, with the client's bookkeeping around it.    *)

Prefix(ordering, rows, lastRow) == {r \in rows : ~Precedes(ordering, lastRow, r)}

LastOf(ordering, rows) == CHOOSE r \in rows : \A o \in rows : ~Precedes(ordering, r, o)

\* Mutant: the cursor is made of the last row selected, not the last one sent.
NextCursorOfSelection(request, page, emitted) ==
    IF page.has_more \/ emitted # page.records
    THEN Encode(ItemContext(db.store, db.generation, request),
                ItemBoundary(KeyOf(LastOf(request.ordering, page.records))))
    ELSE None

(* write_page: a cut page continues after its last row that was sent, and   *)
(* the last page has no cursor.                                             *)
NextCursor(request, page, emitted) ==
    IF page.has_more \/ emitted # page.records
    THEN Encode(ItemContext(db.store, db.generation, request),
                ItemBoundary(KeyOf(LastOf(request.ordering, emitted))))
    ELSE None

Emissions(request, page) ==
    IF page.records = {} THEN {{}}
    ELSE {Prefix(request.ordering, page.records, r) : r \in page.records}

Outcome(request, error, after, rows) ==
    [request |-> request, store |-> db.store, generation |-> db.generation,
     error |-> error, strange |-> FALSE, after |-> after, rows |-> rows]

Deliver(request, after, sofar) ==
    LET page == KeysetPage(Table, request, after)
    IN  \E emitted \in Emissions(request, page) :
            /\ scan' = [sofar EXCEPT
                          !.cursor = NextCursor(request, page, emitted),
                          !.got = @ \cup {IdOf(r) : r \in emitted},
                          !.repeated = @ \/ \E r \in emitted : IdOf(r) \in sofar.got]
            /\ last' = Outcome(request, None, after, emitted)

(* A first page: a new scan begins with whatever matches now.               *)
FirstPage(request) ==
    /\ scan = None
    /\ ValidFilters(request.filters)
    /\ Deliver(request, None,
               [request |-> request, store |-> db.store, generation |-> db.generation,
                cursor |-> None, got |-> {}, repeated |-> FALSE,
                steady |-> {IdOf(r) : r \in Candidates(Table, request, None)}])
    /\ UNCHANGED <<db, changes>>

Holding == scan # None /\ scan.cursor # None

(* A continuation, with the cursor the client holds but perhaps for another *)
(* request than the one the scan began with.                                *)
NextPage(request) ==
    LET context == ItemContext(db.store, db.generation, request)
        error == CursorError(context, scan.cursor)
    IN  /\ Holding
        /\ ValidFilters(request.filters)
        /\ \/ error = None /\ Deliver(request, scan.cursor.boundary.key, scan)
           \/ error # None /\ last' = Outcome(request, error, None, {}) /\ UNCHANGED scan
        /\ UNCHANGED <<db, changes>>

(* A token the client made up, or one of another program version.           *)
StrangeTokens ==
    IF ~Holding THEN {}
    ELSE {Oversized, Garbled, [scan.cursor EXCEPT !.version = @ + 1],
          [scan.cursor EXCEPT !.generation = NoGeneration],
          [scan.cursor EXCEPT !.generation = BadGeneration],
          [scan.cursor EXCEPT !.boundary.key.sequence = 0],
          [scan.cursor EXCEPT !.kind = "history"]}

StrangePage(token) ==
    LET context == ItemContext(db.store, db.generation, scan.request)
    IN  /\ CursorError(context, token) # None
        /\ last' = [Outcome(scan.request, CursorError(context, token), None, {})
                     EXCEPT !.strange = TRUE]
        /\ UNCHANGED <<db, changes, scan>>

(* The client gives up: an invalid cursor always asks for a restart.        *)
Abandon ==
    /\ scan # None
    /\ scan' = None
    /\ last' = None
    /\ UNCHANGED <<db, changes>>

-----------------------------------------------------------------------------
Init ==
    /\ \E b \in Backups : db = [store |-> b.store, generation |-> 1, items |-> b.items]
    /\ changes = 0
    /\ scan = None
    /\ last = None

Write ==
    \/ \E requester \in Requesters, project \in Projects, t \in Times, words \in Contents :
          Capture(requester, project, t, words)
    \/ \E id \in ItemIds : Transition(id) \/ Triage(id)

Read(requests) ==
    \/ \E request \in requests : FirstPage(request) \/ NextPage(request)
    \/ \E token \in StrangeTokens : StrangePage(token)
    \/ Abandon

Next == Write \/ (\E b \in Backups : Restore(b)) \/ Read(Requests)

Spec == Init /\ [][Next]_vars

-----------------------------------------------------------------------------
(* Properties.                                                              *)

(* The normalized query and the keyset predicate mean what v1 wrote out by  *)
(* hand, its compatibility oracle: the same items in the same order, also   *)
(* after a boundary SQLite cannot store, and a page after the n-th item is  *)
(* the page at offset n, which says in the same cases where to go on.       *)
PagesAreAsInV1 ==
    \A request \in Requests :
        LET rows == Selected(Table, request)
            Sorted(l, r) == OrderItems(request.ordering, l, r)
            Boundaries == UNION {{KeyOf(r), [KeyOf(r) EXCEPT !.sequence = MaxI64 + 1]} : r \in Table}
            KeyAt(n) == KeyOf(CHOOSE r \in rows : Cardinality({o \in rows : Sorted(o, r)}) = n - 1)
        IN  ValidFilters(request.filters) =>
            /\ \A l, r \in Table : Precedes(request.ordering, l, r) <=> Sorted(l, r)
            /\ \A boundary \in Boundaries :
                  Candidates(Table, request, boundary) = {r \in rows : Sorted(boundary, r)}
            /\ \A n \in 0..Cardinality(rows) :
                  LET page == KeysetPage(Table, request, IF n = 0 THEN None ELSE KeyAt(n))
                  IN  OffsetPage(Table, request, n) =
                        [records |-> page.records,
                         next |-> IF page.has_more THEN n + request.limit ELSE None]

(* What a scan promises although rows move while it is read: a newest-first *)
(* list sends no item twice, since capture time and identity never change;  *)
(* and in either order, when it is over, the client was sent every item     *)
(* that matched when it began and neither stopped matching nor moved.       *)
ScanKeepsItsPromise ==
    scan # None =>
        /\ scan.request.ordering = "newest_first" => ~scan.repeated
        /\ scan.cursor = None => scan.steady \subseteq scan.got

(* Every row there can be, for comparing what two requests ask for.         *)
AnyRow == [captured : {1}, priority : Priorities \cup {None}, requester : Requesters,
           project : Projects, sequence : {1}, status : Statuses,
           assignee : Assignees \cup {None}, words : SUBSET {Fold[n] : n \in Needles}]
Asks(request, row) == LegacyMatches(request.view, request.me, request.filters, row)

SameQuery(left, right) ==
    /\ left.ordering = right.ordering /\ left.projection = right.projection
    /\ \A row \in AnyRow : Asks(left, row) <=> Asks(right, row)

(* A continuation that is answered with rows asks for what the scan asked   *)
(* for, of the same store in the same generation: also after a restore, and *)
(* also when the client repeats other arguments than it began with.         *)
ContinuationInScope ==
    last # None /\ last.after # None =>
        /\ last.store = scan.store /\ last.generation = scan.generation
        /\ SameQuery(last.request, scan.request)

(* The client's own cursor is refused for no other reason than the one it   *)
(* is told: another spelling of the same query, or page size, is accepted.  *)
RefusalHasCause ==
    last # None /\ last.error # None /\ ~last.strange =>
        CASE last.error = "wrong_kind" -> last.request.ordering # scan.request.ordering
          [] last.error = "wrong_store" -> last.store # scan.store
          [] last.error = "wrong_generation" ->
                last.store = scan.store /\ last.generation # scan.generation
          [] last.error = "wrong_query" ->
                \/ ~SameQuery(last.request, scan.request)
                \/ \A row \in AnyRow : ~Asks(scan.request, row)
          [] OTHER -> FALSE

(* The two together: a cursor is honoured in the history and for the query  *)
(* it was made for, whatever their spelling, and nowhere else.              *)
CursorIsHonouredInScope == ContinuationInScope /\ RefusalHasCause
=============================================================================
