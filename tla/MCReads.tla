------------------------------ MODULE MCReads ------------------------------
(* Small instances of the read path.                                        *)
EXTENDS Reads, TLC

-----------------------------------------------------------------------------
(* Delivery: pages of up to four records, one more than a page may have,    *)
(* whose sizes and cursors are smaller and larger than each other, and      *)
(* singles around the budgets.                                              *)

Sizes(n, records) ==
    {u \in [0..n -> 6..20] :
        /\ u[0] = 6
        /\ \A k \in 1..n : u[k] - u[k - 1] - (IF k = 1 THEN 0 ELSE 1) \in records}

Tokens == {[bytes |-> 2, whole |-> TRUE], [bytes |-> 7, whole |-> TRUE],
           [bytes |-> 23, whole |-> FALSE]}
PagesOf(n, records, tokens, mixed) ==
    [size : {n}, upto : Sizes(n, records), tokens : [1..n -> tokens],
     more : BOOLEAN, mixed : mixed]

SmallPages ==
    {page \in UNION {PagesOf(n, {1, 4}, Tokens, {FALSE}) : n \in 0..3}
               \cup UNION {PagesOf(n, {1}, {[bytes |-> 2, whole |-> TRUE]}, BOOLEAN) :
                             n \in {2, 4}} : IsPage(page)}

SmallSingles == {s \in [kind : {"get", "conditional", "selected", "error"}, item : BOOLEAN,
                     work : BOOLEAN, bytes : {5, 9}] : s.kind = "error" => ~s.item}

MCPages == SmallPages
MCSingles == SmallSingles

-----------------------------------------------------------------------------
(* Item pages: two requesters who are also assignees, one project, and      *)
(* requests of which several ask for the same rows.                         *)

MCFold == [n \in {"a", "A"} |-> "a"]

NoFilter == [project |-> None, requester |-> None, assignee |-> None, status |-> None,
             priority |-> None, unassigned |-> FALSE, text |-> None]
WithStatus(status) == [NoFilter EXCEPT !.status = status]
WithAssignee(assignee) == [NoFilter EXCEPT !.assignee = assignee]
WithText(text) == [NoFilter EXCEPT !.text = text]

List(view, filters, limit) ==
    [view |-> view, me |-> 1, filters |-> filters, ordering |-> "newest_first",
     projection |-> "summary", limit |-> limit]
Queue(view, filters, limit) == [List(view, filters, limit) EXCEPT !.ordering = "next"]

(* Views and filters in several spellings of the same query. *)
Spellings ==
    {List("all", NoFilter, 1), List("all", NoFilter, 2),
     List("ready", NoFilter, 1), List("all", WithStatus("ready"), 1),
     List("mine", NoFilter, 1), List("mine", WithAssignee(1), 1),
     List("mine", WithStatus("done"), 1),
     List("all", WithText("a"), 1), List("all", WithText("A"), 1),
     [List("all", NoFilter, 1) EXCEPT !.projection = "work"],
     [List("mine", NoFilter, 1) EXCEPT !.me = 2],
     [List("all", NoFilter, 1) EXCEPT !.filters.unassigned = TRUE],
     List("mine", [NoFilter EXCEPT !.unassigned = TRUE], 1),
     Queue("all", NoFilter, 1)}

(* Scans over items that change and appear; assignees are only taken away. *)
ScanRequests ==
    {List("all", NoFilter, 2), List("active", NoFilter, 1),
     Queue("ready", NoFilter, 1), Queue("all", [NoFilter EXCEPT !.priority = 0], 1)}

ItemAt(requester, captured, status, priority, assignee, words) ==
    [captured |-> captured, priority |-> priority, requester |-> requester, project |-> 1,
     sequence |-> 1, status |-> status, assignee |-> assignee, words |-> words]
Holds(store, rows) ==
    [store |-> store,
     items |-> [id \in {<<r.requester, r.project, r.sequence>> : r \in rows} |->
                    CHOOSE r \in rows : <<r.requester, r.project, r.sequence>> = id]
               @@ [id \in {1, 2} \X {1} \X {1, 2} |-> None]]

FirstStore == Holds(1, {ItemAt(1, 2, "ready", None, 1, {"a"}), ItemAt(2, 1, "ready", 0, 2, {})})
FreeStore == Holds(1, {ItemAt(1, 2, "ready", None, None, {"a"}),
                       ItemAt(2, 1, "ready", 0, None, {})})
OtherStore == Holds(2, {ItemAt(1, 1, "in_progress", None, 1, {"a"})})

MCRequests == Spellings \cup ScanRequests
MCBackups == {FirstStore, OtherStore, FreeStore}
MCContents == {{}}

Rows(sequences, times) ==
    [captured : times, priority : {0, None}, requester : {1, 2}, project : {1},
     sequence : sequences, status : Lists!Statuses, assignee : {1, 2, None},
     words : {{}, {"a"}}]

(* Cursors across restores, stores and spellings, where the clock stands    *)
(* still; and pages of a table that changes between them, where what the    *)
(* first requester adds is old and what the second adds is new.             *)
MCScenes ==
    [queries |-> [starts |-> {FirstStore, OtherStore}, requests |-> Spellings,
                  rows |-> {r \in Rows({1}, {1, 2}) : r.captured = 1 \/ r.requester = 1},
                  changes |-> 1, generations |-> 2],
     scans |-> [starts |-> {FreeStore}, requests |-> ScanRequests,
                rows |-> {r \in Rows({1, 2}, {1, 2}) :
                            /\ r.assignee = None
                            /\ r.sequence = 1 \/ r.captured = r.requester},
                changes |-> 2, generations |-> 1]]
=============================================================================
