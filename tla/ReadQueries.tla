---------------------------- MODULE ReadQueries ----------------------------
(***************************************************************************)
(* What a list or next query means (application/read_semantics.rs), what   *)
(* SQL makes of it (storage/projection_reads.rs), the v1 selection it has  *)
(* to agree with (application.rs, storage.rs), and the bytes a cursor      *)
(* binds.  Everything is a function of a table of rows and a request.      *)
(*                                                                         *)
(* Names and capture times are compared as binary strings, so each is a    *)
(* number that stands for its place in that order; the assignee a          *)
(* requester folds to has the requester's number.  A text filter is a      *)
(* needle, and a row has the folded needles its content contains.          *)
(***************************************************************************)
EXTENDS Integers, Sequences, FiniteSets

CONSTANTS
    Needles,    \* text filters as given
    Fold,       \* to_ascii_lowercase and SQLite's lower, on needles
    None,       \* Option::None
    MaxI64      \* the largest integer SQLite stores

Statuses == {"proposed", "ready", "in_progress", "blocked", "done", "rejected"}
Views == {"proposed", "ready", "active", "blocked", "done", "rejected", "mine", "all"}
Orderings == {"newest_first", "next"}
Projections == {"summary", "work", "audit"}
Ranks == 0..4       \* P0 .. P4
Owner == Nat \cup {None}

Row == [captured : Nat, priority : Ranks \cup {None}, requester : Nat,
        project : Nat, sequence : 1..MaxI64, status : Statuses,
        assignee : Owner, words : SUBSET Needles]
Filters == [project : Owner, requester : Owner, assignee : Owner,
            status : Statuses \cup {None}, priority : Ranks \cup {None},
            unassigned : BOOLEAN, text : Needles \cup {None}]

QueryAssumption ==
    /\ None \notin Nat \cup Needles \cup Statuses
    /\ Fold \in [Needles -> Needles]
    /\ \A n \in Needles : Fold[Fold[n]] = Fold[n]
    /\ MaxI64 \in Nat \ {0}

(* From<&Item> for ItemReadKey. *)
KeyOf(row) ==
    [captured |-> row.captured, priority |-> row.priority,
     requester |-> row.requester, project |-> row.project, sequence |-> row.sequence]

IdOf(row) == <<row.requester, row.project, row.sequence>>

-----------------------------------------------------------------------------
(* Order: sort_spec and the lexicographic comparison both adapters share.   *)

PriorityRank(priority) == IF priority = None THEN 5 ELSE priority

Coordinate(key, field) ==
    IF field = "rank" THEN PriorityRank(key.priority) ELSE key[field]

Ascending(field) == [field |-> field, descending |-> FALSE]
Descending(field) == [field |-> field, descending |-> TRUE]
IdentityOrder == <<Ascending("requester"), Ascending("project"), Ascending("sequence")>>
ListOrder ==
    <<Descending("captured"), IdentityOrder[1], IdentityOrder[2], IdentityOrder[3]>>
NextOrder ==
    <<Ascending("rank"), Ascending("captured"),
      IdentityOrder[1], IdentityOrder[2], IdentityOrder[3]>>
SortSpec(ordering) == IF ordering = "newest_first" THEN ListOrder ELSE NextOrder

Same(term, left, right) == Coordinate(left, term.field) = Coordinate(right, term.field)
Before(term, left, right) ==
    IF term.descending THEN Coordinate(left, term.field) > Coordinate(right, term.field)
    ELSE Coordinate(left, term.field) < Coordinate(right, term.field)

(* compare_keys(left, right) = Less: the first coordinate that differs. *)
Precedes(ordering, left, right) ==
    LET spec == SortSpec(ordering)
    IN  \E i \in 1..Len(spec) :
            /\ \A j \in 1..(i - 1) : Same(spec[j], left, right)
            /\ Before(spec[i], left, right)

(* order_items, the comparator v1 wrote out by hand. *)
OrderItems(ordering, left, right) ==
    LET idLess == \/ left.requester < right.requester
                  \/ left.requester = right.requester /\ left.project < right.project
                  \/ /\ left.requester = right.requester /\ left.project = right.project
                     /\ left.sequence < right.sequence
        oldest == \/ left.captured < right.captured
                  \/ left.captured = right.captured /\ idLess
        newest == \/ left.captured > right.captured
                  \/ left.captured = right.captured /\ idLess
        l == PriorityRank(left.priority)
        r == PriorityRank(right.priority)
    IN  IF ordering = "newest_first" THEN newest ELSE l < r \/ (l = r /\ oldest)

-----------------------------------------------------------------------------
(* The keyset predicate of page_query: a range on the leading coordinate,   *)
(* and an alternative per coordinate.  No durable sequence is as large as   *)
(* a boundary above MaxI64, which is therefore not bound: its alternative,  *)
(* the last one, is left out.                                               *)

BoundTerms(ordering, boundary) ==
    LET n == Len(SortSpec(ordering))
    IN  IF boundary.sequence > MaxI64 THEN 1..(n - 1) ELSE 1..n

Beyond(ordering, row, boundary) ==
    LET spec == SortSpec(ordering)
    IN  /\ ~Before(spec[1], row, boundary)
        /\ \E i \in BoundTerms(ordering, boundary) :
              /\ \A j \in 1..(i - 1) : Same(spec[j], row, boundary)
              /\ Before(spec[i], boundary, row)

-----------------------------------------------------------------------------
(* Membership.  EffectiveItemFilters::new intersects view and filters into  *)
(* one predicate: the statuses, and every other restriction or None.        *)

ViewStatuses(view) ==
    CASE view = "active" -> {"in_progress", "blocked"}
      [] view = "mine" -> {"proposed", "ready", "in_progress", "blocked"}
      [] view = "all" -> Statuses
      [] OTHER -> {view}

ValidFilters(f) == ~(f.assignee # None /\ f.unassigned)

(* AssigneeFilter *)
AnyOwner == <<"any">>
Unassigned == <<"unassigned">>
Assigned(assignee) == <<"assigned", assignee>>

Owners(f) ==
    IF f.unassigned THEN Unassigned
    ELSE IF f.assignee # None THEN Assigned(f.assignee)
    ELSE AnyOwner

NoPredicate == [statuses |-> {}, project |-> None, requester |-> None,
                owners |-> AnyOwner, priority |-> None, text |-> None]

FoldText(text) == IF text = None THEN None ELSE Fold[text]

\* Mutant: `mine` overrides an explicit owner instead of intersecting with it.
EffectiveOverriding(view, me, f) ==
    LET statuses == {s \in ViewStatuses(view) : f.status \in {None, s}}
    IN  IF statuses = {} THEN NoPredicate
        ELSE [statuses |-> statuses, project |-> f.project, requester |-> f.requester,
              owners |-> IF view = "mine" THEN Assigned(me) ELSE Owners(f),
              priority |-> f.priority, text |-> FoldText(f.text)]

Effective(view, me, f) ==
    LET statuses == {s \in ViewStatuses(view) : f.status \in {None, s}}
        others == view = "mine" /\ Owners(f) \notin {AnyOwner, Assigned(me)}
    IN  IF statuses = {} \/ others THEN NoPredicate
        ELSE [statuses |-> statuses, project |-> f.project, requester |-> f.requester,
              owners |-> IF view = "mine" THEN Assigned(me) ELSE Owners(f),
              priority |-> f.priority, text |-> FoldText(f.text)]

Admits(filter, value) == filter = None \/ filter = value

Matches(predicate, row) ==
    /\ row.status \in predicate.statuses
    /\ Admits(predicate.project, row.project)
    /\ Admits(predicate.requester, row.requester)
    /\ CASE predicate.owners = AnyOwner -> TRUE
         [] predicate.owners = Unassigned -> row.assignee = None
         [] OTHER -> predicate.owners = Assigned(row.assignee)
    /\ Admits(predicate.priority, row.priority)
    /\ predicate.text = None \/ predicate.text \in row.words

(* The raw predicates of v1: select_items and legacy_page_query. *)
LegacyView(view, me, row) ==
    CASE view = "active" -> row.status \in {"in_progress", "blocked"}
      [] view = "mine" -> row.status \notin {"done", "rejected"} /\ row.assignee = me
      [] view = "all" -> TRUE
      [] OTHER -> row.status = view

LegacyMatches(view, me, f, row) ==
    /\ LegacyView(view, me, row)
    /\ Admits(f.project, row.project)
    /\ Admits(f.requester, row.requester)
    /\ Admits(f.assignee, row.assignee)
    /\ Admits(f.status, row.status)
    /\ Admits(f.priority, row.priority)
    /\ f.unassigned => row.assignee = None
    /\ f.text = None \/ Fold[f.text] \in row.words

-----------------------------------------------------------------------------
(* Selection.  A request is [view, me, filters, ordering, projection, limit]*)
(* and a page the rows it returns and whether one more row was there.       *)

Preceding(ordering, rows, row) == {other \in rows : Precedes(ordering, other, row)}

(* ORDER BY ... LIMIT n OFFSET m *)
Slice(ordering, rows, offset, n) ==
    {row \in rows : Cardinality(Preceding(ordering, rows, row)) \in offset..(offset + n - 1)}

(* page_query and primary_page: at most `limit` rows, the next one only     *)
(* stepped over to learn that it exists.                                    *)
Candidates(table, request, after) ==
    LET predicate == Effective(request.view, request.me, request.filters)
    IN  {row \in table : /\ Matches(predicate, row)
                         /\ after # None => Beyond(request.ordering, row, after)}

KeysetPage(table, request, after) ==
    LET candidates == Candidates(table, request, after)
        records == Slice(request.ordering, candidates, 0, request.limit)
    IN  [records |-> records, has_more |-> candidates # records]

(* legacy_page: an offset SQLite cannot bind gives an empty last page. *)
Selected(table, request) ==
    {row \in table : LegacyMatches(request.view, request.me, request.filters, row)}

OffsetPage(table, request, offset) ==
    LET rows == Selected(table, request)
        records == Slice(request.ordering, rows, offset, request.limit)
        more == Slice(request.ordering, rows, offset, request.limit + 1) # records
    IN  IF offset > MaxI64 THEN [records |-> {}, next |-> None]
        ELSE [records |-> records, next |-> IF more THEN offset + request.limit ELSE None]

-----------------------------------------------------------------------------
(* What a cursor is bound to.  SHA-256 tells different bytes apart, so the  *)
(* fingerprint is the tuple of what canonical_bytes and item_page write;    *)
(* the page size and the raw spelling of view and filters are not written.  *)

EmptyMine(request) ==
    /\ request.view = "mine"
    /\ Effective(request.view, request.me, request.filters) = NoPredicate

Fingerprint(store, request) ==
    <<store, request.projection, request.ordering,
      Effective(request.view, request.me, request.filters),
      IF EmptyMine(request) THEN request.me ELSE None>>
=============================================================================
